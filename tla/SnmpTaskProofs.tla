--------------------------- MODULE SnmpTaskProofs ---------------------------
(***************************************************************************)
(* Proofs about SnmpTask for every number of nodes, threads and sessions:  *)
(* two threads never share a part, a collector leaves no session without   *)
(* its exchange, and the output is complete when the control ends.         *)
(***************************************************************************)
EXTENDS SnmpTask, FiniteSetTheorems, FunctionTheorems, TLAPS

Steps == {"none", "get", "start", "collect", "unlink", "result", "undef", "end"}

(* A thread at work has a task.                                            *)
HasTask == \A t \in Workers : tpc[t] \in {"start", "collect", "unlink", "result", "undef"}
                                 => task[t] \in Parts

TypeInv == TypeOK /\ HasTask

LEMMA NumThreadsNat == NumThreads \in Nat /\ NumThreads <= NumNodes /\ NumThreads <= MaxThreads
BY SnmpAssumption DEF NumThreads

(* The queue of tasks: the parts in order, then the undefs.                *)
LEMMA TaskListType == TaskList \in Seq(Parts \cup {Undef})
BY NumThreadsNat DEF TaskList, Parts, Undef

(* The lines are dealt out to the parts there are.                         *)
LEMMA PartOfType == ASSUME NEW n \in Nodes PROVE PartOf(n) \in Parts
<1>1. n - 1 \in Nat /\ n - 1 < NumNodes /\ MaxThreads \in Nat \ {0} /\ NumNodes \in Nat
  BY SnmpAssumption DEF Nodes
<1>2. (n - 1) % MaxThreads \in 0..(MaxThreads - 1)
  BY <1>1
<1>3. (n - 1) % MaxThreads <= n - 1
  BY <1>1, <1>2
<1>4. QED BY <1>1, <1>2, <1>3 DEF PartOf, Parts, NumThreads

LEMMA InitType == Init => TypeInv
<1> SUFFICES ASSUME Init PROVE TypeInv
  OBVIOUS
<1>1. /\ 0 \in Nat /\ 0 \in 0..NumNodes /\ 0 \in 0..MaxFaults /\ Undef \in Parts \cup {Undef}
      /\ \A S : <<>> \in Seq(S)
  BY SnmpAssumption
<1>2. TypeOK
  BY <1>1 DEF Init, TypeOK
<1>3. HasTask
  BY DEF Init, HasTask
<1>4. QED BY <1>2, <1>3 DEF TypeInv

LEMMA NextType == TypeInv /\ [Next]_vars => TypeInv'
<1> SUFFICES ASSUME TypeInv, [Next]_vars PROVE TypeInv'
  OBVIOUS
<1> USE SnmpAssumption DEF TypeInv, TypeOK, HasTask, control, collector, history
<1>1. CASE ListNode
  <2>1. listed + 1 \in Nodes
    BY <1>1 DEF ListNode, Nodes
  <2>2. partNodes' \in [Parts -> Seq(Nodes)]
    BY <1>1, <2>1, PartOfType DEF ListNode
  <2>3. QED BY <1>1, <2>1, <2>2 DEF ListNode, Nodes
<1>2. CASE StartThreads
  BY <1>2, TaskListType DEF StartThreads
<1>3. CASE TakeResult
  <2>1. Head(results) \in Parts \cup {Undef} /\ Tail(results) \in Seq(Parts \cup {Undef})
    BY <1>3 DEF TakeResult
  <2>2. CASE Head(results) = Undef
    BY <1>3, <2>1, <2>2 DEF TakeResult
  <2>3. CASE Head(results) # Undef
    <3>1. output' \in Seq(Nodes) /\ partMib' \in [Parts -> Seq(Nodes)]
      <4> DEFINE p == Head(results)
      <4>1. p \in Parts /\ partMib[p] \in Seq(Nodes)
        BY <2>1, <2>3
      <4>2. output' = output \o partMib[p] /\ partMib' = [partMib EXCEPT ![p] = <<>>]
        BY <1>3, <2>3 DEF TakeResult
      <4> HIDE DEF p
      <4>3. QED BY <4>1, <4>2
    <3>2. QED BY <1>3, <2>1, <2>3, <3>1 DEF TakeResult
  <2>4. QED BY <2>2, <2>3
<1>4. CASE Join
  BY <1>4 DEF Join
<1>5. ASSUME NEW t \in Workers, GetTask(t) PROVE TypeInv'
  <2>1. Head(tasks) \in Parts \cup {Undef} /\ Tail(tasks) \in Seq(Parts \cup {Undef})
    BY <1>5 DEF GetTask
  <2>2. QED BY <1>5, <2>1 DEF GetTask, Goes, At, Undef
<1>6. ASSUME NEW t \in Workers, Unlink(t) PROVE TypeInv'
  BY <1>6 DEF Unlink, Goes, At
<1>7. ASSUME NEW t \in Workers, PutResult(t) PROVE TypeInv'
  BY <1>7 DEF PutResult, Goes, At
<1>8. ASSUME NEW t \in Workers, PutUndef(t) PROVE TypeInv'
  BY <1>8 DEF PutUndef, Goes, At
<1>9. ASSUME NEW t \in Workers, OpenFiles(t) PROVE TypeInv'
  BY <1>9 DEF OpenFiles, Goes, At
<1>10. ASSUME NEW t \in Workers, OpenSession(t) PROVE TypeInv'
  <2>1. task[t] \in Parts /\ MyNodes(t) \in Seq(Nodes) /\ i[t] \in Nat /\ i[t] + 1 \in 1..Len(MyNodes(t))
    <3>1. task[t] \in Parts /\ i[t] \in Nat /\ i[t] < Len(partNodes[task[t]])
      BY <1>10 DEF OpenSession, At, MyNodes
    <3>2. partNodes[task[t]] \in Seq(Nodes)
      BY <3>1
    <3>3. QED BY <3>1, <3>2 DEF MyNodes
  <2>2. MyNodes(t)[i[t] + 1] \in Nodes
    BY <2>1
  <2> DEFINE sessions == Append(open[t], MyNodes(t)[i[t] + 1])
  <2>3. sessions \in Seq(Nodes)
    BY <2>2
  <2> HIDE DEF sessions
  <2>4. /\ partMib' \in [Parts -> Seq(Nodes)] /\ gathered' \in Seq(Nodes)
        /\ open' \in [Workers -> Seq(Nodes)] /\ j' \in [Workers -> Nat]
    <3>1. CASE (i[t] + 1) % MaxHosts = 0
      <4>1. Dispatch(t, sessions) /\ j' = [j EXCEPT ![t] = @ + MaxHosts]
        BY <1>10, <3>1 DEF OpenSession, sessions
      <4>2. task[t] \in Parts /\ partMib[task[t]] \o sessions \in Seq(Nodes)
        BY <2>1, <2>3
      <4>3. partMib' \in [Parts -> Seq(Nodes)]
        BY <4>1, <4>2 DEF Dispatch
      <4>4. gathered' \in Seq(Nodes)
        BY <4>1, <2>3 DEF Dispatch
      <4>5. open' \in [Workers -> Seq(Nodes)]
        BY <4>1 DEF Dispatch
      <4>6. j' \in [Workers -> Nat]
        BY <4>1
      <4>7. QED BY <4>3, <4>4, <4>5, <4>6
    <3>2. CASE (i[t] + 1) % MaxHosts # 0
      <4>1. open' = [open EXCEPT ![t] = sessions] /\ UNCHANGED <<partMib, gathered, j>>
        BY <1>10, <3>2 DEF OpenSession, sessions
      <4>2. QED BY <4>1, <2>3
    <3>3. QED BY <3>1, <3>2
  <2>5. /\ i' \in [Workers -> Nat]
        /\ UNCHANGED <<control, tasks, results, partNodes, tpc, task, killed, unopened, died, faults>>
    BY <1>10 DEF OpenSession
  <2>6. QED BY <2>4, <2>5
<1>11. ASSUME NEW t \in Workers, Finish(t) PROVE TypeInv'
  <2>1. task[t] \in Parts
    BY <1>11 DEF Finish, Goes, At
  <2>2. /\ partMib' \in [Parts -> Seq(Nodes)] /\ gathered' \in Seq(Nodes)
        /\ open' \in [Workers -> Seq(Nodes)]
    <3>1. CASE SessionsLeft(t)
      <4>1. Dispatch(t, open[t])
        BY <1>11, <3>1 DEF Finish
      <4>2. open[t] \in Seq(Nodes) /\ partMib[task[t]] \in Seq(Nodes)
        BY <2>1
      <4>3. QED BY <4>1, <4>2, <2>1 DEF Dispatch
    <3>2. CASE ~SessionsLeft(t)
      BY <1>11, <3>2 DEF Finish
    <3>3. QED BY <3>1, <3>2
  <2>3. QED BY <1>11, <2>1, <2>2 DEF Finish, Goes, At
<1>12. CASE KillAndRestart
  <2>1. \A S : <<>> \in Seq(S)
    OBVIOUS
  <2>2. faults' \in 0..MaxFaults
    BY <1>12 DEF KillAndRestart, Fault
  <2>3. QED BY <1>12, <2>1, <2>2 DEF KillAndRestart
<1>13. ASSUME NEW t \in Workers, CollectorDies(t) PROVE TypeInv'
  <2>1. task[t] \in Parts /\ <<>> \in Seq(Nodes)
    BY <1>13 DEF CollectorDies, Goes, At
  <2>2. partMib' \in [Parts -> Seq(Nodes)] /\ died' \subseteq Parts
    BY <1>13, <2>1 DEF CollectorDies
  <2>3. faults' \in 0..MaxFaults
    BY <1>13 DEF CollectorDies, Fault
  <2>4. QED BY <1>13, <2>1, <2>2, <2>3 DEF CollectorDies, Goes, At
<1>14. ASSUME NEW t \in Workers, SessionFails(t) PROVE TypeInv'
  <2>1. faults' \in 0..MaxFaults
    BY <1>14 DEF SessionFails, Fault
  <2>2. i' \in [Workers -> Nat] /\ unopened' \subseteq Parts
    BY <1>14 DEF SessionFails, At
  <2>3. QED BY <1>14, <2>1, <2>2 DEF SessionFails
<1>15. CASE UNCHANGED vars
  BY <1>15 DEF vars
<1>16. QED
  BY <1>1, <1>2, <1>3, <1>4, <1>5, <1>6, <1>7, <1>8, <1>9, <1>10, <1>11, <1>12, <1>13,
     <1>14, <1>15 DEF Next, Main, Thread, Failure, Ended

(* The control, its threads and the collectors stay in their types.        *)
THEOREM TypeCorrect == Spec => []TypeOK
<1>1. TypeInv => TypeOK
  BY DEF TypeInv
<1>2. QED BY <1>1, InitType, NextType, PTL DEF Spec

-----------------------------------------------------------------------------
(* Each part is in the queue once, or with one thread, or done.            *)
QueuedOnce == \A k, l \in DOMAIN tasks : tasks[k] # Undef /\ tasks[k] = tasks[l] => k = l
QueuedIsFree == \A k \in DOMAIN tasks, t \in Workers : Working(t) => tasks[k] # task[t]
NotStarted == cpc = "list" => \A t \in Workers : tpc[t] = "none"

Apart == TypeInv /\ QueuedOnce /\ QueuedIsFree /\ PartsAreApart /\ NotStarted

LEMMA NextApart == Apart /\ [Next]_vars => Apart'
<1> SUFFICES ASSUME Apart, [Next]_vars PROVE Apart'
  OBVIOUS
<1>0. TypeInv'
  BY NextType DEF Apart
<1> USE DEF Apart, QueuedOnce, QueuedIsFree, PartsAreApart, NotStarted, Working
<1>1. CASE ListNode \/ TakeResult \/ Join
  BY <1>0, <1>1 DEF ListNode, TakeResult, Join
<1>2. CASE StartThreads
  <2>1. /\ DOMAIN tasks' = 1..(2 * NumThreads)
        /\ \A k \in DOMAIN tasks' : tasks'[k] = IF k \in Parts THEN k ELSE Undef
    BY <1>2 DEF StartThreads, TaskList
  <2>2. tpc' = [t \in Workers |-> "get"] /\ cpc' = "main"
    BY <1>2 DEF StartThreads
  <2>3. QED BY <1>0, <2>1, <2>2, Zenon
<1>3. ASSUME NEW t \in Workers, GetTask(t) PROVE Apart'
  <2>0. tpc \in [Workers -> Steps]
    BY DEF TypeInv, TypeOK, Steps
  <2>1. tasks \in Seq(Parts \cup {Undef}) /\ tasks # <<>> /\ tasks' = Tail(tasks)
        /\ task \in [Workers -> Parts \cup {Undef}]
    BY <1>3 DEF GetTask, TypeInv, TypeOK
  <2>2. /\ Head(tasks) = tasks[1] /\ 1 \in DOMAIN tasks
        /\ \A k \in DOMAIN tasks' : k \in Nat \ {0} /\ k + 1 \in DOMAIN tasks /\ tasks'[k] = tasks[k + 1]
    BY <2>1
  <2>3. /\ tpc' = [tpc EXCEPT ![t] = IF tasks[1] = Undef THEN "end" ELSE "start"]
        /\ task' = [task EXCEPT ![t] = tasks[1]] /\ tpc[t] = "get" /\ cpc' = cpc
    <3>1. /\ tpc' = [tpc EXCEPT ![t] = IF Head(tasks) = Undef THEN "end" ELSE "start"]
          /\ task' = [task EXCEPT ![t] = Head(tasks)] /\ tpc[t] = "get" /\ cpc' = cpc
      BY <1>3, Zenon DEF GetTask, Goes, At, control
    <3>2. QED BY <3>1, <2>2, Zenon
  <2>4. QueuedOnce'
    BY <2>2
  <2>5. QueuedIsFree' /\ PartsAreApart'
    <3>1. ASSUME NEW u \in Workers, Working(u)' 
          PROVE  IF u = t THEN task'[u] = tasks[1] /\ tasks[1] # Undef
                          ELSE task'[u] = task[u] /\ Working(u)
      BY <3>1, <2>0, <2>1, <2>3
    <3>2. \A k \in DOMAIN tasks' : tasks[1] # Undef => tasks'[k] # tasks[1]
      BY <2>2
    <3>3. QED BY <3>1, <3>2, <2>2
  <2>6. NotStarted'
    BY <2>0, <2>1, <2>3
  <2>7. QED BY <1>0, <2>4, <2>5, <2>6
<1>4. ASSUME NEW t \in Workers,
             Unlink(t) \/ PutResult(t) \/ PutUndef(t) \/ OpenFiles(t) \/ OpenSession(t)
                \/ Finish(t) \/ CollectorDies(t) \/ SessionFails(t)
      PROVE  Apart'
  <2>1. UNCHANGED <<cpc, tasks, task>>
    BY <1>4 DEF Unlink, PutResult, PutUndef, OpenFiles, OpenSession, Finish, CollectorDies,
                SessionFails, control
  <2>0. tpc \in [Workers -> Steps]
    BY DEF TypeInv, TypeOK, Steps
  <2>2. /\ \A u \in Workers : Working(u)' => Working(u)
        /\ \A u \in Workers : tpc[u] # "none" => tpc'[u] # "none"
        /\ tpc[t] # "none"
    BY <1>4, <2>0 DEF Unlink, PutResult, PutUndef, OpenFiles, OpenSession, Finish,
                      CollectorDies, SessionFails, Goes, At
  <2>3. QED BY <1>0, <2>1, <2>2
<1>5. CASE KillAndRestart
  <2>1. tasks' = <<>> /\ DOMAIN <<>> = {} /\ tpc' = [t \in Workers |-> "none"]
    BY <1>5 DEF KillAndRestart
  <2>2. QueuedOnce' /\ QueuedIsFree'
    BY <2>1
  <2>3. PartsAreApart' /\ NotStarted'
    BY <2>1
  <2>4. QED BY <1>0, <2>2, <2>3
<1>6. CASE UNCHANGED vars
  BY <1>0, <1>6 DEF vars, control
<1>7. QED
  BY <1>1, <1>2, <1>3, <1>4, <1>5, <1>6 DEF Next, Main, Thread, Failure, Ended

(* However the threads take their turns at the queue and the control is    *)
(* killed and started again, two collectors never write the same part.     *)
THEOREM PartsStayApart == Spec => []PartsAreApart
<1>1. Init => Apart
  BY InitType DEF Init, Apart, QueuedOnce, QueuedIsFree, PartsAreApart, NotStarted, Working
<1>2. Apart => PartsAreApart
  BY DEF Apart
<1>3. QED BY <1>1, <1>2, NextApart, PTL DEF Spec

-----------------------------------------------------------------------------
(* $j is a multiple of the sessions of one dispatch and lags behind $i by  *)
(* at least the sessions that are open.                                    *)
Multiple(n) == n % MaxHosts = 0

Counted(t) == /\ j[t] <= i[t] /\ Multiple(j[t])
              /\ Len(open[t]) <= i[t] - j[t]
              /\ i[t] <= Len(MyNodes(t))
              /\ task[t] \notin unopened => i[t] - j[t] < MaxHosts

Own(t) == IF tpc[t] = "collect" THEN Counted(t) ELSE open[t] = <<>>

Exchange == Apart /\ \A t \in Workers : Own(t)

(* The next multiple is at least M further.                                *)
LEMMA NextMultiple ==
    ASSUME NEW M \in Nat \ {0}, NEW a \in Nat, NEW b \in Nat, a % M = 0, b % M = 0, a < b
    PROVE  a + M <= b /\ (a + M) % M = 0
<1>1. PICK c \in Nat : a = M * c
  BY Z3
<1>2. PICK d \in Nat : b = M * d
  BY Z3
<1>3. c < d
  BY <1>1, <1>2, Z3
<1>4. QED BY <1>1, <1>2, <1>3, Z3

LEMMA MultiplePlus ==
    ASSUME NEW M \in Nat \ {0}, NEW a \in Nat, a % M = 0
    PROVE  (a + M) % M = 0
<1>1. PICK c \in Nat : a = M * c
  BY Z3
<1>2. QED BY <1>1, Z3

(* What a thread and its collector do not see.                             *)
LEMMA OwnKept ==
    ASSUME NEW u \in Workers, Own(u),
           UNCHANGED <<tpc[u], task[u], i[u], j[u], open[u]>>,
           tpc[u] = "collect" => UNCHANGED partNodes[task[u]],
           unopened \subseteq unopened'
    PROVE  Own(u)'
BY DEF Own, Counted, MyNodes

LEMMA NextExchange == Exchange /\ [Next]_vars => Exchange'
<1> SUFFICES ASSUME Exchange, [Next]_vars PROVE Exchange'
  OBVIOUS
<1>0. /\ TypeInv /\ Apart /\ Apart' /\ \A t \in Workers : Own(t)
      /\ MaxHosts \in Nat \ {0}
  BY NextApart, SnmpAssumption DEF Exchange, Apart
<1>1. CASE ListNode \/ StartThreads
  <2>1. /\ UNCHANGED <<task, i, j, open>> /\ cpc = "list"
        /\ tpc' \in {tpc, [t \in Workers |-> "get"]}
    BY <1>1 DEF ListNode, StartThreads, collector
  <2>2. \A t \in Workers : Own(t)'
    BY <1>0, <2>1 DEF Own, Apart, NotStarted
  <2>3. QED BY <1>0, <2>2 DEF Exchange
<1>2. CASE TakeResult \/ Join \/ UNCHANGED vars
  <2>1. UNCHANGED <<tpc, task, i, j, open, partNodes, unopened>>
    BY <1>2 DEF TakeResult, Join, vars, collector, history
  <2>2. QED BY <1>0, <2>1, OwnKept DEF Exchange
<1>3. CASE KillAndRestart
  <2>1. \A t \in Workers : Own(t)'
    BY <1>3 DEF KillAndRestart, Own
  <2>2. QED BY <1>0, <2>1 DEF Exchange
<1>4. ASSUME NEW t \in Workers, Thread(t) \/ CollectorDies(t) \/ SessionFails(t)
      PROVE  Exchange'
  <2>0. /\ tpc \in [Workers -> Steps] /\ task \in [Workers -> Parts \cup {Undef}]
        /\ i \in [Workers -> Nat] /\ j \in [Workers -> Nat] /\ open \in [Workers -> Seq(Nodes)]
        /\ partNodes \in [Parts -> Seq(Nodes)]
        /\ \A u \in Workers : tpc[u] = "collect" => task[u] \in Parts
    BY <1>0 DEF TypeInv, TypeOK, HasTask, Steps
  <2>1. \A u \in Workers \ {t} : Own(u)'
    <3>1. /\ \A u \in Workers \ {t} : UNCHANGED <<tpc[u], task[u], i[u], j[u], open[u]>>
          /\ unopened \subseteq unopened'
      BY <1>4, <2>0 DEF Thread, GetTask, Unlink, PutResult, PutUndef, OpenFiles, OpenSession,
            Finish, Dispatch, CollectorDies, SessionFails, Goes, At, collector, history
    <3>2. partNodes' = partNodes \/ (Working(t) /\ partNodes' = [partNodes EXCEPT ![task[t]] = <<>>])
      BY <1>4 DEF Thread, GetTask, Unlink, PutResult, PutUndef, OpenFiles, OpenSession,
            Finish, CollectorDies, SessionFails, Goes, At, Working
    <3>3. \A u \in Workers \ {t} : tpc[u] = "collect" => UNCHANGED partNodes[task[u]]
      BY <3>1, <3>2, <2>0, <1>0 DEF Apart, PartsAreApart, Working
    <3>4. QED BY <3>1, <3>3, <1>0, OwnKept
  <2>2. Own(t)'
    <3>1. CASE GetTask(t) \/ Unlink(t) \/ PutResult(t) \/ PutUndef(t) \/ CollectorDies(t)
      <4>1. tpc[t] # "collect" /\ tpc'[t] # "collect" /\ open' = open
        BY <3>1, <2>0 DEF GetTask, Unlink, PutResult, PutUndef, CollectorDies, Goes, At, collector
      <4>2. QED BY <4>1, <1>0 DEF Own
    <3>2. CASE OpenFiles(t)
      <4>1. /\ tpc'[t] = "collect" /\ i'[t] = 0 /\ j'[t] = 0 /\ open'[t] = <<>>
            /\ partNodes' = partNodes /\ task' = task /\ task[t] \in Parts
        BY <3>2, <2>0, <1>0 DEF OpenFiles, Goes, At, TypeInv, HasTask
      <4>2. Len(partNodes[task[t]]) \in Nat
        BY <4>1, <2>0
      <4>3. Multiple(0) /\ 0 < MaxHosts /\ Len(<<>>) = 0
        BY <1>0 DEF Multiple
      <4>4. QED BY <4>1, <4>2, <4>3 DEF Own, Counted, MyNodes
    <3>3. CASE OpenSession(t)
      <4>1. /\ tpc[t] = "collect" /\ tpc' = tpc /\ i'[t] = i[t] + 1 /\ i[t] < Len(MyNodes(t))
            /\ UNCHANGED <<partNodes, task, unopened>> /\ task[t] \in Parts
        BY <3>3, <2>0 DEF OpenSession, At
      <4>2. Counted(t) /\ i[t] \in Nat /\ j[t] \in Nat /\ Len(open[t]) \in Nat
            /\ Len(MyNodes(t)) \in Nat /\ MyNodes(t)' = MyNodes(t)
        BY <4>1, <1>0, <2>0 DEF Own, MyNodes
      <4>3. CASE (i[t] + 1) % MaxHosts = 0
        <5>1. open'[t] = <<>> /\ j'[t] = j[t] + MaxHosts
          BY <3>3, <4>3, <2>0 DEF OpenSession, Dispatch
        <5>2. j[t] + MaxHosts <= i[t] + 1 /\ Multiple(j[t] + MaxHosts)
          <6>1. /\ i[t] + 1 \in Nat /\ j[t] < i[t] + 1 /\ j[t] % MaxHosts = 0
            BY <4>2 DEF Counted, Multiple
          <6>2. j[t] + MaxHosts <= i[t] + 1 /\ (j[t] + MaxHosts) % MaxHosts = 0
            <7> DEFINE b == i[t] + 1
            <7>1. b \in Nat /\ b % MaxHosts = 0 /\ j[t] < b
              BY <6>1, <4>3
            <7> HIDE DEF b
            <7>2. j[t] + MaxHosts <= b /\ (j[t] + MaxHosts) % MaxHosts = 0
              BY <7>1, <6>1, <4>2, <1>0, NextMultiple
            <7>3. QED BY <7>2 DEF b
          <6>3. QED BY <6>2 DEF Multiple
        <5>3. Counted(t)'
          BY <4>1, <4>2, <5>1, <5>2, <1>0 DEF Counted
        <5>4. QED BY <4>1, <5>3 DEF Own
      <4>4. CASE (i[t] + 1) % MaxHosts # 0
        <5>1. j' = j /\ Len(open'[t]) = Len(open[t]) + 1
          <6>1. j' = j /\ open' = [open EXCEPT ![t] = Append(open[t], MyNodes(t)[i[t] + 1])]
            BY <3>3, <4>4 DEF OpenSession
          <6>2. MyNodes(t)[i[t] + 1] \in Nodes
            BY <4>1, <4>2, <2>0 DEF MyNodes
          <6>3. open'[t] = Append(open[t], MyNodes(t)[i[t] + 1])
            BY <6>1, <2>0
          <6>4. open[t] \in Seq(Nodes)
            BY <2>0
          <6>5. Len(open'[t]) = Len(open[t]) + 1
            BY <6>2, <6>3, <6>4
          <6>6. QED BY <6>1, <6>5
        <5>2. i[t] + 1 # j[t] + MaxHosts
          <6>1. (j[t] + MaxHosts) % MaxHosts = 0
            BY <4>2, <1>0, MultiplePlus DEF Counted, Multiple
          <6>2. QED BY <6>1, <4>4
        <5>3. Counted(t)'
          <6>1. /\ j[t] <= i'[t] /\ Multiple(j[t]) /\ Len(open'[t]) <= i'[t] - j[t]
                /\ i'[t] <= Len(MyNodes(t))
            BY <4>1, <4>2, <5>1 DEF Counted
          <6>2. task[t] \notin unopened => i'[t] - j[t] < MaxHosts
            BY <4>1, <4>2, <5>2, <1>0 DEF Counted
          <6>3. QED BY <4>1, <4>2, <5>1, <6>1, <6>2 DEF Counted, Multiple
        <5>4. QED BY <4>1, <5>3 DEF Own
      <4>5. QED BY <4>3, <4>4
    <3>4. CASE SessionFails(t)
      <4>1. /\ tpc[t] = "collect" /\ tpc' = tpc /\ i'[t] = i[t] + 1 /\ i[t] < Len(MyNodes(t))
            /\ UNCHANGED <<partNodes, task, j, open>> /\ task[t] \in unopened'
        BY <3>4, <2>0 DEF SessionFails, At
      <4>2. Counted(t) /\ i[t] \in Nat /\ j[t] \in Nat /\ Len(open[t]) \in Nat
            /\ MyNodes(t)' = MyNodes(t) /\ Len(MyNodes(t)) \in Nat
        BY <4>1, <1>0, <2>0 DEF Own, MyNodes
      <4>3. Counted(t)'
        BY <4>1, <4>2 DEF Counted
      <4>4. QED BY <4>1, <4>3 DEF Own
    <3>5. CASE Finish(t)
      <4>1. tpc[t] = "collect" /\ tpc'[t] = "unlink" /\ i[t] = Len(MyNodes(t))
        BY <3>5, <2>0 DEF Finish, Goes, At
      <4>2. CASE SessionsLeft(t)
        BY <3>5, <4>1, <4>2, <2>0 DEF Finish, Dispatch, Own
      <4>3. CASE ~SessionsLeft(t)
        <5>1. Counted(t) /\ open' = open
          BY <3>5, <4>1, <4>3, <1>0 DEF Finish, Own
        <5>2. i[t] \in Nat /\ j[t] \in Nat /\ Len(open[t]) \in Nat /\ ~(j[t] < i[t])
          BY <4>1, <4>3, <2>0 DEF SessionsLeft
        <5>3. Len(open[t]) = 0
          BY <5>1, <5>2 DEF Counted
        <5>4. open[t] = <<>>
          BY <5>3, <2>0
        <5>5. QED BY <5>1, <5>4, <4>1 DEF Own
      <4>4. QED BY <4>2, <4>3
    <3>6. QED BY <1>4, <3>1, <3>2, <3>3, <3>4, <3>5 DEF Thread
  <2>3. QED BY <1>0, <2>1, <2>2 DEF Exchange
<1>5. QED
  BY <1>1, <1>2, <1>3, <1>4 DEF Next, Main, Failure, Ended

(* No session is left without its exchange, whichever sessions of a part   *)
(* fail and whatever MaxHosts is; and fewer than MaxHosts are open between *)
(* two dispatches while none has failed.                                   *)
THEOREM NoSessionForgotten == Spec => []SessionsAreExchanged
<1>1. Init => Exchange
  <2>1. Init => Apart
    BY InitType DEF Init, Apart, QueuedOnce, QueuedIsFree, PartsAreApart, NotStarted, Working
  <2>2. Init => \A t \in Workers : Own(t)
    BY DEF Init, Own
  <2>3. QED BY <2>1, <2>2 DEF Exchange
<1>2. Exchange => SessionsAreExchanged
  <2> SUFFICES ASSUME Exchange, NEW t \in Workers
               PROVE  /\ tpc[t] \in {"unlink", "result", "undef"} => open[t] = <<>>
                      /\ task[t] \notin unopened => Len(open[t]) < MaxHosts
    BY DEF SessionsAreExchanged
  <2>1. Own(t) /\ MaxHosts \in Nat \ {0} /\ i[t] \in Nat /\ j[t] \in Nat
        /\ open[t] \in Seq(Nodes)
    BY SnmpAssumption DEF Exchange, Apart, TypeInv, TypeOK
  <2>2. CASE tpc[t] = "collect"
    BY <2>1, <2>2 DEF Own, Counted
  <2>3. CASE tpc[t] # "collect"
    BY <2>1, <2>3 DEF Own
  <2>4. QED BY <2>2, <2>3
<1>3. QED BY <1>1, <1>2, NextExchange, PTL DEF Spec

-----------------------------------------------------------------------------
(* How often an element is in a sequence.                                  *)
LEMMA CountType == ASSUME NEW S, NEW s \in Seq(S), NEW n
                   PROVE  /\ IsFiniteSet({k \in DOMAIN s : s[k] = n}) /\ Count(s, n) \in Nat
                          /\ Count(s, n) >= 1 <=> \E k \in DOMAIN s : s[k] = n
<1> DEFINE P == {k \in DOMAIN s : s[k] = n}
<1>1. IsFiniteSet(1..Len(s)) /\ P \in SUBSET (1..Len(s))
  BY FS_Interval
<1>2. IsFiniteSet(P)
  BY <1>1, FS_Subset
<1>3. Cardinality(P) \in Nat /\ (Cardinality(P) = 0 <=> P = {})
  BY <1>2, FS_CardinalityType, FS_EmptySet
<1>4. Count(s, n) = Cardinality(P)
  BY DEF Count
<1>5. P = {} <=> ~\E k \in DOMAIN s : s[k] = n
  OBVIOUS
<1> HIDE DEF P
<1>6. QED BY <1>2, <1>3, <1>4, <1>5 DEF P

LEMMA CountCat == ASSUME NEW S, NEW s \in Seq(S), NEW r \in Seq(S), NEW n
                  PROVE  Count(s \o r, n) = Count(s, n) + Count(r, n)
<1> DEFINE A == {k \in DOMAIN s : s[k] = n}
           B == {k \in DOMAIN r : r[k] = n}
           C == {k \in DOMAIN (s \o r) : (s \o r)[k] = n}
           D == {k \in C : k > Len(s)}
           shift == [k \in B |-> Len(s) + k]
<1>1. /\ s \o r \in Seq(S) /\ Len(s \o r) = Len(s) + Len(r) /\ Len(s) \in Nat /\ Len(r) \in Nat
      /\ DOMAIN (s \o r) = 1..(Len(s) + Len(r)) /\ DOMAIN s = 1..Len(s) /\ DOMAIN r = 1..Len(r)
      /\ \A k \in 1..Len(s) : (s \o r)[k] = s[k]
      /\ \A k \in 1..Len(r) : (s \o r)[Len(s) + k] = r[k]
  OBVIOUS
<1>2. IsFiniteSet(A) /\ IsFiniteSet(B) /\ IsFiniteSet(C)
  BY <1>1, CountType
<1>3. shift \in Bijection(B, D)
  <2>1. \A k \in B : shift[k] \in D
    BY <1>1
  <2>2. \A k, l \in B : shift[k] = shift[l] => k = l
    BY <1>1
  <2>3. \A d \in D : \E k \in B : shift[k] = d
    <3>1. SUFFICES ASSUME NEW d \in D PROVE \E k \in B : shift[k] = d
      OBVIOUS
    <3>2. d \in Nat /\ d > Len(s) /\ d <= Len(s) + Len(r) /\ (s \o r)[d] = n
      BY <1>1
    <3>3. d - Len(s) \in 1..Len(r) /\ Len(s) + (d - Len(s)) = d
      BY <1>1, <3>2
    <3>4. r[d - Len(s)] = n
      BY <1>1, <3>2, <3>3
    <3>5. d - Len(s) \in B
      BY <1>1, <3>3, <3>4
    <3>6. QED BY <3>3, <3>5
  <2>4. QED BY <2>1, <2>2, <2>3, Fun_IsBij
<1>4. ExistsBijection(B, D)
  BY <1>3, Fun_ExistsBij
<1>5. IsFiniteSet(D) /\ Cardinality(D) = Cardinality(B)
  BY <1>2, <1>4, FS_Bijection
<1>6. C = A \cup D /\ A \cap D = {}
  <2>1. \A k \in C : k \in A \/ k \in D
    BY <1>1
  <2>2. A \subseteq C
    BY <1>1
  <2>3. A \cap D = {}
    BY <1>1
  <2>4. QED BY <2>1, <2>2, <2>3
<1>7. Count(s \o r, n) = Cardinality(C) /\ Count(s, n) = Cardinality(A) /\ Count(r, n) = Cardinality(B)
  BY DEF Count
<1> HIDE DEF A, B, C, D, shift
<1>8. Cardinality(A) \in Nat /\ Cardinality(D) \in Nat /\ Cardinality({}) = 0
  BY <1>2, <1>5, FS_CardinalityType, FS_EmptySet
<1>9. Cardinality(C) = Cardinality(A) + Cardinality(D) - Cardinality(A \cap D)
  BY <1>2, <1>5, <1>6, FS_Union
<1>10. Cardinality(A \cap D) = 0 /\ Cardinality(D) = Cardinality(B)
  BY <1>5, <1>6, <1>8, Zenon
<1>11. QED BY <1>7, <1>8, <1>9, <1>10

LEMMA CountOne == ASSUME NEW e, NEW n
                  PROVE  Count(<<e>>, n) = IF e = n THEN 1 ELSE 0
<1>1. DOMAIN <<e>> = {1} /\ <<e>>[1] = e
  OBVIOUS
<1>2. CASE e = n
  <2>1. {k \in DOMAIN <<e>> : <<e>>[k] = n} = {1}
    BY <1>1, <1>2
  <2>2. QED BY <1>2, <2>1, FS_Singleton DEF Count
<1>3. CASE e # n
  <2>1. {k \in DOMAIN <<e>> : <<e>>[k] = n} = {}
    BY <1>1, <1>3
  <2>2. QED BY <1>3, <2>1, FS_EmptySet DEF Count
<1>4. QED BY <1>2, <1>3

LEMMA CountEmpty == ASSUME NEW n PROVE Count(<<>>, n) = 0
<1>1. {k \in DOMAIN <<>> : <<>>[k] = n} = {}
  OBVIOUS
<1>2. QED BY <1>1, FS_EmptySet DEF Count

LEMMA CountAppend == ASSUME NEW S, NEW s \in Seq(S), NEW e \in S, NEW n
                     PROVE  Count(Append(s, e), n) = Count(s, n) + (IF e = n THEN 1 ELSE 0)
<1>1. Append(s, e) = s \o <<e>> /\ <<e>> \in Seq(S)
  OBVIOUS
<1>2. Count(s \o <<e>>, n) = Count(s, n) + Count(<<e>>, n)
  BY <1>1, CountCat
<1>3. QED BY <1>1, <1>2, CountOne

LEMMA CountTail == ASSUME NEW S, NEW s \in Seq(S), s # <<>>, NEW n
                   PROVE  Count(s, n) = (IF Head(s) = n THEN 1 ELSE 0) + Count(Tail(s), n)
<1>1. s = <<Head(s)>> \o Tail(s) /\ <<Head(s)>> \in Seq(S) /\ Tail(s) \in Seq(S)
  OBVIOUS
<1>2. Count(<<Head(s)>> \o Tail(s), n) = Count(<<Head(s)>>, n) + Count(Tail(s), n)
  BY <1>1, CountCat
<1>3. QED BY <1>1, <1>2, CountOne

-----------------------------------------------------------------------------
(* Where a part is: not begun, with a collector, with a thread that is not *)
(* yet through with it, or in the queue of the results.                    *)
Pending == {p \in Parts : \/ cpc = "list"
                          \/ \E k \in DOMAIN tasks : tasks[k] = p
                          \/ \E t \in Workers : tpc[t] = "start" /\ task[t] = p}
Busy    == {p \in Parts : \E t \in Workers : tpc[t] = "collect" /\ task[t] = p}
Closing == {p \in Parts : \E t \in Workers : tpc[t] \in {"unlink", "result"} /\ task[t] = p}
Sent    == {p \in Parts : \E k \in DOMAIN results : results[k] = p}
Held    == Pending \cup Busy \cup Closing

(* A result is sent once, and by a thread that is through with the part.   *)
SentOnce == /\ \A k, l \in DOMAIN results : results[k] # Undef /\ results[k] = results[l] => k = l
            /\ Sent \cap Held = {}
            /\ cpc = "list" => results = <<>>

Flow == Apart /\ SentOnce

LEMMA Disjoint == ASSUME Apart
                  PROVE  /\ Pending \cap Busy = {} /\ Pending \cap Closing = {}
                         /\ Busy \cap Closing = {}
                         /\ Undef \notin Parts
<1>1. Undef \notin Parts
  BY DEF Undef, Parts
<1>2. Busy \cap Closing = {}
  BY DEF Busy, Closing, Apart, PartsAreApart, Working
<1>3. \A t \in Workers : Working(t) => cpc # "list"
  BY DEF Apart, NotStarted, Working
<1>4. ASSUME NEW t \in Workers, Working(t), tpc[t] # "start" PROVE task[t] \notin Pending
  BY <1>3, <1>4 DEF Pending, Apart, PartsAreApart, QueuedIsFree, Working
<1>5. \A p \in Busy \cup Closing : p \notin Pending
  BY <1>4 DEF Busy, Closing, Working
<1>6. QED BY <1>1, <1>2, <1>5

Same == Pending' = Pending /\ Busy' = Busy /\ Closing' = Closing /\ Sent' = Sent

(* The places of the parts before and after each step.                     *)
LEMMA SamePlaces == ASSUME (cpc' = "list") <=> (cpc = "list"), UNCHANGED <<tasks, results, tpc, task>>
                    PROVE  Same
BY DEF Same, Pending, Busy, Closing, Sent

LEMMA ListPlaces == ASSUME Flow, cpc = "list"
                    PROVE  Pending = Parts /\ Busy = {} /\ Closing = {} /\ Sent = {}
BY DEF Flow, Apart, NotStarted, SentOnce, Pending, Busy, Closing, Sent

LEMMA StartPlaces == ASSUME Flow, StartThreads PROVE Same
<1>1. cpc = "list" /\ tpc' = [t \in Workers |-> "get"] /\ tasks' = TaskList /\ results' = results
  BY DEF StartThreads
<1>2. Pending = Parts /\ Busy = {} /\ Closing = {} /\ Sent = {}
  BY <1>1, ListPlaces
<1>3. \A p \in Parts : p \in DOMAIN TaskList /\ TaskList[p] = p
  BY NumThreadsNat DEF TaskList, Parts
<1>4. Pending' = Parts
  BY <1>1, <1>3 DEF Pending
<1>5. Busy' = {} /\ Closing' = {} /\ Sent' = Sent
  BY <1>1 DEF Busy, Closing, Sent
<1>6. QED BY <1>2, <1>4, <1>5 DEF Same

LEMMA GetPlaces == ASSUME Flow, NEW t \in Workers, GetTask(t) PROVE Same
<1>1. /\ tasks \in Seq(Parts \cup {Undef}) /\ tasks # <<>> /\ tasks' = Tail(tasks)
      /\ task \in [Workers -> Parts \cup {Undef}] /\ tpc \in [Workers -> Steps]
      /\ results' = results /\ cpc' = cpc
  BY DEF GetTask, Flow, Apart, TypeInv, TypeOK, Steps, control
<1>2. /\ Head(tasks) = tasks[1] /\ 1 \in DOMAIN tasks
      /\ \A k \in DOMAIN tasks' : k + 1 \in DOMAIN tasks /\ tasks'[k] = tasks[k + 1]
      /\ \A k \in DOMAIN tasks : k = 1 \/ (k - 1 \in DOMAIN tasks' /\ tasks'[k - 1] = tasks[k])
  BY <1>1
<1>3. /\ tpc' = [tpc EXCEPT ![t] = IF tasks[1] = Undef THEN "end" ELSE "start"]
      /\ task' = [task EXCEPT ![t] = tasks[1]] /\ tpc[t] = "get"
  BY <1>2, Zenon DEF GetTask, Goes, At
<1>4. \A u \in Workers : u # t => tpc'[u] = tpc[u] /\ task'[u] = task[u]
  BY <1>1, <1>3
<1>5. Busy' = Busy /\ Closing' = Closing
  BY <1>1, <1>3, <1>4 DEF Busy, Closing
<1>6. ASSUME NEW p \in Parts PROVE p \in Pending' <=> p \in Pending
  <2>1. p # Undef
    BY DEF Parts, Undef
  <2>2. ASSUME NEW k \in DOMAIN tasks, tasks[k] = p PROVE p \in Pending'
    <3>1. CASE k = 1
      BY <1>1, <1>3, <2>1, <2>2, <3>1 DEF Pending
    <3>2. CASE k # 1
      BY <1>2, <2>2, <3>2 DEF Pending
    <3>3. QED BY <3>1, <3>2
  <2>3. ASSUME NEW u \in Workers, tpc[u] = "start", task[u] = p PROVE p \in Pending'
    BY <1>3, <1>4, <2>3 DEF Pending
  <2>4. ASSUME NEW u \in Workers, tpc'[u] = "start", task'[u] = p PROVE p \in Pending
    <3>1. CASE u = t
      BY <1>1, <1>2, <1>3, <2>4, <3>1 DEF Pending
    <3>2. CASE u # t
      BY <1>4, <2>4, <3>2 DEF Pending
    <3>3. QED BY <3>1, <3>2
  <2>5. ASSUME NEW k \in DOMAIN tasks', tasks'[k] = p PROVE p \in Pending
    BY <1>2, <2>5 DEF Pending
  <2>6. QED BY <1>1, <2>2, <2>3, <2>4, <2>5 DEF Pending
<1>7. Pending' = Pending
  BY <1>6 DEF Pending
<1>8. Sent' = Sent
  BY <1>1 DEF Sent
<1>9. QED BY <1>5, <1>7, <1>8 DEF Same

(* A thread goes on with its part.                                         *)
LEMMA StepPlaces ==
    ASSUME Flow, NEW t \in Workers, NEW to \in Steps, tpc' = [tpc EXCEPT ![t] = to],
           UNCHANGED <<cpc, tasks, task>>, Working(t),
           to \in {"collect", "unlink", "result", "undef"}
    PROVE  /\ Pending' = IF tpc[t] = "start" THEN Pending \ {task[t]} ELSE Pending
           /\ Busy' = IF to = "collect" THEN Busy \cup {task[t]} ELSE Busy \ {task[t]}
           /\ Closing' = IF to \in {"unlink", "result"} THEN Closing \cup {task[t]}
                                                       ELSE Closing \ {task[t]}
           /\ task[t] \in Parts
           /\ task[t] \in (IF tpc[t] = "start" THEN Pending ELSE
                           IF tpc[t] = "collect" THEN Busy ELSE Closing)
<1>1. /\ task[t] \in Parts /\ tpc \in [Workers -> Steps] /\ tpc'[t] = to
      /\ \A u \in Workers : u # t => tpc'[u] = tpc[u] /\ (Working(u) => task[u] # task[t])
      /\ cpc # "list"
      /\ \A k \in DOMAIN tasks : tasks[k] # task[t]
  BY DEF Flow, Apart, TypeInv, TypeOK, HasTask, PartsAreApart, QueuedIsFree, NotStarted, Working, Steps
<1>2. Pending' = IF tpc[t] = "start" THEN Pending \ {task[t]} ELSE Pending
  BY <1>1 DEF Pending, Working
<1>3. Busy' = IF to = "collect" THEN Busy \cup {task[t]} ELSE Busy \ {task[t]}
  BY <1>1 DEF Busy, Working
<1>4. Closing' = IF to \in {"unlink", "result"} THEN Closing \cup {task[t]}
                                                ELSE Closing \ {task[t]}
  BY <1>1 DEF Closing, Working
<1>5. task[t] \in (IF tpc[t] = "start" THEN Pending ELSE
                   IF tpc[t] = "collect" THEN Busy ELSE Closing)
  BY <1>1 DEF Pending, Busy, Closing, Working
<1>6. QED BY <1>1, <1>2, <1>3, <1>4, <1>5

(* A thread is through with its part, and with its turn.                   *)
LEMMA PutResultPlaces ==
    ASSUME Flow, NEW t \in Workers, PutResult(t)
    PROVE  /\ task[t] \in Parts /\ task[t] \in Closing
           /\ Pending' = Pending /\ Busy' = Busy /\ Closing' = Closing \ {task[t]}
           /\ Sent' = Sent \cup {task[t]} /\ task[t] \notin Sent
<1>1. /\ tpc[t] = "result" /\ tpc' = [tpc EXCEPT ![t] = "undef"] /\ results' = Append(results, task[t])
      /\ UNCHANGED <<cpc, tasks, task>> /\ Working(t) /\ results \in Seq(Parts \cup {Undef})
  BY DEF PutResult, Goes, At, control, Working, Flow, Apart, TypeInv, TypeOK
<1>2. /\ Pending' = Pending /\ Busy' = Busy \ {task[t]} /\ Closing' = Closing \ {task[t]}
      /\ task[t] \in Parts /\ task[t] \in Closing
  BY <1>1, StepPlaces DEF Steps
<1>3. Busy' = Busy
  BY <1>2, Disjoint DEF Flow
<1>4. task[t] \notin Sent
  BY <1>2 DEF Flow, SentOnce, Held
<1>5. Sent' = Sent \cup {task[t]}
  <2>1. /\ \A k \in DOMAIN results : k \in DOMAIN results' /\ results'[k] = results[k]
        /\ Len(results) + 1 \in DOMAIN results' /\ results'[Len(results) + 1] = task[t]
        /\ \A k \in DOMAIN results' : k \in DOMAIN results \/ k = Len(results) + 1
    BY <1>1, <1>2
  <2>2. \A p \in Parts : p \in Sent' <=> (p \in Sent \/ p = task[t])
    BY <2>1 DEF Sent
  <2>3. QED BY <1>2, <2>2 DEF Sent
<1>6. QED BY <1>2, <1>3, <1>4, <1>5

LEMMA PutUndefPlaces ==
    ASSUME Flow, NEW t \in Workers, PutUndef(t) PROVE Same
<1>1. /\ tpc[t] = "undef" /\ tpc' = [tpc EXCEPT ![t] = "get"] /\ results' = Append(results, Undef)
      /\ UNCHANGED <<cpc, tasks, task>> /\ results \in Seq(Parts \cup {Undef})
      /\ tpc \in [Workers -> Steps]
  BY DEF PutUndef, Goes, At, control, Flow, Apart, TypeInv, TypeOK, Steps
<1>2. Pending' = Pending /\ Busy' = Busy /\ Closing' = Closing
  BY <1>1 DEF Pending, Busy, Closing
<1>3. /\ \A k \in DOMAIN results : k \in DOMAIN results' /\ results'[k] = results[k]
      /\ \A k \in DOMAIN results' : k \in DOMAIN results \/ results'[k] = Undef
  BY <1>1
<1>4. \A p \in Parts : p \in Sent' <=> p \in Sent
  BY <1>3, Disjoint DEF Sent, Flow
<1>5. Sent' = Sent
  BY <1>4 DEF Sent
<1>6. QED BY <1>2, <1>5 DEF Same

LEMMA TakePlaces ==
    ASSUME Flow, TakeResult
    PROVE  /\ Pending' = Pending /\ Busy' = Busy /\ Closing' = Closing
           /\ Sent' = Sent \ {Head(results)}
           /\ Head(results) # Undef => Head(results) \in Sent
<1>1. /\ results' = Tail(results) /\ results \in Seq(Parts \cup {Undef}) /\ results # <<>>
      /\ UNCHANGED <<cpc, tasks, task, tpc>>
  BY DEF TakeResult, Flow, Apart, TypeInv, TypeOK
<1>2. Pending' = Pending /\ Busy' = Busy /\ Closing' = Closing
  BY <1>1 DEF Pending, Busy, Closing
<1>3. /\ Head(results) = results[1] /\ 1 \in DOMAIN results /\ Head(results) \in Parts \cup {Undef}
      /\ \A k \in DOMAIN results' : k + 1 \in DOMAIN results /\ results'[k] = results[k + 1] /\ k + 1 # 1
      /\ \A k \in DOMAIN results : k = 1 \/ (k - 1 \in DOMAIN results' /\ results'[k - 1] = results[k])
  BY <1>1
<1>4. \A p \in Parts : p \in Sent' <=> p \in Sent /\ p # results[1]
  <2>1. \A p \in Parts : p # Undef
    BY Disjoint DEF Flow
  <2>2. \A k \in DOMAIN results : results[k] # Undef /\ results[k] = results[1] => k = 1
    BY <1>3 DEF Flow, SentOnce
  <2>3. QED BY <1>3, <2>1, <2>2 DEF Sent
<1>5. Sent' = Sent \ {results[1]}
  BY <1>4 DEF Sent
<1>6. QED BY <1>2, <1>3, <1>5 DEF Sent

LEMMA KillPlaces == ASSUME KillAndRestart
                    PROVE  Pending' = Parts /\ Busy' = {} /\ Closing' = {} /\ Sent' = {}
BY DEF KillAndRestart, Pending, Busy, Closing, Sent

(* What the collector of a thread does, and the end of it.                 *)
Quiet(t) == \/ OpenFiles(t) \/ CollectorDies(t) \/ OpenSession(t) \/ SessionFails(t)
            \/ Finish(t) \/ Unlink(t)

LEMMA QuietPlaces ==
    ASSUME Flow, NEW t \in Workers, Quiet(t)
    PROVE  /\ UNCHANGED <<cpc, listed, marks, output, tasks, results, task>>
           /\ Held' = Held /\ Sent' = Sent /\ cpc # "list" /\ cpc' # "list"
           /\ tpc[t] \notin {"undef", "end"}
           /\ \A u \in Workers : /\ tpc'[u] = "undef" <=> tpc[u] = "undef"
                                 /\ tpc'[u] = "end" <=> tpc[u] = "end"
<1>1. /\ UNCHANGED <<cpc, listed, marks, output, tasks, results, task>>
      /\ Working(t) /\ tpc \in [Workers -> Steps]
      /\ \/ tpc' = tpc
         \/ \E to \in {"collect", "unlink", "result"} : tpc' = [tpc EXCEPT ![t] = to]
  BY DEF Quiet, OpenFiles, CollectorDies, OpenSession, SessionFails, Finish, Unlink, Goes, At,
         control, collector, history, Working, Flow, Apart, TypeInv, TypeOK, Steps
<1>2. Sent' = Sent
  BY <1>1 DEF Sent
<1>3. cpc # "list"
  BY <1>1 DEF Flow, Apart, NotStarted, Working
<1>4. Held' = Held
  <2>1. CASE tpc' = tpc
    BY <1>1, <2>1, SamePlaces DEF Same, Held
  <2>2. ASSUME NEW to \in {"collect", "unlink", "result"}, tpc' = [tpc EXCEPT ![t] = to]
        PROVE  Held' = Held
    <3>1. /\ Pending' = IF tpc[t] = "start" THEN Pending \ {task[t]} ELSE Pending
          /\ Busy' = IF to = "collect" THEN Busy \cup {task[t]} ELSE Busy \ {task[t]}
          /\ Closing' = IF to \in {"unlink", "result"} THEN Closing \cup {task[t]}
                                                      ELSE Closing \ {task[t]}
          /\ task[t] \in (IF tpc[t] = "start" THEN Pending ELSE
                          IF tpc[t] = "collect" THEN Busy ELSE Closing)
      BY <1>1, <2>2, StepPlaces DEF Steps
    <3>2. QED BY <3>1 DEF Held
  <2>3. QED BY <1>1, <2>1, <2>2
<1>5. tpc[t] \notin {"undef", "end"}
  BY <1>1 DEF Working
<1>6. \A u \in Workers : /\ tpc'[u] = "undef" <=> tpc[u] = "undef"
                         /\ tpc'[u] = "end" <=> tpc[u] = "end"
  BY <1>1, <1>5
<1>7. QED BY <1>1, <1>2, <1>3, <1>4, <1>5, <1>6

LEMMA NextFlow == Flow /\ [Next]_vars => Flow'
<1> SUFFICES ASSUME Flow, [Next]_vars PROVE Flow'
  OBVIOUS
<1>0. Apart' /\ results \in Seq(Parts \cup {Undef})
  BY NextApart DEF Flow, Apart, TypeInv, TypeOK
<1>1. CASE ListNode \/ StartThreads \/ Join \/ (\E t \in Workers : GetTask(t)) \/ UNCHANGED vars
  <2>1. results' = results /\ (cpc' = "list" => cpc = "list") /\ Same
    <3>1. CASE ListNode \/ Join \/ UNCHANGED vars
      BY <3>1, SamePlaces DEF ListNode, Join, vars, control
    <3>2. CASE StartThreads
      BY <3>2, StartPlaces DEF StartThreads
    <3>3. CASE \E t \in Workers : GetTask(t)
      BY <3>3, GetPlaces DEF GetTask, control
    <3>4. QED BY <1>1, <3>1, <3>2, <3>3
  <2>2. QED BY <1>0, <2>1 DEF Flow, SentOnce, Same, Held
<1>2. CASE TakeResult
  <2>1. Sent' \subseteq Sent /\ Held' = Held /\ cpc' # "list"
    BY <1>2, TakePlaces DEF Held, TakeResult
  <2>2. \A k \in DOMAIN results' : k \in Nat /\ k + 1 \in DOMAIN results /\ results'[k] = results[k + 1]
    BY <1>0, <1>2 DEF TakeResult
  <2>3. QED BY <1>0, <2>1, <2>2 DEF Flow, SentOnce
<1>3. ASSUME NEW t \in Workers, Quiet(t) PROVE Flow'
  BY <1>0, <1>3, QuietPlaces DEF Flow, SentOnce
<1>4. ASSUME NEW t \in Workers, PutResult(t) PROVE Flow'
  <2>1. /\ Held' = Held \ {task[t]} /\ Sent' = Sent \cup {task[t]} /\ task[t] \notin Sent
        /\ task[t] \in Parts
    <3>1. task[t] \notin Pending /\ task[t] \notin Busy
      BY <1>4, PutResultPlaces, Disjoint DEF Flow
    <3>2. QED BY <1>4, <3>1, PutResultPlaces DEF Held
  <2>2. results' = Append(results, task[t]) /\ cpc' = cpc /\ cpc # "list"
    BY <1>4 DEF PutResult, Goes, At, control, Flow, Apart, NotStarted
  <2>3. /\ \A k \in DOMAIN results : results'[k] = results[k] /\ results[k] # task[t]
        /\ \A k \in DOMAIN results' : k \in DOMAIN results \/ (k = Len(results) + 1 /\ results'[k] = task[t])
    BY <1>0, <2>1, <2>2 DEF Sent
  <2>4. \A k, l \in DOMAIN results' : results'[k] # Undef /\ results'[k] = results'[l] => k = l
    BY <2>3 DEF Flow, SentOnce
  <2>5. Sent' \cap Held' = {}
    BY <2>1 DEF Flow, SentOnce
  <2>6. QED BY <1>0, <2>2, <2>4, <2>5 DEF Flow, SentOnce
<1>5. ASSUME NEW t \in Workers, PutUndef(t) PROVE Flow'
  <2>1. Held' = Held /\ Sent' = Sent
    BY <1>5, PutUndefPlaces DEF Same, Held
  <2>2. results' = Append(results, Undef) /\ cpc' = cpc /\ cpc # "list"
    BY <1>5 DEF PutUndef, Goes, At, control, Flow, Apart, NotStarted
  <2>3. \A k \in DOMAIN results' : (k \in DOMAIN results /\ results'[k] = results[k]) \/ results'[k] = Undef
    BY <1>0, <2>2
  <2>4. QED BY <1>0, <2>1, <2>2, <2>3 DEF Flow, SentOnce
<1>6. CASE KillAndRestart
  <2>1. results' = <<>> /\ Sent' = {} /\ DOMAIN <<>> = {}
    BY <1>6, KillPlaces DEF KillAndRestart
  <2>2. QED BY <1>0, <2>1 DEF Flow, SentOnce
<1>7. QED
  BY <1>1, <1>2, <1>3, <1>4, <1>5, <1>6 DEF Next, Main, Thread, Failure, Ended, Quiet

(* The undefs: as many as there are results, each after one of them; those *)
(* of the tasks are behind the parts.                                      *)
Unmarked == {t \in Workers : tpc[t] = "undef"}
Marked == marks + Count(results, Undef) + Cardinality(Unmarked) <= Cardinality(Parts \ Held)
UndefFollows == \A k \in DOMAIN results :
                   results[k] # Undef => \/ Unmarked # {}
                                         \/ \E l \in DOMAIN results : l > k /\ results[l] = Undef
PartsFirst == /\ \A k, l \in DOMAIN tasks : k < l /\ tasks[k] = Undef => tasks[l] = Undef
              /\ (\E t \in Workers : tpc[t] = "end") => \A k \in DOMAIN tasks : tasks[k] = Undef
AtTheEnd == cpc = "end" => marks = NumThreads /\ \A t \in Workers : tpc[t] = "end"

Marking == Flow /\ Marked /\ UndefFollows /\ PartsFirst /\ AtTheEnd

LEMMA FinitePlaces == /\ IsFiniteSet(Parts) /\ Cardinality(Parts) = NumThreads
                      /\ IsFiniteSet(Parts \ Held) /\ Cardinality(Parts \ Held) \in Nat
                      /\ IsFiniteSet(Unmarked) /\ Cardinality(Unmarked) \in Nat
<1>1. IsFiniteSet(1..NumThreads) /\ Cardinality(1..NumThreads) = NumThreads
  BY NumThreadsNat, FS_Interval
<1>2. IsFiniteSet(Parts) /\ IsFiniteSet(Workers) /\ Cardinality(Parts) = NumThreads
  BY <1>1 DEF Parts, Workers
<1>3. Unmarked \in SUBSET Workers /\ Parts \ Held \in SUBSET Parts
  BY DEF Unmarked
<1>4. IsFiniteSet(Unmarked) /\ IsFiniteSet(Parts \ Held)
  BY <1>2, <1>3, FS_Subset
<1>5. QED BY <1>2, <1>4, FS_CardinalityType

LEMMA NextMarked == ASSUME Flow, Flow', Marked, [Next]_vars PROVE Marked'
<1>0. /\ marks \in Nat /\ results \in Seq(Parts \cup {Undef}) /\ tpc \in [Workers -> Steps]
      /\ Count(results, Undef) \in Nat /\ Cardinality(Unmarked) \in Nat
      /\ Cardinality(Parts \ Held) \in Nat
  <2>1. marks \in Nat /\ results \in Seq(Parts \cup {Undef}) /\ tpc \in [Workers -> Steps]
    BY DEF Flow, Apart, TypeInv, TypeOK, Steps
  <2>2. QED BY <2>1, CountType, FinitePlaces
<1>1. CASE Held' = Held /\ Unmarked' = Unmarked /\ UNCHANGED <<marks, results>>
  BY <1>1 DEF Marked
<1>2. CASE ListNode \/ StartThreads \/ Join \/ UNCHANGED vars
  <2>1. Held' = Held
    <3>1. CASE ListNode \/ Join \/ UNCHANGED vars
      BY <3>1, SamePlaces DEF ListNode, Join, vars, control, Same, Held
    <3>2. CASE StartThreads
      BY <3>2, StartPlaces DEF Same, Held
    <3>3. QED BY <1>2, <3>1, <3>2
  <2>2. UNCHANGED <<marks, results>>
    BY <1>2 DEF ListNode, StartThreads, Join, vars, control
  <2>3. Unmarked' = Unmarked
    BY <1>2 DEF ListNode, StartThreads, Join, vars, Unmarked, Flow, Apart, NotStarted
  <2>4. QED BY <1>1, <2>1, <2>2, <2>3
<1>3. ASSUME NEW t \in Workers, GetTask(t) PROVE Marked'
  <2>1. Held' = Held
    BY <1>3, GetPlaces DEF Same, Held
  <2>2. UNCHANGED <<marks, results>> /\ tpc[t] = "get" /\ tpc'[t] # "undef"
        /\ \A u \in Workers : u # t => tpc'[u] = tpc[u]
    BY <1>0, <1>3 DEF GetTask, Goes, At, control
  <2>3. Unmarked' = Unmarked
    BY <2>2 DEF Unmarked
  <2>4. QED BY <1>1, <2>1, <2>2, <2>3
<1>4. ASSUME NEW t \in Workers, Quiet(t) PROVE Marked'
  <2>1. Unmarked' = Unmarked
    BY <1>4, QuietPlaces DEF Unmarked
  <2>2. QED BY <1>1, <1>4, <2>1, QuietPlaces
<1>5. CASE TakeResult
  <2>1. Held' = Held /\ Unmarked' = Unmarked
    BY <1>5, TakePlaces DEF Held, TakeResult, Unmarked
  <2>2. /\ results # <<>> /\ results' = Tail(results)
        /\ marks' = IF Head(results) = Undef THEN marks + 1 ELSE marks
    BY <1>5 DEF TakeResult
  <2>3. /\ Count(results, Undef) = (IF Head(results) = Undef THEN 1 ELSE 0) + Count(results', Undef)
        /\ Count(results', Undef) \in Nat
    <3>1. Tail(results) \in Seq(Parts \cup {Undef})
      BY <1>0, <2>2
    <3>2. Count(Tail(results), Undef) \in Nat
      BY <3>1, CountType
    <3>3. Count(results, Undef) = (IF Head(results) = Undef THEN 1 ELSE 0) + Count(Tail(results), Undef)
      BY <1>0, <2>2, CountTail
    <3>4. QED BY <2>2, <3>2, <3>3
  <2>4. Count(results, Undef)' = Count(results', Undef)
    BY DEF Count
  <2>5. QED BY <1>0, <2>1, <2>2, <2>3, <2>4 DEF Marked
<1>6. ASSUME NEW t \in Workers, PutResult(t) PROVE Marked'
  <2>1. /\ task[t] \in Parts /\ task[t] \in Held /\ Held' = Held \ {task[t]}
    BY <1>6, PutResultPlaces, Disjoint DEF Held, Flow
  <2>2. /\ results' = Append(results, task[t]) /\ marks' = marks /\ tpc[t] = "result"
        /\ tpc' = [tpc EXCEPT ![t] = "undef"]
    BY <1>6 DEF PutResult, Goes, At, control
  <2>3. Unmarked' = Unmarked \cup {t} /\ t \notin Unmarked
    BY <1>0, <2>2 DEF Unmarked
  <2>4. Cardinality(Unmarked') = Cardinality(Unmarked) + 1
    BY <2>3, FinitePlaces, FS_AddElement
  <2>5. Parts \ Held' = (Parts \ Held) \cup {task[t]} /\ task[t] \notin Parts \ Held
    BY <2>1
  <2>6. Cardinality(Parts \ Held') = Cardinality(Parts \ Held) + 1
    BY <2>5, FinitePlaces, FS_AddElement
  <2>7. task[t] # Undef
    BY <2>1 DEF Parts, Undef
  <2>8. Count(results', Undef) = Count(results, Undef)
    BY <1>0, <2>1, <2>2, <2>7, CountAppend
  <2>9. Count(results, Undef)' = Count(results', Undef)
    BY DEF Count
  <2>10. QED BY <1>0, <2>2, <2>4, <2>6, <2>8, <2>9 DEF Marked
<1>7. ASSUME NEW t \in Workers, PutUndef(t) PROVE Marked'
  <2>1. Held' = Held
    BY <1>7, PutUndefPlaces DEF Same, Held
  <2>2. /\ results' = Append(results, Undef) /\ marks' = marks /\ tpc[t] = "undef"
        /\ tpc' = [tpc EXCEPT ![t] = "get"]
    BY <1>7 DEF PutUndef, Goes, At, control
  <2>3. Unmarked' = Unmarked \ {t} /\ t \in Unmarked
    BY <1>0, <2>2 DEF Unmarked
  <2>4. Cardinality(Unmarked') = Cardinality(Unmarked) - 1
    BY <2>3, FinitePlaces, FS_RemoveElement
  <2>5. Count(results', Undef) = Count(results, Undef) + 1
    BY <1>0, <2>2, CountAppend
  <2>6. Count(results, Undef)' = Count(results', Undef)
    BY DEF Count
  <2>7. QED BY <1>0, <2>1, <2>2, <2>4, <2>5, <2>6 DEF Marked
<1>8. CASE KillAndRestart
  <2>1. marks' = 0 /\ results' = <<>> /\ Unmarked' = {}
    BY <1>8 DEF KillAndRestart, Unmarked
  <2>2. Count(results, Undef)' = 0
    <3>1. Count(results, Undef)' = Count(<<>>, Undef)
      BY <2>1 DEF Count
    <3>2. QED BY <3>1, CountEmpty
  <2>3. Cardinality(Unmarked)' = 0
    BY <2>1, FS_EmptySet
  <2>4. Cardinality(Parts \ Held)' \in Nat
    BY <1>8, KillPlaces, FS_EmptySet DEF Held
  <2>5. QED BY <2>1, <2>2, <2>3, <2>4 DEF Marked
<1>9. QED
  BY <1>2, <1>3, <1>4, <1>5, <1>6, <1>7, <1>8 DEF Next, Main, Thread, Failure, Ended, Quiet

LEMMA InitFlow == Init => Flow
<1> SUFFICES ASSUME Init PROVE Flow
  OBVIOUS
<1>1. Apart
  BY InitType DEF Init, Apart, QueuedOnce, QueuedIsFree, PartsAreApart, NotStarted, Working
<1>2. results = <<>> /\ DOMAIN <<>> = {}
  BY DEF Init
<1>3. Sent = {}
  BY <1>2 DEF Sent
<1>4. QED BY <1>1, <1>2, <1>3 DEF Flow, SentOnce

LEMMA NextFollows == ASSUME Flow, UndefFollows, [Next]_vars PROVE UndefFollows'
<1>0. results \in Seq(Parts \cup {Undef}) /\ tpc \in [Workers -> Steps]
  BY DEF Flow, Apart, TypeInv, TypeOK, Steps
<1>1. CASE ListNode \/ StartThreads \/ Join \/ UNCHANGED vars
  <2>1. results' = results /\ Unmarked' = Unmarked
    BY <1>1 DEF ListNode, StartThreads, Join, vars, Unmarked, Flow, Apart, NotStarted
  <2>2. QED BY <2>1 DEF UndefFollows
<1>2. ASSUME NEW t \in Workers, GetTask(t) PROVE UndefFollows'
  <2>1. results' = results /\ tpc[t] = "get"
        /\ \A u \in Workers : u # t => tpc'[u] = tpc[u]
    BY <1>0, <1>2 DEF GetTask, Goes, At
  <2>2. Unmarked \subseteq Unmarked'
    BY <2>1 DEF Unmarked
  <2>3. QED BY <2>1, <2>2 DEF UndefFollows
<1>3. ASSUME NEW t \in Workers, Quiet(t) PROVE UndefFollows'
  <2>1. results' = results /\ Unmarked' = Unmarked
    BY <1>3, QuietPlaces DEF Unmarked
  <2>2. QED BY <2>1 DEF UndefFollows
<1>4. CASE TakeResult
  <2>1. results # <<>> /\ results' = Tail(results) /\ Unmarked' = Unmarked
    BY <1>4 DEF TakeResult, Unmarked
  <2>2. /\ \A k \in DOMAIN results' :
            k \in Nat \ {0} /\ k + 1 \in DOMAIN results /\ results'[k] = results[k + 1]
        /\ \A l \in DOMAIN results : l > 1 => l - 1 \in DOMAIN results' /\ results'[l - 1] = results[l]
    BY <1>0, <2>1
  <2>3. ASSUME NEW k \in DOMAIN results', results'[k] # Undef, Unmarked = {}
        PROVE  \E l \in DOMAIN results' : l > k /\ results'[l] = Undef
    <3>1. PICK m \in DOMAIN results : m > k + 1 /\ results[m] = Undef
      BY <2>2, <2>3 DEF UndefFollows
    <3>2. m \in Nat /\ k \in Nat /\ m > 1 /\ m - 1 > k
      BY <1>0, <2>2, <3>1
    <3>3. QED BY <2>2, <3>1, <3>2
  <2>4. QED BY <2>1, <2>3 DEF UndefFollows
<1>5. ASSUME NEW t \in Workers, PutResult(t) PROVE UndefFollows'
  <2>1. t \in Unmarked'
    BY <1>0, <1>5 DEF PutResult, Goes, At, Unmarked
  <2>2. QED BY <2>1 DEF UndefFollows
<1>6. ASSUME NEW t \in Workers, PutUndef(t) PROVE UndefFollows'
  <2>1. results' = Append(results, Undef)
    BY <1>6 DEF PutUndef
  <2>2. /\ Len(results) + 1 \in DOMAIN results' /\ results'[Len(results) + 1] = Undef
        /\ \A k \in DOMAIN results' : k < Len(results) + 1 \/ k = Len(results) + 1
    BY <1>0, <2>1
  <2>3. QED BY <2>2 DEF UndefFollows
<1>7. CASE KillAndRestart
  <2>1. results' = <<>> /\ DOMAIN <<>> = {}
    BY <1>7 DEF KillAndRestart
  <2>2. QED BY <2>1 DEF UndefFollows
<1>8. QED
  BY <1>1, <1>2, <1>3, <1>4, <1>5, <1>6, <1>7 DEF Next, Main, Thread, Failure, Ended, Quiet

LEMMA NextPartsFirst == ASSUME Flow, PartsFirst, [Next]_vars PROVE PartsFirst'
<1>0. tasks \in Seq(Parts \cup {Undef}) /\ tpc \in [Workers -> Steps]
  BY DEF Flow, Apart, TypeInv, TypeOK, Steps
<1>1. CASE ListNode \/ TakeResult \/ Join \/ UNCHANGED vars
  BY <1>1 DEF ListNode, TakeResult, Join, vars, PartsFirst
<1>2. CASE StartThreads
  <2>1. tpc' = [t \in Workers |-> "get"] /\ tasks' = TaskList
    BY <1>2 DEF StartThreads
  <2>2. \A k, l \in DOMAIN TaskList : k < l /\ TaskList[k] = Undef => TaskList[l] = Undef
    BY NumThreadsNat DEF TaskList, Parts, Undef
  <2>3. QED BY <2>1, <2>2 DEF PartsFirst
<1>3. ASSUME NEW t \in Workers, GetTask(t) PROVE PartsFirst'
  <2>1. tasks # <<>> /\ tasks' = Tail(tasks) /\ Head(tasks) = tasks[1]
        /\ tpc' = [tpc EXCEPT ![t] = IF Head(tasks) = Undef THEN "end" ELSE "start"]
    BY <1>0, <1>3 DEF GetTask, Goes, At
  <2>2. /\ 1 \in DOMAIN tasks
        /\ \A k \in DOMAIN tasks' : k \in Nat \ {0} /\ k + 1 \in DOMAIN tasks /\ tasks'[k] = tasks[k + 1]
    BY <1>0, <2>1
  <2>3. \A k, l \in DOMAIN tasks' : k < l /\ tasks'[k] = Undef => tasks'[l] = Undef
    BY <2>2 DEF PartsFirst
  <2>4. ASSUME NEW u \in Workers, tpc'[u] = "end" PROVE \A k \in DOMAIN tasks' : tasks'[k] = Undef
    <3>1. tpc[u] = "end" \/ tasks[1] = Undef
      BY <1>0, <2>1, <2>4
    <3>2. QED BY <2>2, <3>1 DEF PartsFirst
  <2>5. QED BY <2>3, <2>4 DEF PartsFirst
<1>4. ASSUME NEW t \in Workers, Quiet(t) PROVE PartsFirst'
  BY <1>4, QuietPlaces DEF PartsFirst
<1>5. ASSUME NEW t \in Workers, PutResult(t) \/ PutUndef(t) PROVE PartsFirst'
  <2>1. tasks' = tasks /\ \A u \in Workers : tpc'[u] = "end" => tpc[u] = "end"
    BY <1>0, <1>5 DEF PutResult, PutUndef, Goes, At
  <2>2. QED BY <2>1 DEF PartsFirst
<1>6. CASE KillAndRestart
  <2>1. tasks' = <<>> /\ DOMAIN <<>> = {}
    BY <1>6 DEF KillAndRestart
  <2>2. QED BY <2>1 DEF PartsFirst
<1>7. QED
  BY <1>1, <1>2, <1>3, <1>4, <1>5, <1>6 DEF Next, Main, Thread, Failure, Ended, Quiet

LEMMA NextAtTheEnd == ASSUME Flow, AtTheEnd, [Next]_vars PROVE AtTheEnd'
<1>1. CASE ListNode \/ StartThreads \/ TakeResult \/ KillAndRestart
  BY <1>1 DEF ListNode, StartThreads, TakeResult, KillAndRestart, AtTheEnd
<1>2. CASE Join
  BY <1>2 DEF Join, AllMarks, AtTheEnd
<1>3. ASSUME NEW t \in Workers, Quiet(t) PROVE AtTheEnd'
  BY <1>3, QuietPlaces DEF AtTheEnd
<1>4. ASSUME NEW t \in Workers, GetTask(t) \/ PutResult(t) \/ PutUndef(t) PROVE AtTheEnd'
  <2>1. cpc' = cpc /\ tpc[t] # "end"
    BY <1>4 DEF GetTask, PutResult, PutUndef, Goes, At, control
  <2>2. QED BY <2>1 DEF AtTheEnd
<1>5. CASE UNCHANGED vars
  BY <1>5 DEF vars, control, AtTheEnd
<1>6. QED
  BY <1>1, <1>2, <1>3, <1>4, <1>5 DEF Next, Main, Thread, Failure, Ended, Quiet

LEMMA NextMarking == Marking /\ [Next]_vars => Marking'
BY NextFlow, NextMarked, NextFollows, NextPartsFirst, NextAtTheEnd DEF Marking

LEMMA InitMarking == Init => Marking
<1> SUFFICES ASSUME Init PROVE Marking
  OBVIOUS
<1>1. Flow
  BY InitFlow
<1>2. marks = 0 /\ results = <<>> /\ tasks = <<>> /\ DOMAIN <<>> = {} /\ cpc = "list"
      /\ Unmarked = {}
  BY DEF Init, Unmarked
<1>3. Marked
  BY <1>2, CountEmpty, FS_EmptySet, FinitePlaces DEF Marked
<1>4. UndefFollows /\ AtTheEnd
  BY <1>2 DEF UndefFollows, AtTheEnd
<1>5. PartsFirst
  BY <1>2 DEF PartsFirst
<1>6. QED BY <1>1, <1>3, <1>4, <1>5 DEF Marking

(* At the end every part has gone through: no result is left in the queue  *)
(* because an undef would be behind it, one more than there are parts.     *)
LEMMA AllThrough == ASSUME Marking, cpc = "end", Nodes # {}
                    PROVE  Held = {} /\ Sent = {}
<1>0. /\ results \in Seq(Parts \cup {Undef}) /\ marks = NumThreads
      /\ \A t \in Workers : tpc[t] = "end"
  BY DEF Marking, Flow, Apart, TypeInv, TypeOK, AtTheEnd
<1>1. 1 \in Workers
  <2>1. NumNodes \in Nat /\ NumNodes >= 1 /\ MaxThreads \in Nat \ {0}
    BY SnmpAssumption DEF Nodes
  <2>2. QED BY <2>1 DEF Workers, NumThreads
<1>2. \A k \in DOMAIN tasks : tasks[k] = Undef
  BY <1>0, <1>1 DEF Marking, PartsFirst
<1>3. Held = {}
  BY <1>0, <1>2 DEF Held, Pending, Busy, Closing, Parts, Undef
<1>4. Sent = {}
  <2> SUFFICES ASSUME NEW k \in DOMAIN results, results[k] \in Parts PROVE FALSE
    BY DEF Sent
  <2>1. results[k] # Undef /\ Unmarked = {}
    BY <1>0 DEF Parts, Undef, Unmarked
  <2>2. \E l \in DOMAIN results : results[l] = Undef
    BY <2>1 DEF Marking, UndefFollows
  <2>3. Count(results, Undef) \in Nat /\ Count(results, Undef) >= 1
    BY <1>0, <2>2, CountType
  <2>4. Cardinality(Parts \ Held) = NumThreads /\ Cardinality(Unmarked) \in Nat
    <3>1. Parts \ Held = Parts
      BY <1>3
    <3>2. QED BY <3>1, FinitePlaces, Zenon
  <2>5. QED BY <1>0, <2>3, <2>4, NumThreadsNat DEF Marking, Marked
<1>5. QED BY <1>3, <1>4

(* The nodes of a part are in its files only, and all that are dealt out   *)
(* are there until its collector is through.                               *)
FileOf(p) ==
    /\ \A k \in DOMAIN partNodes[p] : PartOf(partNodes[p][k]) = p
    /\ \A k \in DOMAIN partMib[p] : PartOf(partMib[p][k]) = p
    /\ ~killed => \A k, l \in DOMAIN partNodes[p] : partNodes[p][k] = partNodes[p][l] => k = l
    /\ ~killed /\ cpc = "list" => \A k \in DOMAIN partNodes[p] : partNodes[p][k] <= listed
    /\ p \notin Held \cup Sent => partMib[p] = <<>>

InFile(n) == \E k \in DOMAIN partNodes[PartOf(n)] : partNodes[PartOf(n)][k] = n

Dealt == /\ \A n \in 1..listed : PartOf(n) \in Pending \cup Busy => InFile(n)
         /\ cpc # "list" => listed = NumNodes

(* What a collector has opened is of its nodes, and what it has opened and *)
(* what it has written are together what it has come by.                   *)
CollectedOf(t, n) == Count(partMib[task[t]], n) + Count(open[t], n)

Session(t) ==
    tpc[t] = "collect" =>
        /\ \A k \in DOMAIN open[t] : \E l \in 1..i[t] : MyNodes(t)[l] = open[t][k]
        /\ \A k \in DOMAIN partMib[task[t]] : \E l \in 1..i[t] : MyNodes(t)[l] = partMib[task[t]][k]
        /\ ~killed => \A n \in Nodes : CollectedOf(t, n) <= 1
        /\ task[t] \notin unopened => \A l \in 1..i[t] : CollectedOf(t, MyNodes(t)[l]) >= 1

Files    == \A p \in Parts : FileOf(p)
Sessions == \A t \in Workers : Session(t)

LEMMA NodeTypes ==
    ASSUME TypeInv
    PROVE  /\ output \in Seq(Nodes) /\ gathered \in Seq(Nodes)
           /\ partNodes \in [Parts -> Seq(Nodes)] /\ partMib \in [Parts -> Seq(Nodes)]
           /\ open \in [Workers -> Seq(Nodes)] /\ i \in [Workers -> Nat]
           /\ tpc \in [Workers -> Steps] /\ task \in [Workers -> Parts \cup {Undef}]
           /\ tasks \in Seq(Parts \cup {Undef}) /\ results \in Seq(Parts \cup {Undef})
           /\ listed \in 0..NumNodes /\ NumNodes \in Nat
           /\ \A t \in Workers : Working(t) => task[t] \in Parts
BY SnmpAssumption DEF TypeInv, TypeOK, HasTask, Steps, Working

LEMMA SessionsOfPart ==
    ASSUME Exchange, Files, Sessions, NEW t \in Workers, tpc[t] = "collect"
    PROVE  /\ task[t] \in Parts /\ i[t] \in Nat /\ i[t] <= Len(MyNodes(t))
           /\ MyNodes(t) \in Seq(Nodes) /\ open[t] \in Seq(Nodes)
           /\ \A k \in DOMAIN MyNodes(t) : PartOf(MyNodes(t)[k]) = task[t]
           /\ \A k \in DOMAIN open[t] : PartOf(open[t][k]) = task[t]
<1>1. /\ TypeInv /\ Own(t) /\ Session(t)
  BY DEF Exchange, Apart, Sessions
<1>2. /\ task[t] \in Parts /\ i[t] \in Nat /\ i[t] <= Len(MyNodes(t))
      /\ MyNodes(t) \in Seq(Nodes) /\ open[t] \in Seq(Nodes)
  BY <1>1, NodeTypes DEF Own, Counted, MyNodes, Working
<1>3. \A k \in DOMAIN MyNodes(t) : PartOf(MyNodes(t)[k]) = task[t]
  BY <1>2 DEF Files, FileOf, MyNodes
<1>4. ASSUME NEW k \in DOMAIN open[t] PROVE PartOf(open[t][k]) = task[t]
  <2>1. PICK l \in 1..i[t] : MyNodes(t)[l] = open[t][k]
    BY <1>1 DEF Session
  <2>2. l \in DOMAIN MyNodes(t)
    BY <1>2
  <2>3. QED BY <1>3, <2>1, <2>2
<1>5. QED BY <1>2, <1>3, <1>4

(* What a step of a collector adds to the file of its part and to what is  *)
(* gathered: the sessions it exchanges, or none.                           *)
Exchanges(t, out) ==
    /\ partMib' = [partMib EXCEPT ![task[t]] = @ \o out]
    /\ gathered' = gathered \o out
    /\ \A k \in DOMAIN out : PartOf(out[k]) = task[t]

LEMMA Finishes ==
    ASSUME Exchange, Files, Sessions, NEW t \in Workers, Finish(t)
    PROVE  /\ open[t] \in Seq(Nodes) /\ Exchanges(t, open[t])
           /\ open' = [open EXCEPT ![t] = <<>>]
<1>1. /\ tpc[t] = "collect" /\ i[t] = Len(MyNodes(t)) /\ TypeInv /\ Own(t)
  BY DEF Finish, Goes, At, Exchange, Apart
<1>2. /\ task[t] \in Parts /\ open[t] \in Seq(Nodes)
      /\ \A k \in DOMAIN open[t] : PartOf(open[t][k]) = task[t]
  BY <1>1, SessionsOfPart
<1>3. CASE SessionsLeft(t)
  BY <1>2, <1>3 DEF Finish, Dispatch, Exchanges
<1>4. CASE ~SessionsLeft(t)
  <2>1. UNCHANGED <<partMib, gathered, open>>
    BY <1>4 DEF Finish
  <2>2. open[t] = <<>>
    <3>1. Counted(t) /\ i[t] \in Nat /\ j[t] \in Nat /\ Len(open[t]) \in Nat /\ ~(j[t] < i[t])
      BY <1>1, <1>2, <1>4 DEF Own, SessionsLeft, TypeInv, TypeOK
    <3>2. Len(open[t]) = 0
      BY <3>1 DEF Counted
    <3>3. QED BY <1>2, <3>2
  <2>3. /\ partMib \in [Parts -> Seq(Nodes)] /\ gathered \in Seq(Nodes) /\ open \in [Workers -> Seq(Nodes)]
    BY <1>1, NodeTypes
  <2>4. partMib[task[t]] \o <<>> = partMib[task[t]] /\ gathered \o <<>> = gathered
    BY <1>2, <2>3
  <2>5. partMib' = [partMib EXCEPT ![task[t]] = @ \o <<>>] /\ open' = [open EXCEPT ![t] = <<>>]
    BY <1>2, <2>1, <2>2, <2>3, <2>4
  <2>6. QED BY <1>2, <2>1, <2>2, <2>4, <2>5 DEF Exchanges
<1>5. QED BY <1>2, <1>3, <1>4

LEMMA Opens ==
    ASSUME Exchange, Files, Sessions, NEW t \in Workers, OpenSession(t)
    PROVE  /\ i[t] + 1 \in DOMAIN MyNodes(t) /\ Append(open[t], MyNodes(t)[i[t] + 1]) \in Seq(Nodes)
           /\ MyNodes(t)[i[t] + 1] \in Nodes
           /\ \/ /\ Exchanges(t, Append(open[t], MyNodes(t)[i[t] + 1]))
                 /\ open' = [open EXCEPT ![t] = <<>>]
              \/ /\ Exchanges(t, <<>>)
                 /\ open' = [open EXCEPT ![t] = Append(open[t], MyNodes(t)[i[t] + 1])]
<1> DEFINE m == MyNodes(t)[i[t] + 1]
           sessions == Append(open[t], m)
<1>1. /\ tpc[t] = "collect" /\ i[t] < Len(MyNodes(t)) /\ TypeInv
  BY DEF OpenSession, At, Exchange, Apart
<1>2. /\ task[t] \in Parts /\ i[t] \in Nat /\ MyNodes(t) \in Seq(Nodes) /\ open[t] \in Seq(Nodes)
      /\ \A k \in DOMAIN MyNodes(t) : PartOf(MyNodes(t)[k]) = task[t]
      /\ \A k \in DOMAIN open[t] : PartOf(open[t][k]) = task[t]
  BY <1>1, SessionsOfPart
<1>3. i[t] + 1 \in DOMAIN MyNodes(t)
  BY <1>1, <1>2
<1>4. m \in Nodes /\ PartOf(m) = task[t]
  BY <1>2, <1>3
<1> HIDE DEF m
<1>5. sessions \in Seq(Nodes) /\ \A k \in DOMAIN sessions : PartOf(sessions[k]) = task[t]
  BY <1>2, <1>4
<1> HIDE DEF sessions
<1>6. CASE (i[t] + 1) % MaxHosts = 0
  <2>1. Dispatch(t, sessions)
    BY <1>6 DEF OpenSession, sessions, m
  <2>2. QED BY <1>3, <1>4, <1>5, <2>1 DEF Dispatch, Exchanges, sessions, m
<1>7. CASE (i[t] + 1) % MaxHosts # 0
  <2>1. open' = [open EXCEPT ![t] = sessions] /\ UNCHANGED <<partMib, gathered>>
    BY <1>7 DEF OpenSession, sessions, m
  <2>2. /\ partMib \in [Parts -> Seq(Nodes)] /\ gathered \in Seq(Nodes)
    BY <1>1, NodeTypes
  <2>3. partMib[task[t]] \o <<>> = partMib[task[t]] /\ gathered \o <<>> = gathered
    BY <1>2, <2>2
  <2>4. Exchanges(t, <<>>)
    BY <1>2, <2>1, <2>2, <2>3 DEF Exchanges
  <2>5. QED BY <1>3, <1>4, <1>5, <2>1, <2>4 DEF sessions, m
<1>8. QED BY <1>6, <1>7

(* The file of a part after what its collector adds.                       *)
LEMMA ExchangedFile ==
    ASSUME TypeInv, NEW t \in Workers, task[t] \in Parts, NEW out \in Seq(Nodes), Exchanges(t, out)
    PROVE  /\ partMib'[task[t]] = partMib[task[t]] \o out
           /\ \A p \in Parts : p # task[t] => partMib'[p] = partMib[p]
           /\ \A k \in DOMAIN partMib'[task[t]] :
                 \/ k \in DOMAIN partMib[task[t]] /\ partMib'[task[t]][k] = partMib[task[t]][k]
                 \/ \E l \in DOMAIN out : partMib'[task[t]][k] = out[l]
           /\ \A n : Count(partMib'[task[t]], n) = Count(partMib[task[t]], n) + Count(out, n)
           /\ \A n : Count(gathered', n) = Count(gathered, n) + Count(out, n)
           /\ \A n : PartOf(n) # task[t] => Count(out, n) = 0
<1>1. partMib \in [Parts -> Seq(Nodes)] /\ gathered \in Seq(Nodes) /\ partMib[task[t]] \in Seq(Nodes)
  BY NodeTypes
<1>2. /\ partMib'[task[t]] = partMib[task[t]] \o out /\ gathered' = gathered \o out
      /\ \A p \in Parts : p # task[t] => partMib'[p] = partMib[p]
  BY <1>1 DEF Exchanges
<1>3. ASSUME NEW s \in Seq(Nodes), NEW k \in DOMAIN (s \o out)
      PROVE  \/ k \in DOMAIN s /\ (s \o out)[k] = s[k]
             \/ \E l \in DOMAIN out : (s \o out)[k] = out[l]
  <2>1. k \in 1..(Len(s) + Len(out)) /\ Len(s) \in Nat /\ Len(out) \in Nat
    BY <1>3
  <2>2. CASE k <= Len(s)
    BY <1>3, <2>1, <2>2
  <2>3. CASE k > Len(s)
    <3>1. k - Len(s) \in DOMAIN out /\ (s \o out)[k] = out[k - Len(s)]
      BY <1>3, <2>1, <2>3
    <3>2. QED BY <3>1
  <2>4. QED BY <2>1, <2>2, <2>3
<1>4. \A n : /\ Count(partMib[task[t]] \o out, n) = Count(partMib[task[t]], n) + Count(out, n)
             /\ Count(gathered \o out, n) = Count(gathered, n) + Count(out, n)
  BY <1>1, CountCat
<1>5. ASSUME NEW n, PartOf(n) # task[t] PROVE Count(out, n) = 0
  <2>1. ~\E k \in DOMAIN out : out[k] = n
    BY <1>5 DEF Exchanges
  <2>2. Count(out, n) \in Nat /\ ~(Count(out, n) >= 1)
    BY <2>1, CountType
  <2>3. QED BY <2>2
<1>6. QED BY <1>1, <1>2, <1>3, <1>4, <1>5

(* Where the part of a thread is, and goes, with each step of its          *)
(* collector.                                                              *)
LEMMA CollectorPlaces ==
    ASSUME Flow, NEW t \in Workers, Quiet(t)
    PROVE  /\ task[t] \in Parts
           /\ OpenFiles(t) => /\ task[t] \in Pending /\ Pending' = Pending \ {task[t]}
                              /\ Busy' = Busy \cup {task[t]}
           /\ CollectorDies(t) => /\ task[t] \in Pending /\ Pending' = Pending \ {task[t]}
                                  /\ Busy' = Busy
           /\ OpenSession(t) \/ SessionFails(t) =>
                 task[t] \in Busy /\ Pending' = Pending /\ Busy' = Busy
           /\ Finish(t) => task[t] \in Busy /\ Pending' = Pending /\ Busy' = Busy \ {task[t]}
           /\ Unlink(t) => task[t] \in Closing /\ Pending' = Pending /\ Busy' = Busy
<1>1. /\ tpc \in [Workers -> Steps] /\ Working(t) /\ UNCHANGED <<cpc, tasks, results, task>>
      /\ task[t] \in Parts
  BY QuietPlaces DEF Quiet, OpenFiles, CollectorDies, OpenSession, SessionFails, Finish, Unlink,
         Goes, At, Working, Flow, Apart, TypeInv, TypeOK, HasTask, Steps
<1>2. /\ Pending \cap Busy = {} /\ Pending \cap Closing = {} /\ Busy \cap Closing = {}
  BY Disjoint DEF Flow
<1>3. ASSUME NEW to \in {"collect", "unlink", "result"}, tpc' = [tpc EXCEPT ![t] = to]
      PROVE  /\ Pending' = IF tpc[t] = "start" THEN Pending \ {task[t]} ELSE Pending
             /\ Busy' = IF to = "collect" THEN Busy \cup {task[t]} ELSE Busy \ {task[t]}
             /\ task[t] \in (IF tpc[t] = "start" THEN Pending ELSE
                             IF tpc[t] = "collect" THEN Busy ELSE Closing)
  BY <1>1, <1>3, StepPlaces DEF Steps
<1>4. CASE OpenFiles(t)
  <2>1. tpc[t] = "start" /\ tpc' = [tpc EXCEPT ![t] = "collect"]
    BY <1>4 DEF OpenFiles, Goes, At
  <2>2. ~CollectorDies(t) /\ ~OpenSession(t) /\ ~SessionFails(t) /\ ~Finish(t) /\ ~Unlink(t)
    BY <1>1, <2>1 DEF CollectorDies, OpenSession, SessionFails, Finish, Unlink, Goes, At
  <2>3. QED BY <1>1, <1>3, <2>1, <2>2
<1>5. CASE CollectorDies(t)
  <2>1. tpc[t] = "start" /\ tpc' = [tpc EXCEPT ![t] = "unlink"]
    BY <1>5 DEF CollectorDies, Goes, At
  <2>2. ~OpenFiles(t) /\ ~OpenSession(t) /\ ~SessionFails(t) /\ ~Finish(t) /\ ~Unlink(t)
    BY <1>1, <2>1 DEF OpenFiles, OpenSession, SessionFails, Finish, Unlink, Goes, At
  <2>3. QED BY <1>1, <1>2, <1>3, <2>1, <2>2
<1>6. CASE OpenSession(t) \/ SessionFails(t)
  <2>1. tpc[t] = "collect" /\ tpc' = tpc
    BY <1>6 DEF OpenSession, SessionFails, At
  <2>2. ~OpenFiles(t) /\ ~CollectorDies(t) /\ ~Finish(t) /\ ~Unlink(t)
    BY <1>1, <2>1 DEF OpenFiles, CollectorDies, Finish, Unlink, Goes, At
  <2>3. Pending' = Pending /\ Busy' = Busy
    BY <1>1, <2>1, SamePlaces DEF Same
  <2>4. task[t] \in Busy
    BY <1>1, <2>1 DEF Busy
  <2>5. QED BY <1>1, <2>2, <2>3, <2>4
<1>7. CASE Finish(t)
  <2>1. tpc[t] = "collect" /\ tpc' = [tpc EXCEPT ![t] = "unlink"]
    BY <1>7 DEF Finish, Goes, At
  <2>2. ~OpenFiles(t) /\ ~OpenSession(t) /\ ~SessionFails(t) /\ ~CollectorDies(t) /\ ~Unlink(t)
    BY <1>1, <2>1 DEF OpenFiles, OpenSession, SessionFails, CollectorDies, Unlink, Goes, At
  <2>3. QED BY <1>1, <1>3, <2>1, <2>2
<1>8. CASE Unlink(t)
  <2>1. tpc[t] = "unlink" /\ tpc' = [tpc EXCEPT ![t] = "result"]
    BY <1>8 DEF Unlink, Goes, At
  <2>2. ~OpenFiles(t) /\ ~OpenSession(t) /\ ~SessionFails(t) /\ ~CollectorDies(t) /\ ~Finish(t)
    BY <1>1, <2>1 DEF OpenFiles, OpenSession, SessionFails, CollectorDies, Finish, Goes, At
  <2>3. QED BY <1>1, <1>2, <1>3, <2>1, <2>2
<1>9. QED BY <1>4, <1>5, <1>6, <1>7, <1>8 DEF Quiet

(* The steps of main and of the threads that leave every place as it is.   *)
Idle == \/ ListNode \/ StartThreads \/ Join \/ UNCHANGED vars
        \/ \E t \in Workers : GetTask(t) \/ PutUndef(t)

LEMMA IdlePlaces == ASSUME Flow, Idle PROVE Same
BY SamePlaces, StartPlaces, GetPlaces, PutUndefPlaces
   DEF Idle, ListNode, Join, vars, control

LEMMA NextSplit ==
    ASSUME [Next]_vars
    PROVE  \/ Idle \/ TakeResult \/ KillAndRestart
           \/ \E t \in Workers : Quiet(t) \/ PutResult(t)
BY DEF Next, Main, Thread, Failure, Ended, Quiet, Idle

(* A part leaves these only when main takes its result.                    *)
LEMMA HeldOrSent ==
    ASSUME Flow, [Next]_vars, ~TakeResult, NEW p \in Parts, p \in Held \cup Sent
    PROVE  p \in Held' \cup Sent'
<1>1. CASE Idle
  BY <1>1, IdlePlaces DEF Same, Held
<1>2. CASE KillAndRestart
  BY <1>2, KillPlaces DEF Held
<1>3. CASE \E t \in Workers : Quiet(t)
  BY <1>3, QuietPlaces
<1>4. ASSUME NEW t \in Workers, PutResult(t) PROVE p \in Held' \cup Sent'
  BY <1>4, PutResultPlaces DEF Held
<1>5. QED BY <1>1, <1>2, <1>3, <1>4, NextSplit

LEMMA Appended ==
    ASSUME NEW S, NEW s \in Seq(S), NEW e \in S
    PROVE  /\ Len(s) \in Nat /\ Append(s, e)[Len(s) + 1] = e
           /\ Len(s) + 1 \in DOMAIN Append(s, e)
           /\ \A k \in DOMAIN s : k \in DOMAIN Append(s, e) /\ Append(s, e)[k] = s[k]
           /\ \A k \in DOMAIN Append(s, e) : k \in DOMAIN s \/ k = Len(s) + 1
OBVIOUS

LEMMA NextFiles == ASSUME Flow, Exchange, Files, Sessions, [Next]_vars PROVE Files'
<1>0. /\ TypeInv /\ partNodes \in [Parts -> Seq(Nodes)] /\ partMib \in [Parts -> Seq(Nodes)]
      /\ \A p \in Parts : p \in Held \cup Sent => p \in Held' \cup Sent' \/ TakeResult
      /\ listed \in 0..NumNodes /\ NumNodes \in Nat
  BY HeldOrSent, NodeTypes DEF Flow, Apart
<1>1. ASSUME NEW p \in Parts,
             UNCHANGED <<partNodes[p], partMib[p], listed, killed>>, cpc' = "list" => cpc = "list",
             p \notin Held' \cup Sent' => p \notin Held \cup Sent
      PROVE  FileOf(p)'
  BY <1>1 DEF Files, FileOf
<1>2. CASE \/ StartThreads \/ Join \/ UNCHANGED vars
           \/ \E t \in Workers : GetTask(t) \/ PutUndef(t) \/ PutResult(t) \/ SessionFails(t)
  <2>1. /\ UNCHANGED <<partNodes, partMib, listed, killed>>
        /\ (cpc' = "list" => cpc = "list") /\ ~TakeResult
    BY <1>2 DEF StartThreads, Join, vars, GetTask, PutUndef, PutResult, SessionFails, control,
                history, TakeResult
  <2>2. QED BY <1>0, <1>1, <2>1 DEF Files
<1>3. CASE ListNode
  <2>1. /\ listed + 1 \in Nodes /\ listed' = listed + 1 /\ cpc = "list"
        /\ UNCHANGED <<cpc, killed, partMib>> /\ ~TakeResult
        /\ partNodes' = [partNodes EXCEPT ![PartOf(listed + 1)] = Append(@, listed + 1)]
    <3>1. listed + 1 \in Nodes
      BY <1>0, <1>3 DEF ListNode, Nodes
    <3>2. ~TakeResult
      BY <1>3 DEF ListNode, TakeResult
    <3>3. QED BY <1>3, <3>1, <3>2, Zenon DEF ListNode, history
  <2>2. PartOf(listed + 1) \in Parts
    BY <2>1, PartOfType
  <2>3. ASSUME NEW p \in Parts PROVE FileOf(p)'
    <3>0. FileOf(p) /\ partNodes[p] \in Seq(Nodes)
      BY <1>0 DEF Files
    <3>1. CASE p # PartOf(listed + 1)
      <4>1. partNodes'[p] = partNodes[p]
        BY <1>0, <2>1, <3>1
      <4>2. \A k \in DOMAIN partNodes[p] : partNodes[p][k] <= listed => partNodes[p][k] <= listed + 1
        <5>1. listed \in Nat /\ \A k \in DOMAIN partNodes[p] : partNodes[p][k] \in Nat
          BY <1>0, <3>0 DEF Nodes
        <5>2. QED BY <5>1
      <4>3. QED BY <1>0, <2>1, <3>0, <4>1, <4>2 DEF FileOf
    <3>2. CASE p = PartOf(listed + 1)
      <4>1. /\ partNodes'[p] = Append(partNodes[p], listed + 1) /\ partMib'[p] = partMib[p]
            /\ killed' = killed /\ cpc' = "list"
        BY <1>0, <2>1, <3>2
      <4>2. /\ Len(partNodes[p]) \in Nat
            /\ \A k \in DOMAIN partNodes[p] : partNodes'[p][k] = partNodes[p][k]
            /\ partNodes'[p][Len(partNodes[p]) + 1] = listed + 1
            /\ \A k \in DOMAIN partNodes'[p] : k \in DOMAIN partNodes[p] \/ k = Len(partNodes[p]) + 1
            /\ \A k \in DOMAIN partNodes[p] : partNodes[p][k] \in Nat
        <5>1. \A k \in DOMAIN partNodes[p] : partNodes[p][k] \in Nat
          BY <1>0, <3>0 DEF Nodes
        <5>2. listed + 1 \in Nodes
          BY <2>1
        <5> DEFINE e == listed + 1
        <5> HIDE DEF e
        <5>3. e \in Nodes /\ partNodes'[p] = Append(partNodes[p], e)
          BY <4>1, <5>2 DEF e
        <5>4. /\ Len(partNodes[p]) \in Nat
              /\ \A k \in DOMAIN partNodes[p] : partNodes'[p][k] = partNodes[p][k]
              /\ partNodes'[p][Len(partNodes[p]) + 1] = e
              /\ \A k \in DOMAIN partNodes'[p] : k \in DOMAIN partNodes[p] \/ k = Len(partNodes[p]) + 1
          BY <3>0, <5>3, Appended
        <5>5. QED BY <5>1, <5>4 DEF e
      <4>3. \A k \in DOMAIN partNodes'[p] : PartOf(partNodes'[p][k]) = p
        BY <3>0, <3>2, <4>2 DEF FileOf
      <4>4. ASSUME ~killed
            PROVE  /\ \A k \in DOMAIN partNodes[p] : partNodes[p][k] <= listed
                   /\ \A k, l \in DOMAIN partNodes[p] : partNodes[p][k] = partNodes[p][l] => k = l
        BY <2>1, <3>0, <4>4 DEF FileOf
      <4>5. ~killed => \A k \in DOMAIN partNodes'[p] : partNodes'[p][k] <= listed'
        BY <1>0, <2>1, <4>2, <4>4
      <4>6. ~killed => \A k, l \in DOMAIN partNodes'[p] : partNodes'[p][k] = partNodes'[p][l] => k = l
        <5>1. listed \in Nat
          BY <1>0
        <5>2. SUFFICES ASSUME ~killed, NEW k \in DOMAIN partNodes'[p], NEW l \in DOMAIN partNodes'[p],
                              partNodes'[p][k] = partNodes'[p][l]
                       PROVE  k = l
          OBVIOUS
        <5>3. \A m \in DOMAIN partNodes[p] : partNodes'[p][m] # listed + 1
          BY <4>2, <4>4, <5>1, <5>2
        <5>4. QED BY <4>2, <4>4, <5>2, <5>3
      <4>7. /\ \A k \in DOMAIN partMib'[p] : PartOf(partMib'[p][k]) = p
            /\ p \notin Held' \cup Sent' => partMib'[p] = <<>>
        BY <1>0, <2>1, <3>0, <4>1 DEF FileOf
      <4>8. QED BY <4>1, <4>3, <4>5, <4>6, <4>7 DEF FileOf
    <3>3. QED BY <3>1, <3>2
  <2>4. QED BY <2>3 DEF Files
<1>4. CASE TakeResult
  <2>1. /\ results \in Seq(Parts \cup {Undef}) /\ results # <<>> /\ Head(results) \in Parts \cup {Undef}
        /\ UNCHANGED <<partNodes, listed, killed, cpc>> /\ cpc # "list"
        /\ Held' = Held /\ Sent' = Sent \ {Head(results)}
    <3>1. results \in Seq(Parts \cup {Undef}) /\ results # <<>>
      BY <1>0, <1>4, NodeTypes DEF TakeResult
    <3>2. UNCHANGED <<partNodes, listed, killed, cpc>> /\ cpc # "list"
      BY <1>4 DEF TakeResult, history
    <3>3. QED BY <1>4, <3>1, <3>2, TakePlaces DEF Held
  <2>2. /\ \A p \in Parts : p # Head(results) => partMib'[p] = partMib[p]
        /\ Head(results) \in Parts => partMib'[Head(results)] = <<>>
    <3>1. CASE Head(results) = Undef
      BY <1>4, <3>1 DEF TakeResult, Parts, Undef
    <3>2. CASE Head(results) # Undef
      <4>1. partMib' = [partMib EXCEPT ![Head(results)] = <<>>]
        BY <1>4, <3>2 DEF TakeResult
      <4>2. QED BY <1>0, <4>1
    <3>3. QED BY <3>1, <3>2
  <2>3. ASSUME NEW p \in Parts PROVE FileOf(p)'
    <3>1. CASE p # Head(results)
      BY <1>1, <2>1, <2>2, <3>1
    <3>2. CASE p = Head(results)
      <4>1. partMib'[p] = <<>> /\ DOMAIN <<>> = {} /\ partNodes'[p] = partNodes[p]
        BY <2>1, <2>2, <3>2
      <4>2. QED BY <2>1, <4>1 DEF Files, FileOf
    <3>3. QED BY <3>1, <3>2
  <2>4. QED BY <2>3 DEF Files
<1>5. ASSUME NEW t \in Workers, OpenFiles(t) \/ CollectorDies(t) PROVE Files'
  <2>1. /\ task[t] \in Parts /\ UNCHANGED <<partNodes, listed, killed, cpc>> /\ ~TakeResult
        /\ partMib' \in {partMib, [partMib EXCEPT ![task[t]] = <<>>]}
    <3>1. task[t] \in Parts /\ cpc' = cpc
      BY <1>5, CollectorPlaces, QuietPlaces DEF Quiet
    <3>2. QED BY <3>1, <1>5 DEF OpenFiles, CollectorDies, control, history, TakeResult, Goes, At
  <2>2. ASSUME NEW p \in Parts PROVE FileOf(p)'
    <3>1. CASE partMib'[p] = partMib[p]
      BY <1>0, <1>1, <2>1, <3>1
    <3>2. CASE partMib'[p] # partMib[p]
      <4>1. partMib'[p] = <<>> /\ DOMAIN <<>> = {}
        BY <1>0, <2>1, <3>2
      <4>2. QED BY <2>1, <4>1 DEF Files, FileOf
    <3>3. QED BY <3>1, <3>2
  <2>3. QED BY <2>2 DEF Files
<1>6. ASSUME NEW t \in Workers, Unlink(t) PROVE Files'
  <2>1. /\ task[t] \in Parts /\ UNCHANGED <<partMib, listed, killed, cpc>> /\ ~TakeResult /\ cpc # "list"
        /\ partNodes' = [partNodes EXCEPT ![task[t]] = <<>>]
    <3>1. task[t] \in Parts /\ cpc' = cpc /\ cpc # "list"
      BY <1>6, CollectorPlaces, QuietPlaces DEF Quiet
    <3>2. QED BY <3>1, <1>6 DEF Unlink, control, history, TakeResult, Goes, At
  <2>2. ASSUME NEW p \in Parts PROVE FileOf(p)'
    <3>1. CASE p # task[t]
      <4>1. partNodes'[p] = partNodes[p]
        BY <1>0, <2>1, <3>1
      <4>2. QED BY <1>0, <1>1, <2>1, <4>1
    <3>2. CASE p = task[t]
      <4>1. partNodes'[p] = <<>> /\ DOMAIN <<>> = {}
        BY <1>0, <2>1, <3>2
      <4>2. QED BY <1>0, <2>1, <4>1 DEF Files, FileOf
    <3>3. QED BY <3>1, <3>2
  <2>3. QED BY <2>2 DEF Files
<1>7. ASSUME NEW t \in Workers, OpenSession(t) \/ Finish(t) PROVE Files'
  <2>1. /\ task[t] \in Parts /\ UNCHANGED <<partNodes, listed, killed, cpc>> /\ cpc # "list" /\ ~TakeResult
        /\ task[t] \in Busy
    <3>1. task[t] \in Parts /\ cpc' = cpc /\ cpc # "list" /\ task[t] \in Busy
      BY <1>7, CollectorPlaces, QuietPlaces DEF Quiet
    <3>2. QED BY <3>1, <1>7 DEF OpenSession, Finish, control, history, TakeResult, Goes, At
  <2>2. PICK out \in Seq(Nodes) : Exchanges(t, out)
    <3>1. <<>> \in Seq(Nodes)
      OBVIOUS
    <3>2. QED BY <1>7, <3>1, Opens, Finishes
  <2>3. /\ \A p \in Parts : p # task[t] => partMib'[p] = partMib[p]
        /\ \A k \in DOMAIN partMib'[task[t]] :
              \/ k \in DOMAIN partMib[task[t]] /\ partMib'[task[t]][k] = partMib[task[t]][k]
              \/ \E l \in DOMAIN out : partMib'[task[t]][k] = out[l]
    BY <1>0, <2>1, <2>2, ExchangedFile
  <2>4. ASSUME NEW p \in Parts PROVE FileOf(p)'
    <3>1. CASE p # task[t]
      BY <1>0, <1>1, <2>1, <2>3, <3>1
    <3>2. CASE p = task[t]
      <4>1. \A k \in DOMAIN partMib'[p] : PartOf(partMib'[p][k]) = p
        BY <2>2, <2>3, <3>2 DEF Exchanges, Files, FileOf
      <4>2. p \in Held' \cup Sent'
        BY <1>0, <2>1, <3>2 DEF Held
      <4>3. QED BY <2>1, <4>1, <4>2 DEF Files, FileOf
    <3>3. QED BY <3>1, <3>2
  <2>5. QED BY <2>4 DEF Files
<1>8. CASE KillAndRestart
  <2>1. killed' /\ UNCHANGED <<partNodes, partMib>> /\ Held' = Parts
    BY <1>8, KillPlaces DEF KillAndRestart, Held
  <2>2. QED BY <2>1 DEF Files, FileOf
<1>9. QED
  BY <1>2, <1>3, <1>4, <1>5, <1>6, <1>7, <1>8, NextSplit DEF Quiet, Idle

LEMMA NextDealt == ASSUME Flow, Dealt, [Next]_vars PROVE Dealt'
<1>0. /\ partNodes \in [Parts -> Seq(Nodes)] /\ listed \in 0..NumNodes
      /\ NumNodes \in Nat /\ 1..listed \subseteq Nodes
  BY NodeTypes DEF Flow, Apart, Nodes
<1>1. ASSUME UNCHANGED <<listed, partNodes>>, cpc' # "list" => cpc # "list",
             Pending' \cup Busy' \subseteq Pending \cup Busy
      PROVE  Dealt'
  BY <1>1 DEF Dealt, InFile
<1>2. CASE Join \/ UNCHANGED vars \/ (\E t \in Workers : GetTask(t) \/ PutUndef(t))
  <2>1. UNCHANGED <<listed, partNodes>> /\ (cpc' # "list" => cpc # "list")
    BY <1>2 DEF Join, vars, GetTask, PutUndef, control
  <2>2. Pending' \cup Busy' \subseteq Pending \cup Busy
    BY <1>2, IdlePlaces DEF Idle, Same
  <2>3. QED BY <1>1, <2>1, <2>2
<1>3. CASE StartThreads
  <2>1. UNCHANGED <<listed, partNodes>> /\ listed = NumNodes
    BY <1>3 DEF StartThreads
  <2>2. Pending' = Pending /\ Busy' = Busy
    BY <1>3, StartPlaces DEF Same
  <2>3. QED BY <2>1, <2>2 DEF Dealt, InFile
<1>4. CASE ListNode
  <2>0. PICK m : m = listed + 1
    OBVIOUS
  <2>1. m \in Nodes /\ listed' = m /\ cpc' = "list" /\ Pending' = Pending /\ Busy' = Busy
    <3>1. Pending' = Pending /\ Busy' = Busy
      BY <1>4, IdlePlaces DEF Idle, Same
    <3>2. QED BY <1>0, <1>4, <2>0, <3>1 DEF ListNode, Nodes
  <2>2. partNodes' = [partNodes EXCEPT ![PartOf(m)] = Append(@, m)]
    BY <1>4, <2>0 DEF ListNode
  <2>3. \A n \in 1..m : n \in 1..listed \/ n = m
    BY <1>0, <2>0
  <2>4. PartOf(m) \in Parts
    BY <2>1, PartOfType
  <2>5. /\ partNodes'[PartOf(m)] = Append(partNodes[PartOf(m)], m) /\ partNodes[PartOf(m)] \in Seq(Nodes)
        /\ \A p \in Parts : p # PartOf(m) => partNodes'[p] = partNodes[p]
    BY <1>0, <2>2, <2>4
  <2>6. /\ Len(partNodes[PartOf(m)]) + 1 \in DOMAIN partNodes'[PartOf(m)]
        /\ partNodes'[PartOf(m)][Len(partNodes[PartOf(m)]) + 1] = m
        /\ \A k \in DOMAIN partNodes[PartOf(m)] :
              k \in DOMAIN partNodes'[PartOf(m)] /\ partNodes'[PartOf(m)][k] = partNodes[PartOf(m)][k]
    BY <2>1, <2>5, Appended
  <2>7. InFile(m)'
    BY <2>6 DEF InFile
  <2>8. ASSUME NEW n \in 1..listed, InFile(n) PROVE InFile(n)'
    <3>1. PartOf(n) \in Parts
      BY <1>0, PartOfType
    <3>2. PICK k \in DOMAIN partNodes[PartOf(n)] : partNodes[PartOf(n)][k] = n
      BY <2>8 DEF InFile
    <3>3. k \in DOMAIN partNodes'[PartOf(n)] /\ partNodes'[PartOf(n)][k] = n
      BY <2>5, <2>6, <3>1, <3>2
    <3>4. QED BY <3>3 DEF InFile
  <2>9. QED BY <2>1, <2>3, <2>7, <2>8 DEF Dealt
<1>5. CASE TakeResult
  <2>1. UNCHANGED <<listed, partNodes, cpc>>
    BY <1>5 DEF TakeResult
  <2>2. QED BY <1>1, <1>5, <2>1, TakePlaces
<1>6. ASSUME NEW t \in Workers, Quiet(t), ~Unlink(t) PROVE Dealt'
  <2>1. UNCHANGED <<listed, partNodes, cpc>>
    BY <1>6 DEF Quiet, OpenFiles, CollectorDies, OpenSession, SessionFails, Finish, control
  <2>2. Pending' \cup Busy' \subseteq Pending \cup Busy
    BY <1>6, CollectorPlaces DEF Quiet
  <2>3. QED BY <1>1, <2>1, <2>2
<1>7. ASSUME NEW t \in Workers, Unlink(t) PROVE Dealt'
  <2>1. /\ UNCHANGED <<listed, cpc>> /\ partNodes' = [partNodes EXCEPT ![task[t]] = <<>>]
    BY <1>7 DEF Unlink, control
  <2>2. Pending' = Pending /\ Busy' = Busy /\ task[t] \in Closing /\ task[t] \in Parts
    BY <1>7, CollectorPlaces DEF Quiet
  <2>3. task[t] \notin Pending \cup Busy
    BY <2>2, Disjoint DEF Flow
  <2>4. ASSUME NEW n \in 1..listed, PartOf(n) \in Pending \cup Busy PROVE InFile(n)'
    <3>1. PartOf(n) # task[t] /\ PartOf(n) \in Parts /\ InFile(n)
      BY <1>0, <2>3, <2>4, PartOfType DEF Dealt
    <3>2. partNodes'[PartOf(n)] = partNodes[PartOf(n)]
      BY <1>0, <2>1, <3>1
    <3>3. QED BY <3>1, <3>2 DEF InFile
  <2>5. QED BY <2>1, <2>2, <2>4 DEF Dealt
<1>8. ASSUME NEW t \in Workers, PutResult(t) PROVE Dealt'
  <2>1. UNCHANGED <<listed, partNodes, cpc>>
    BY <1>8 DEF PutResult, control
  <2>2. QED BY <1>1, <1>8, <2>1, PutResultPlaces
<1>9. CASE KillAndRestart
  <2>1. listed' = 0 /\ cpc' = "list" /\ 1..0 = {}
    BY <1>9 DEF KillAndRestart
  <2>2. QED BY <2>1 DEF Dealt
<1>10. QED
  BY <1>2, <1>3, <1>4, <1>5, <1>6, <1>7, <1>8, <1>9, NextSplit DEF Idle

LEMMA SessionKept ==
    ASSUME NEW u \in Workers, Session(u),
           UNCHANGED <<tpc[u], task[u], i[u], open[u], killed>>,
           tpc[u] = "collect" => UNCHANGED <<partNodes[task[u]], partMib[task[u]]>>,
           unopened \subseteq unopened'
    PROVE  Session(u)'
<1> SUFFICES ASSUME tpc[u] = "collect" PROVE Session(u)'
  BY DEF Session
<1>1. MyNodes(u)' = MyNodes(u) /\ partMib'[task'[u]] = partMib[task[u]]
  BY DEF MyNodes
<1>2. \A n : CollectedOf(u, n)' = CollectedOf(u, n)
  BY <1>1 DEF CollectedOf, Count
<1>3. QED BY <1>1, <1>2 DEF Session

(* A session that is opened is exchanged at once or stays open.            *)
LEMMA OpenSessionSession ==
    ASSUME Exchange, Files, Sessions, NEW t \in Workers, OpenSession(t) PROVE Session(t)'
<1> DEFINE p == task[t]
<1>0. PICK m : m = MyNodes(t)[i[t] + 1]
  OBVIOUS
<1>1. /\ tpc[t] = "collect" /\ i'[t] = i[t] + 1 /\ UNCHANGED <<tpc, task, partNodes, killed, unopened>>
      /\ TypeInv /\ Session(t)
  BY NodeTypes DEF OpenSession, At, Exchange, Apart, Sessions
<1>2. /\ p \in Parts /\ i[t] \in Nat /\ MyNodes(t) \in Seq(Nodes) /\ open[t] \in Seq(Nodes)
      /\ partMib[p] \in Seq(Nodes) /\ open \in [Workers -> Seq(Nodes)]
  BY <1>1, SessionsOfPart, NodeTypes
<1>3. i[t] + 1 \in DOMAIN MyNodes(t) /\ m \in Nodes /\ MyNodes(t)' = MyNodes(t)
  BY <1>0, <1>1, Opens DEF MyNodes
<1>4. ASSUME ~killed, NEW l \in 1..i[t] PROVE MyNodes(t)[l] # m
  <2>1. l \in DOMAIN MyNodes(t) /\ l # i[t] + 1
    BY <1>2, <1>3
  <2>2. QED BY <1>2, <1>3, <1>4, <2>1, <1>0 DEF Files, FileOf, MyNodes
<1>5. \A l \in 1..i'[t] : l \in 1..i[t] \/ MyNodes(t)[l] = m
  BY <1>0, <1>1, <1>2
<1>6. \A l \in 1..i[t] : l \in 1..i'[t]
  BY <1>1, <1>2
<1>7. i[t] + 1 \in 1..i'[t] /\ MyNodes(t)[i[t] + 1] = m
  BY <1>0, <1>1, <1>2
<1> DEFINE One(n) == IF m = n THEN 1 ELSE 0
<1>8. \A n : Count(Append(open[t], m), n) = Count(open[t], n) + One(n)
  BY <1>2, <1>3, CountAppend
<1>9. /\ \A k \in DOMAIN Append(open[t], m) :
            \/ k \in DOMAIN open[t] /\ Append(open[t], m)[k] = open[t][k]
            \/ Append(open[t], m)[k] = m
  BY <1>2, <1>3, Appended
<1>10. \A n : Count(open[t], n) \in Nat /\ Count(partMib[p], n) \in Nat
  BY <1>2, CountType
<1>11. ASSUME \A n : CollectedOf(t, n)' = CollectedOf(t, n) + One(n)
       PROVE  /\ ~killed => \A n \in Nodes : CollectedOf(t, n)' <= 1
              /\ task[t] \notin unopened => \A l \in 1..i'[t] : CollectedOf(t, MyNodes(t)[l])' >= 1
  <2>0. \A n : CollectedOf(t, n) \in Nat
    BY <1>10 DEF CollectedOf
  <2>1. ASSUME ~killed, NEW n \in Nodes PROVE CollectedOf(t, n)' <= 1
    <3>1. CASE m # n
      BY <1>1, <1>11, <2>0, <2>1, <3>1 DEF Session
    <3>2. CASE m = n
      <4>1. ~\E k \in DOMAIN open[t] : open[t][k] = n
        BY <1>1, <1>4, <2>1, <3>2 DEF Session
      <4>2. ~\E k \in DOMAIN partMib[p] : partMib[p][k] = n
        BY <1>1, <1>4, <2>1, <3>2 DEF Session
      <4>3. ~(Count(open[t], n) >= 1) /\ ~(Count(partMib[p], n) >= 1)
        <5>1. ~(Count(open[t], n) >= 1)
          BY <1>2, <4>1, CountType
        <5>2. ~(Count(partMib[p], n) >= 1)
          BY <1>2, <4>2, CountType
        <5>3. QED BY <5>1, <5>2
      <4>4. CollectedOf(t, n) = 0
        BY <1>10, <4>3 DEF CollectedOf
      <4>5. QED BY <1>11, <3>2, <4>4
    <3>3. QED BY <3>1, <3>2
  <2>2. ASSUME task[t] \notin unopened, NEW l \in 1..i'[t] PROVE CollectedOf(t, MyNodes(t)[l])' >= 1
    <3>0. PICK c : c = MyNodes(t)[l]
      OBVIOUS
    <3>3. CollectedOf(t, MyNodes(t)[l])' = CollectedOf(t, c)'
      BY <1>3, <3>0 DEF CollectedOf, Count
    <3>1. CASE l \in 1..i[t]
      <4>1. CollectedOf(t, c) >= 1
        BY <1>1, <2>2, <3>0, <3>1 DEF Session
      <4>2. CollectedOf(t, c)' = CollectedOf(t, c) + One(c)
        BY <1>11
      <4>3. QED BY <2>0, <3>3, <4>1, <4>2
    <3>2. CASE MyNodes(t)[l] = m
      <4>1. CollectedOf(t, c)' = CollectedOf(t, c) + 1
        BY <1>11, <3>0, <3>2
      <4>2. QED BY <2>0, <3>3, <4>1
    <3>4. QED BY <1>5, <3>1, <3>2
  <2>3. QED BY <2>1, <2>2
<1>12. CASE Exchanges(t, Append(open[t], m)) /\ open' = [open EXCEPT ![t] = <<>>]
  <2> DEFINE out == Append(open[t], m)
  <2>0. out \in Seq(Nodes) /\ open'[t] = <<>> /\ DOMAIN <<>> = {}
    BY <1>2, <1>3, <1>12
  <2>1. /\ \A k \in DOMAIN partMib'[p] :
              \/ k \in DOMAIN partMib[p] /\ partMib'[p][k] = partMib[p][k]
              \/ \E l \in DOMAIN out : partMib'[p][k] = out[l]
        /\ \A n : Count(partMib'[p], n) = Count(partMib[p], n) + Count(out, n)
    <3>1. Exchanges(t, out)
      BY <1>12
    <3> HIDE DEF out
    <3>2. QED BY <1>1, <1>2, <2>0, <3>1, ExchangedFile
  <2>2. \A k \in DOMAIN partMib'[p] : \E l \in 1..i'[t] : MyNodes(t)[l] = partMib'[p][k]
    <3>1. ASSUME NEW k \in DOMAIN out PROVE \E l \in 1..i'[t] : MyNodes(t)[l] = out[k]
      BY <1>1, <1>6, <1>7, <1>9 DEF Session
    <3>2. QED BY <1>1, <1>6, <2>1, <3>1 DEF Session
  <2>3. ASSUME NEW n PROVE CollectedOf(t, n)' = CollectedOf(t, n) + One(n)
    <3>1. CollectedOf(t, n)' = Count(partMib'[p], n) + Count(<<>>, n)
      BY <1>1, <2>0 DEF CollectedOf, Count
    <3>2. QED BY <1>8, <1>10, <2>1, <3>1, CountEmpty DEF CollectedOf
  <2>4. QED BY <1>1, <1>3, <1>11, <2>0, <2>2, <2>3 DEF Session
<1>13. CASE Exchanges(t, <<>>) /\ open' = [open EXCEPT ![t] = Append(open[t], m)]
  <2>0. open'[t] = Append(open[t], m) /\ partMib'[p] = partMib[p]
    <3>1. partMib'[p] = partMib[p] \o <<>>
      <4>1. partMib \in [Parts -> Seq(Nodes)]
        BY <1>1, NodeTypes
      <4>2. partMib' = [partMib EXCEPT ![p] = partMib[p] \o <<>>]
        BY <1>13 DEF Exchanges
      <4> HIDE DEF p
      <4>3. QED BY <1>2, <4>1, <4>2
    <3>2. QED BY <1>2, <1>13, <3>1
  <2>1. \A k \in DOMAIN open'[t] : \E l \in 1..i'[t] : MyNodes(t)[l] = open'[t][k]
    BY <1>1, <1>6, <1>7, <1>9, <2>0 DEF Session
  <2>2. \A k \in DOMAIN partMib'[p] : \E l \in 1..i'[t] : MyNodes(t)[l] = partMib'[p][k]
    BY <1>1, <1>6, <2>0 DEF Session
  <2>3. ASSUME NEW n PROVE CollectedOf(t, n)' = CollectedOf(t, n) + One(n)
    <3>1. CollectedOf(t, n)' = Count(partMib[p], n) + Count(Append(open[t], m), n)
      BY <1>1, <2>0 DEF CollectedOf, Count
    <3>2. QED BY <1>8, <1>10, <3>1 DEF CollectedOf
  <2>4. QED BY <1>1, <1>3, <1>11, <2>1, <2>2, <2>3 DEF Session
<1>14. QED BY <1>1, <1>12, <1>13, <1>0, Opens

(* A collector begins with an empty file; one that fails to open a session *)
(* passes over its node.                                                   *)
LEMMA OpenFilesSession ==
    ASSUME Flow, NEW t \in Workers, OpenFiles(t) PROVE Session(t)'
<1>1. /\ task[t] \in Parts /\ task' = task /\ i'[t] = 0 /\ open'[t] = <<>> /\ partMib'[task[t]] = <<>>
  <2>1. TypeInv /\ task[t] \in Parts /\ task' = task
    BY CollectorPlaces DEF Quiet, Flow, Apart, OpenFiles
  <2>2. QED BY <2>1, NodeTypes DEF OpenFiles
<1>2. ASSUME NEW n PROVE CollectedOf(t, n)' = 0
  <2>1. CollectedOf(t, n)' = Count(<<>>, n) + Count(<<>>, n)
    BY <1>1 DEF CollectedOf, Count
  <2>2. QED BY <2>1, CountEmpty
<1>3. DOMAIN <<>> = {} /\ 1..0 = {}
  OBVIOUS
<1>4. QED BY <1>1, <1>2, <1>3 DEF Session

LEMMA SessionFailsSession ==
    ASSUME Flow, Sessions, NEW t \in Workers, SessionFails(t) PROVE Session(t)'
<1>1. /\ tpc[t] = "collect" /\ UNCHANGED <<tpc, task, partNodes, partMib, open, killed>>
      /\ task[t] \in unopened' /\ i[t] \in Nat /\ i'[t] = i[t] + 1 /\ Session(t)
  BY NodeTypes DEF SessionFails, At, Flow, Apart, Sessions
<1>2. \A l \in 1..i[t] : l \in 1..i'[t]
  BY <1>1
<1>3. \A n : CollectedOf(t, n)' = CollectedOf(t, n)
  BY <1>1 DEF CollectedOf, Count
<1>4. MyNodes(t)' = MyNodes(t)
  BY <1>1 DEF MyNodes
<1>5. QED BY <1>1, <1>2, <1>3, <1>4 DEF Session

LEMMA NextSessions == ASSUME Flow, Exchange, Files, Sessions, [Next]_vars PROVE Sessions'
<1>0. /\ TypeInv /\ partNodes \in [Parts -> Seq(Nodes)] /\ partMib \in [Parts -> Seq(Nodes)]
      /\ tpc \in [Workers -> Steps] /\ task \in [Workers -> Parts \cup {Undef}]
      /\ open \in [Workers -> Seq(Nodes)] /\ i \in [Workers -> Nat]
      /\ \A u \in Workers : tpc[u] = "collect" => task[u] \in Parts /\ task[u] \in Busy
  BY NodeTypes DEF Flow, Apart, Working, Busy
<1>1. CASE ListNode \/ StartThreads \/ KillAndRestart
  <2>1. \A u \in Workers : tpc'[u] # "collect"
    BY <1>1 DEF ListNode, StartThreads, KillAndRestart, Flow, Apart, NotStarted
  <2>2. QED BY <2>1 DEF Sessions, Session
<1>2. CASE Join \/ UNCHANGED vars
  <2>1. UNCHANGED <<tpc, task, i, open, killed, partNodes, partMib, unopened>>
    BY <1>2 DEF Join, vars, collector, history
  <2>2. QED BY <2>1, SessionKept DEF Sessions
<1>3. CASE TakeResult
  <2>1. UNCHANGED <<tpc, task, i, open, killed, partNodes, unopened>>
    BY <1>3 DEF TakeResult, collector, history
  <2>2. \A p \in Busy : partMib'[p] = partMib[p]
    <3>1. Head(results) = Undef \/ Head(results) \notin Busy
      BY <1>3, TakePlaces DEF Flow, SentOnce, Held
    <3>2. Busy \subseteq Parts
      BY DEF Busy
    <3>3. \/ partMib' = partMib
          \/ Head(results) \notin Busy /\ partMib' = [partMib EXCEPT ![Head(results)] = <<>>]
      BY <1>3, <3>1 DEF TakeResult
    <3>4. QED BY <1>0, <3>2, <3>3
  <2>3. QED BY <1>0, <2>1, <2>2, SessionKept DEF Sessions
<1>4. ASSUME NEW t \in Workers, GetTask(t) \/ PutResult(t) \/ PutUndef(t) PROVE Sessions'
  <2>1. /\ UNCHANGED <<i, open, killed, partNodes, partMib, unopened>> /\ tpc[t] # "collect"
        /\ tpc'[t] # "collect"
        /\ \A u \in Workers : u # t => tpc'[u] = tpc[u] /\ task'[u] = task[u]
    BY <1>0, <1>4 DEF GetTask, PutResult, PutUndef, Goes, At, collector, history
  <2>2. ASSUME NEW u \in Workers PROVE Session(u)'
    <3>1. CASE u = t
      BY <2>1, <3>1 DEF Session
    <3>2. CASE u # t
      BY <2>1, <3>2, SessionKept DEF Sessions
    <3>3. QED BY <3>1, <3>2
  <2>3. QED BY <2>2 DEF Sessions
<1>5. ASSUME NEW t \in Workers, Quiet(t) PROVE Sessions'
  <2>0. Working(t) /\ task[t] \in Parts /\ task' = task
    BY <1>5, CollectorPlaces, QuietPlaces
       DEF Quiet, OpenFiles, CollectorDies, OpenSession, SessionFails, Finish, Unlink, Goes, At, Working
  <2>1. /\ \A u \in Workers : u # t => UNCHANGED <<tpc[u], i[u], open[u]>>
        /\ killed' = killed /\ unopened \subseteq unopened'
    BY <1>0, <1>5 DEF Quiet, OpenFiles, CollectorDies, OpenSession, SessionFails, Finish, Unlink,
       Dispatch, Goes, At, collector, history
  <2>2. \A p \in Parts : p # task[t] => partNodes'[p] = partNodes[p] /\ partMib'[p] = partMib[p]
    <3>1. partNodes' \in {partNodes, [partNodes EXCEPT ![task[t]] = <<>>]}
      BY <1>5 DEF Quiet, OpenFiles, CollectorDies, OpenSession, SessionFails, Finish, Unlink
    <3>2. partMib' = partMib \/ \E s : partMib' = [partMib EXCEPT ![task[t]] = s]
      BY <1>5 DEF Quiet, OpenFiles, CollectorDies, OpenSession, SessionFails, Finish, Unlink,
                  Dispatch
    <3>3. QED BY <1>0, <3>1, <3>2
  <2>3. ASSUME NEW u \in Workers, u # t PROVE Session(u)'
    <3>1. tpc[u] = "collect" => task[u] \in Parts /\ task[u] # task[t]
      BY <1>0, <2>0, <2>3 DEF Flow, Apart, PartsAreApart, Working
    <3>2. QED BY <2>0, <2>1, <2>2, <2>3, <3>1, SessionKept DEF Sessions
  <2>4. Session(t)'
    <3>1. CASE CollectorDies(t) \/ Finish(t) \/ Unlink(t)
      <4>1. tpc'[t] # "collect"
        BY <1>0, <3>1 DEF CollectorDies, Finish, Unlink, Goes, At
      <4>2. QED BY <4>1 DEF Session
    <3>2. QED
      BY <1>5, <3>1, OpenFilesSession, SessionFailsSession, OpenSessionSession DEF Quiet
  <2>5. QED BY <2>3, <2>4 DEF Sessions
<1>6. QED
  BY <1>1, <1>2, <1>3, <1>4, <1>5, NextSplit DEF Idle

(* The books of a node: how often the control has written it, how often it *)
(* is in the file of its part, and how often it was exchanged.             *)
Out(n) == Count(output, n)
Mib(n) == Count(partMib[PartOf(n)], n)
Got(n) == Count(gathered, n)

Books(n) ==
    /\ PartOf(n) \in Held \cup Sent => Out(n) = 0
    /\ PartOf(n) \in Pending => Got(n) = 0
    /\ PartOf(n) \notin Pending => /\ Got(n) <= Out(n) + Mib(n)
                                   /\ PartOf(n) \notin died => Got(n) = Out(n) + Mib(n)
    /\ ~killed => Out(n) + Mib(n) <= 1
    /\ PartOf(n) \notin Pending \cup Busy \cup died \cup unopened => Out(n) + Mib(n) >= 1

AllBooks == \A n \in Nodes : Books(n)

LEMMA BooksType ==
    ASSUME TypeInv, NEW n \in Nodes
    PROVE  Out(n) \in Nat /\ Mib(n) \in Nat /\ Got(n) \in Nat /\ PartOf(n) \in Parts
<1>1. PartOf(n) \in Parts
  BY PartOfType
<1>2. output \in Seq(Nodes) /\ gathered \in Seq(Nodes) /\ partMib[PartOf(n)] \in Seq(Nodes)
  BY <1>1, NodeTypes
<1>3. QED BY <1>1, <1>2, CountType DEF Out, Mib, Got

LEMMA BooksKept ==
    ASSUME NEW n \in Nodes, Books(n), Out(n)' = Out(n), Mib(n)' = Mib(n), Got(n)' = Got(n),
           PartOf(n) \in Held' \cup Sent' => PartOf(n) \in Held \cup Sent,
           PartOf(n) \in Pending' <=> PartOf(n) \in Pending,
           PartOf(n) \in Busy' <=> PartOf(n) \in Busy,
           PartOf(n) \in died' <=> PartOf(n) \in died,
           PartOf(n) \in unopened => PartOf(n) \in unopened',
           killed' = killed
    PROVE  Books(n)'
BY DEF Books

LEMMA SameFile ==
    ASSUME NEW n, UNCHANGED partMib[PartOf(n)] PROVE Mib(n)' = Mib(n)
BY DEF Mib, Count

LEMMA SameOutput == ASSUME NEW n, UNCHANGED output PROVE Out(n)' = Out(n)
BY DEF Out, Count

LEMMA SameGathered == ASSUME NEW n, UNCHANGED gathered PROVE Got(n)' = Got(n)
BY DEF Got, Count

LEMMA NextBooks ==
    ASSUME Flow, Flow', Exchange, Files, Dealt, Sessions, Sessions', AllBooks, [Next]_vars
    PROVE  AllBooks'
<1>0. /\ TypeInv /\ partMib \in [Parts -> Seq(Nodes)] /\ output \in Seq(Nodes)
      /\ \A n \in Nodes : PartOf(n) \in Parts
      /\ \A t \in Workers : open[t] \in Seq(Nodes)
  BY NodeTypes, PartOfType DEF Flow, Apart
<1>1. CASE Idle
  <2>1. UNCHANGED <<output, partMib, gathered, died, unopened, killed>>
    BY <1>1 DEF Idle, ListNode, StartThreads, Join, GetTask, PutUndef, vars, control, history
  <2>2. Same
    BY <1>1, IdlePlaces
  <2>3. QED
    BY <2>1, <2>2, BooksKept, SameFile, SameOutput, SameGathered DEF AllBooks, Same, Held
<1>2. ASSUME NEW t \in Workers, SessionFails(t) \/ Unlink(t) PROVE AllBooks'
  <2>1. UNCHANGED <<output, partMib, gathered, died, killed>> /\ unopened \subseteq unopened'
    BY <1>2 DEF SessionFails, Unlink, control, history
  <2>2. Pending' = Pending /\ Busy' = Busy /\ Held' = Held /\ Sent' = Sent
    BY <1>2, CollectorPlaces, QuietPlaces DEF Quiet
  <2>3. QED
    BY <2>1, <2>2, BooksKept, SameFile, SameOutput, SameGathered DEF AllBooks
<1>3. ASSUME NEW t \in Workers, PutResult(t) PROVE AllBooks'
  <2>1. UNCHANGED <<output, partMib, gathered, died, killed, unopened>>
    BY <1>3 DEF PutResult, control, history
  <2>2. Pending' = Pending /\ Busy' = Busy /\ Held' \cup Sent' \subseteq Held \cup Sent
    BY <1>3, PutResultPlaces DEF Held
  <2>3. QED
    BY <2>1, <2>2, BooksKept, SameFile, SameOutput, SameGathered DEF AllBooks
<1>4. CASE TakeResult
  <2>1. /\ UNCHANGED <<gathered, died, killed, unopened>>
        /\ Pending' = Pending /\ Busy' = Busy /\ Held' = Held /\ Sent' = Sent \ {Head(results)}
    BY <1>4, TakePlaces DEF TakeResult, history, Held
  <2>2. CASE Head(results) = Undef
    <3>1. UNCHANGED <<output, partMib>>
      BY <1>4, <2>2 DEF TakeResult
    <3>2. QED
      BY <2>1, <3>1, BooksKept, SameFile, SameOutput, SameGathered DEF AllBooks
  <2>3. CASE Head(results) # Undef
    <3>0. PICK p : p = Head(results)
      OBVIOUS
    <3>1. /\ p \in Sent /\ p \in Parts /\ p \notin Held /\ partMib[p] \in Seq(Nodes)
      BY <1>0, <1>4, <2>3, <3>0, TakePlaces DEF Sent, Flow, SentOnce
    <3>2. /\ output' = output \o partMib[p] /\ partMib' = [partMib EXCEPT ![p] = <<>>]
      BY <1>4, <2>3, <3>0 DEF TakeResult
    <3>3. \A n : Count(output', n) = Count(output, n) + Count(partMib[p], n)
      BY <1>0, <3>1, <3>2, CountCat
    <3>4. ASSUME NEW n \in Nodes PROVE Books(n)'
      <4>0. /\ Books(n) /\ Got(n)' = Got(n) /\ Out(n) \in Nat /\ Mib(n) \in Nat /\ Got(n) \in Nat
            /\ PartOf(n) \in Parts /\ Out(n)' = Out(n) + Count(partMib[p], n)
        <5>1. Out(n)' = Count(output', n)
          BY DEF Out, Count
        <5>2. QED BY <1>0, <2>1, <3>3, <5>1, BooksType, SameGathered DEF AllBooks, Out
      <4>1. CASE PartOf(n) # p
        <5>1. Mib(n)' = Mib(n)
          BY <1>0, <3>1, <3>2, <4>0, <4>1, SameFile
        <5>2. Count(partMib[p], n) = 0
          <6>1. ~\E k \in DOMAIN partMib[p] : partMib[p][k] = n
            BY <3>1, <4>1 DEF Files, FileOf
          <6>2. Count(partMib[p], n) \in Nat /\ ~(Count(partMib[p], n) >= 1)
            BY <3>1, <6>1, CountType
          <6>3. QED BY <6>2
        <5>3. Out(n)' = Out(n)
          BY <4>0, <5>2
        <5>4. QED BY <2>1, <4>0, <5>1, <5>3, BooksKept
      <4>2. CASE PartOf(n) = p
        <5>1. Count(partMib[p], n) = Mib(n)
          BY <4>2 DEF Mib
        <5>2. Mib(n)' = 0
          <6>1. partMib'[PartOf(n)] = <<>>
            BY <1>0, <3>1, <3>2, <4>2
          <6>2. Mib(n)' = Count(<<>>, n)
            BY <6>1 DEF Mib, Count
          <6>3. QED BY <6>2, CountEmpty
        <5>3. Out(n)' + Mib(n)' = Out(n) + Mib(n)
          BY <4>0, <5>1, <5>2
        <5>4. PartOf(n) \notin Held' \cup Sent'
          BY <2>1, <3>0, <3>1, <4>2
        <5>5. QED BY <2>1, <4>0, <5>3, <5>4 DEF Books
      <4>3. QED BY <4>1, <4>2
    <3>5. QED BY <3>4 DEF AllBooks
  <2>4. QED BY <2>2, <2>3
<1>5. ASSUME NEW t \in Workers, OpenFiles(t) \/ CollectorDies(t) PROVE AllBooks'
  <2>1. /\ UNCHANGED <<output, gathered, killed, unopened>>
        /\ died' = IF OpenFiles(t) THEN died ELSE died \cup {task[t]}
        /\ partMib' \in {partMib, [partMib EXCEPT ![task[t]] = <<>>]}
        /\ OpenFiles(t) => partMib' = [partMib EXCEPT ![task[t]] = <<>>]
    <3>1. ~(OpenFiles(t) /\ CollectorDies(t))
      <4>1. tpc \in [Workers -> Steps]
        BY <1>0, NodeTypes
      <4>2. QED BY <4>1 DEF OpenFiles, CollectorDies, Goes, At
    <3>2. QED BY <1>5, <3>1 DEF OpenFiles, CollectorDies, control, history
  <2>2. /\ task[t] \in Parts /\ task[t] \in Pending /\ Pending' = Pending \ {task[t]}
        /\ Busy' = IF OpenFiles(t) THEN Busy \cup {task[t]} ELSE Busy
        /\ Held' = Held /\ Sent' = Sent
    <3>1. ~OpenFiles(t) => CollectorDies(t)
      BY <1>5
    <3>2. QED BY <1>5, <3>1, CollectorPlaces, QuietPlaces DEF Quiet
  <2>3. ASSUME NEW n \in Nodes PROVE Books(n)'
    <3>0. /\ Books(n) /\ Got(n)' = Got(n) /\ Out(n)' = Out(n) /\ PartOf(n) \in Parts
          /\ Out(n) \in Nat /\ Mib(n) \in Nat /\ Got(n) \in Nat
      BY <1>0, <2>1, BooksType, SameGathered, SameOutput DEF AllBooks
    <3>1. CASE PartOf(n) # task[t]
      <4>1. Mib(n)' = Mib(n)
        BY <1>0, <2>1, <2>2, <3>0, <3>1, SameFile
      <4>2. QED BY <2>1, <2>2, <3>0, <3>1, <4>1, BooksKept
    <3>2. CASE PartOf(n) = task[t]
      <4>1. Out(n) = 0 /\ Got(n) = 0
        BY <2>2, <3>0, <3>2 DEF Books, Held
      <4>2. Mib(n)' = 0 \/ (~OpenFiles(t) /\ Mib(n)' = Mib(n))
        <5>1. CASE partMib' = [partMib EXCEPT ![task[t]] = <<>>]
          <6>1. partMib'[PartOf(n)] = <<>>
            BY <1>0, <2>2, <3>2, <5>1
          <6>2. Mib(n)' = Count(<<>>, n)
            BY <6>1 DEF Mib, Count
          <6>3. QED BY <6>2, CountEmpty
        <5>2. CASE ~OpenFiles(t) /\ partMib' = partMib
          BY <5>2, SameFile
        <5>3. QED BY <2>1, <5>1, <5>2
      <4>3. PartOf(n) \in Pending' \cup Busy' \cup died'
        BY <2>1, <2>2, <3>2
      <4>4. PartOf(n) \notin Pending' /\ (PartOf(n) \in died' \/ OpenFiles(t))
        BY <2>1, <2>2, <3>2
      <4>5. QED BY <2>1, <3>0, <4>1, <4>2, <4>3, <4>4 DEF Books
    <3>3. QED BY <3>1, <3>2
  <2>4. QED BY <2>3 DEF AllBooks
<1>6. ASSUME NEW t \in Workers, OpenSession(t) \/ Finish(t) PROVE AllBooks'
  <2>1. /\ UNCHANGED <<output, killed, unopened, died>> /\ tpc[t] = "collect" /\ task' = task
    BY <1>6 DEF OpenSession, Finish, control, history, Goes, At
  <2>2. /\ task[t] \in Parts /\ task[t] \in Busy /\ Pending' = Pending
        /\ Busy' = IF Finish(t) THEN Busy \ {task[t]} ELSE Busy
        /\ Held' = Held /\ Sent' = Sent /\ cpc # "list"
    <3>1. ~Finish(t) => OpenSession(t)
      BY <1>6
    <3>2. QED BY <1>6, <3>1, CollectorPlaces, QuietPlaces DEF Quiet
  <2>3. task[t] \notin Pending
    BY <2>2, Disjoint DEF Flow
  <2>4. PICK out \in Seq(Nodes) :
           /\ Exchanges(t, out)
           /\ Finish(t) => out = open[t]
           /\ ~Finish(t) => OpenSession(t)
    <3>1. <<>> \in Seq(Nodes)
      OBVIOUS
    <3>2. QED BY <1>6, <3>1, Opens, Finishes
  <2>5. /\ partMib'[task[t]] = partMib[task[t]] \o out
        /\ \A p \in Parts : p # task[t] => partMib'[p] = partMib[p]
        /\ \A n : Count(partMib'[task[t]], n) = Count(partMib[task[t]], n) + Count(out, n)
        /\ \A n : Count(gathered', n) = Count(gathered, n) + Count(out, n)
        /\ \A n : PartOf(n) # task[t] => Count(out, n) = 0
    BY <1>0, <2>2, <2>4, ExchangedFile
  <2>6. ASSUME NEW n \in Nodes PROVE Books(n)'
    <3>0. /\ Books(n) /\ Out(n)' = Out(n) /\ PartOf(n) \in Parts
          /\ Out(n) \in Nat /\ Mib(n) \in Nat /\ Got(n) \in Nat /\ Count(out, n) \in Nat
      BY <1>0, <2>1, BooksType, SameOutput, CountType DEF AllBooks
    <3>1. Got(n)' = Got(n) + Count(out, n)
      <4>1. Got(n)' = Count(gathered', n)
        BY DEF Got, Count
      <4>2. QED BY <2>5, <4>1 DEF Got
    <3>2. CASE PartOf(n) # task[t]
      <4>1. Mib(n)' = Mib(n) /\ Got(n)' = Got(n)
        BY <2>5, <3>0, <3>1, <3>2, SameFile
      <4>2. QED BY <2>1, <2>2, <3>0, <3>2, <4>1, BooksKept
    <3>3. CASE PartOf(n) = task[t]
      <4>1. Mib(n)' = Mib(n) + Count(out, n)
        <5>1. Mib(n)' = Count(partMib'[task[t]], n)
          BY <3>3 DEF Mib, Count
        <5>2. QED BY <2>5, <3>3, <5>1 DEF Mib
      <4>2. Out(n) = 0 /\ Got(n) <= Mib(n) /\ (PartOf(n) \notin died => Got(n) = Mib(n))
        BY <2>2, <2>3, <3>0, <3>3 DEF Books, Held
      <4>3. CASE Finish(t)
        <5>1. CollectedOf(t, n) = Mib(n)'
          BY <2>4, <3>3, <4>1, <4>3 DEF CollectedOf, Mib
        <5>2. ~killed => Mib(n)' <= 1
          BY <2>1, <5>1 DEF Sessions, Session
        <5>3. task[t] \notin unopened => Mib(n)' >= 1
          <6>1. InFile(n)
            BY <2>2, <3>3 DEF Dealt, Nodes
          <6>2. PICK k \in DOMAIN MyNodes(t) : MyNodes(t)[k] = n
            BY <3>3, <6>1 DEF InFile, MyNodes
          <6>3. k \in 1..i[t]
            <7>1. i[t] = Len(MyNodes(t)) /\ MyNodes(t) \in Seq(Nodes)
              BY <2>1, <4>3, SessionsOfPart DEF Finish
            <7>2. QED BY <6>2, <7>1
          <6>4. QED BY <2>1, <5>1, <6>2, <6>3 DEF Sessions, Session
        <5>4. QED BY <2>1, <2>2, <2>3, <3>0, <3>1, <3>3, <4>1, <4>2, <5>2, <5>3 DEF Books
      <4>4. CASE ~Finish(t)
        <5>1. OpenSession(t) /\ tpc' = tpc
          BY <2>4, <4>4 DEF OpenSession
        <5>2. ~killed => Mib(n)' <= 1
          <6>1. ~killed' => CollectedOf(t, n)' <= 1
            BY <2>1, <5>1 DEF Sessions, Session
          <6>2. CollectedOf(t, n)' = Mib(n)' + Count(open'[t], n)
            BY <2>1, <3>3 DEF CollectedOf, Mib, Count
          <6>3. Count(open'[t], n) \in Nat
            <7>1. open'[t] \in Seq(Nodes)
              BY DEF Flow, Apart, TypeInv, TypeOK
            <7>2. QED BY <7>1, CountType
          <6>4. QED BY <2>1, <3>0, <4>1, <6>1, <6>2, <6>3
        <5>3. PartOf(n) \in Busy'
          BY <2>2, <3>3, <4>4
        <5>4. QED BY <2>1, <2>2, <2>3, <3>0, <3>1, <3>3, <4>1, <4>2, <5>2, <5>3 DEF Books
      <4>5. QED BY <4>3, <4>4
    <3>4. QED BY <3>2, <3>3
  <2>7. QED BY <2>6 DEF AllBooks
<1>7. CASE KillAndRestart
  <2>1. /\ output' = <<>> /\ gathered' = <<>> /\ killed' /\ Pending' = Parts
    BY <1>7, KillPlaces DEF KillAndRestart
  <2>2. ASSUME NEW n \in Nodes PROVE Books(n)'
    <3>1. Out(n)' = Count(<<>>, n) /\ Got(n)' = Count(<<>>, n) /\ PartOf(n) \in Pending'
      BY <1>0, <2>1 DEF Out, Got, Count
    <3>2. QED BY <2>1, <3>1, CountEmpty DEF Books
  <2>3. QED BY <2>2 DEF AllBooks
<1>8. QED
  BY <1>1, <1>2, <1>3, <1>4, <1>5, <1>6, <1>7, NextSplit DEF Quiet

-----------------------------------------------------------------------------
Collecting == Marking /\ Exchange /\ Files /\ Dealt /\ Sessions /\ AllBooks

LEMMA InitCollecting == Init => Collecting
<1> SUFFICES ASSUME Init PROVE Collecting
  OBVIOUS
<1>1. Marking /\ Apart
  BY InitMarking DEF Marking, Flow
<1>2. Exchange
  BY <1>1 DEF Exchange, Init, Own
<1>3. Files /\ Dealt /\ Sessions
  <2>1. DOMAIN <<>> = {} /\ 1..0 = {}
    OBVIOUS
  <2>2. QED BY <2>1 DEF Init, Files, FileOf, Dealt, Sessions, Session
<1>4. ASSUME NEW n \in Nodes PROVE Books(n)
  <2>1. PartOf(n) \in Parts /\ PartOf(n) \in Pending
    BY PartOfType DEF Init, Pending
  <2>2. Out(n) = 0 /\ Mib(n) = 0 /\ Got(n) = 0
    BY <2>1, CountEmpty DEF Init, Out, Mib, Got
  <2>3. QED BY <2>1, <2>2 DEF Books
<1>5. QED BY <1>1, <1>2, <1>3, <1>4 DEF Collecting, AllBooks

LEMMA NextCollecting == Collecting /\ [Next]_vars => Collecting'
<1> SUFFICES ASSUME Collecting, [Next]_vars PROVE Collecting'
  OBVIOUS
<1>1. Marking' /\ Exchange' /\ Flow /\ Flow'
  BY NextMarking, NextExchange DEF Collecting, Marking
<1>2. Files' /\ Dealt' /\ Sessions'
  BY <1>1, NextFiles, NextDealt, NextSessions DEF Collecting
<1>3. AllBooks'
  BY <1>1, <1>2, NextBooks DEF Collecting
<1>4. QED BY <1>1, <1>2, <1>3 DEF Collecting

(* When the control ends its output holds what its collectors gathered,    *)
(* whichever way the results and undefs of the threads were mixed in the   *)
(* queue and whatever runs were killed before: for every number of nodes,  *)
(* threads and sessions (snmp_task_control.pl:136-144, 160-161).           *)
THEOREM OutputComplete == Spec => []OutputIsComplete
<1>1. Collecting => OutputIsComplete
  <2> SUFFICES ASSUME Collecting, cpc = "end", NEW n \in Nodes
               PROVE  /\ Count(output, n) >= Count(gathered, n)
                      /\ died = {} => Count(output, n) = Count(gathered, n)
                      /\ ~killed => Count(output, n) <= 1
                      /\ died \cup unopened = {} => Count(output, n) >= 1
    BY DEF OutputIsComplete
  <2>1. Held = {} /\ Sent = {} /\ Pending = {} /\ Busy = {}
    BY AllThrough DEF Collecting, Held
  <2>2. /\ Books(n) /\ Out(n) \in Nat /\ Got(n) \in Nat /\ PartOf(n) \in Parts
    BY BooksType DEF Collecting, AllBooks, Marking, Flow, Apart
  <2>3. Mib(n) = 0
    <3>1. partMib[PartOf(n)] = <<>>
      BY <2>1, <2>2 DEF Collecting, Files, FileOf
    <3>2. QED BY <3>1, CountEmpty DEF Mib
  <2>4. QED BY <2>1, <2>2, <2>3 DEF Books, Out, Got
<1>2. QED BY <1>1, InitCollecting, NextCollecting, PTL DEF Spec
=============================================================================
