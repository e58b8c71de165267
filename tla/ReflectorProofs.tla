-------------------------- MODULE ReflectorProofs --------------------------
(***************************************************************************)
(* Proofs about Reflector for every number of files, times and failures:   *)
(* no file is moved away unreflected or reflected twice by one process,    *)
(* whatever a killed process leaves running, the control time is the       *)
(* earliest of all that were applied unless two scripts have overlapped,   *)
(* and the process does what Reflection promises.                          *)
(***************************************************************************)
EXTENDS Reflector, FiniteSetTheorems, FunctionTheorems, WellFoundedInduction, TLAPS

Times == 1..Null

LEMMA Constants == /\ NumFiles \in Nat /\ LastTime \in Nat \ {0} /\ MaxFaults \in Nat
                   /\ Null = LastTime + 1 /\ Times \subseteq Nat /\ 1..LastTime \subseteq Times
                   /\ Files = 1..NumFiles /\ Files \subseteq Nat
                   /\ Lives = 0..MaxFaults /\ Lives \subseteq Nat /\ 0 \in Lives
BY ReflectorAssumption DEF Null, Times, Files, Lives
-----------------------------------------------------------------------------
(* The minimum of a set of numbers.                                        *)
LEMMA MinIsLeast == ASSUME NEW S \in SUBSET Nat, S # {}
                    PROVE  Min(S) \in S /\ \A y \in S : Min(S) <= y
<1>1. PICK x \in S : \A y \in S : ~(<<y, x>> \in OpToRel(<, Nat))
  BY WFMin, NatLessThanWellFounded
<1>2. ASSUME NEW y \in S, y < x PROVE FALSE
  <2>1. <<y, x>> \in {ss \in Nat \X Nat : ss[1] < ss[2]}
    BY <1>2
  <2>2. OpToRel(<, Nat) = {ss \in Nat \X Nat : ss[1] < ss[2]}
    BY Zenon DEF OpToRel
  <2>3. QED BY <2>1, <2>2, <1>1, Zenon
<1>3. \A y \in S : x <= y
  BY <1>2
<1>4. QED BY <1>3 DEF Min

LEMMA LeastIsMin == ASSUME NEW S \in SUBSET Nat, NEW x \in S, \A y \in S : x <= y
                    PROVE  Min(S) = x
<1>1. Min(S) \in S /\ Min(S) <= x
  BY MinIsLeast
<1>2. Min(S) \in Nat /\ x \in Nat /\ x <= Min(S)
  BY <1>1
<1>3. QED BY <1>1, <1>2

(* The listing of a directory: its files, no more than there are.          *)
LEMMA ListingType == ASSUME NEW S \in SUBSET Files, NEW s \in InOrder(S)
                     PROVE  /\ s \in Seq(Files) /\ Len(s) <= NumFiles /\ ToSet(s) \subseteq S
                            /\ Len(s) \in Nat
                            /\ S # {} => Len(s) >= 1
<1>1. /\ IsFiniteSet(S) /\ Cardinality(S) \in Nat /\ Cardinality(S) <= NumFiles
      /\ S # {} => Cardinality(S) # 0
  <2>1. IsFiniteSet(Files) /\ Cardinality(Files) = NumFiles
    BY Constants, FS_Interval
  <2>2. IsFiniteSet(S) /\ Cardinality(S) <= NumFiles
    BY <2>1, FS_Subset
  <2>3. QED BY <2>2, FS_CardinalityType, FS_EmptySet
<1>2. s \in [1..Cardinality(S) -> S]
  BY DEF InOrder
<1>3. s \in Seq(Files) /\ Len(s) = Cardinality(S)
  BY <1>1, <1>2
<1>4. ToSet(s) \subseteq S
  BY <1>2 DEF ToSet
<1>5. QED BY <1>1, <1>3, <1>4

LEMMA MinOfUnion == ASSUME NEW S \in SUBSET Nat, S # {}, NEW T \in SUBSET Nat
                    PROVE  Min({Min(S)} \cup T) = Min(S \cup T)
<1>1. Min(S) \in S /\ (\A y \in S : Min(S) <= y) /\ Min(S) \in Nat
  BY MinIsLeast
<1> DEFINE m == Min(S)  U == {m} \cup T  n == Min(U)
<1>2. U \in SUBSET Nat /\ U # {}
  BY <1>1
<1>3. n \in U /\ \A y \in U : n <= y
  BY <1>2, MinIsLeast
<1>4. m \in Nat /\ m \in S /\ (\A y \in S : m <= y) /\ S \subseteq Nat /\ T \subseteq Nat
  BY <1>1
<1> HIDE DEF m, n
<1>5. n \in S \cup T /\ \A y \in S \cup T : n <= y
  BY <1>3, <1>4
<1>6. Min(S \cup T) = n
  BY <1>4, <1>5, LeastIsMin
<1>7. QED BY <1>6 DEF n, m

-----------------------------------------------------------------------------
(* While the list is merged the merged file is a prefix of it, and then    *)
(* the list itself; the script of the present life runs while the process  *)
(* waits for it.                                                           *)
Merging == /\ pc = "merge" => /\ at <= Len(m_vCsvInputFiles)
                              /\ at # 1 => /\ Len(dat) = at - 1
                                           /\ \A k \in 1..(at - 1) : dat[k] = m_vCsvInputFiles[k]
           /\ pc = "scan" => at = 1
           /\ pc \in {"oc", "wait"} => at = 1 /\ m_vCsvInputFiles # <<>>
           /\ pc = "oc" => dat = m_vCsvInputFiles
           /\ pc = "move" => at <= Len(m_vCsvInputFiles)

Waiting == /\ \A l \in Lives : /\ script[l] # "none" => l <= life
                               /\ script[l] # "read" => earliest[l] = 0
           /\ script[life] # "none" <=> pc = "wait"

TInv == TypeOK /\ Len(m_vCsvInputFiles) <= NumFiles /\ Merging /\ Waiting

LEMMA InitTInv == Init => TInv
<1> SUFFICES ASSUME Init PROVE TInv
  OBVIOUS
<1>1. <<>> \in Seq(Files) /\ Len(<<>>) = 0 /\ Len(<<>>) <= NumFiles /\ 1 \in 1..(NumFiles + 1)
      /\ 0 \in 0..NumFiles /\ 0 \in 0..MaxFaults /\ 0 \in 0..LastTime
  BY Constants
<1>2. TypeOK
  <2>1. /\ script \in [Lives -> {"none", "begun", "read"}]
        /\ records \in [Lives -> SUBSET Files] /\ earliest \in [Lives -> 0..LastTime]
    BY <1>1 DEF Init
  <2>2. 0 \in 0..0 /\ controlTime \in 1..Null /\ first \in 1..Null
    BY DEF Init
  <2>3. dat \in Seq(Files) /\ Len(dat) <= NumFiles /\ m_vCsvInputFiles \in Seq(Files)
    BY <1>1 DEF Init
  <2>4. QED BY <1>1, <2>1, <2>2, <2>3 DEF Init, TypeOK
<1>3. Merging
  BY DEF Init, Merging
<1>4. Waiting
  BY Constants DEF Init, Waiting
<1>5. QED BY <1>1, <1>2, <1>3, <1>4 DEF Init, TInv

(* What the loops of the merge and the move find.                          *)
LEMMA Counters ==
    ASSUME TInv
    PROVE  /\ at \in Nat \ {0} /\ Len(m_vCsvInputFiles) \in Nat /\ Len(dat) \in Nat
           /\ m_vCsvInputFiles \in Seq(Files) /\ dat \in Seq(Files)
           /\ life \in Lives /\ life \in Nat
           /\ pc \in {"merge", "move"} =>
                 /\ at <= Len(m_vCsvInputFiles) /\ at \in 1..NumFiles /\ at + 1 \in 1..(NumFiles + 1)
                 /\ CsvFile \in Files
<1>1. /\ at \in Nat \ {0} /\ m_vCsvInputFiles \in Seq(Files) /\ dat \in Seq(Files)
      /\ Len(m_vCsvInputFiles) <= NumFiles
  BY Constants DEF TInv, TypeOK
<1>2. Len(m_vCsvInputFiles) \in Nat /\ Len(dat) \in Nat
  BY <1>1
<1>3. ASSUME pc \in {"merge", "move"} PROVE at <= Len(m_vCsvInputFiles)
  BY <1>3 DEF TInv, Merging
<1>4. life \in Lives /\ life \in Nat
  BY Constants DEF TInv, TypeOK
<1>5. QED BY <1>1, <1>2, <1>3, <1>4, Constants DEF CsvFile

(* The merged file grows by the file the loop is at.                       *)
LEMMA MergedGrows ==
    ASSUME TInv, pc = "merge", NEW d, d = Append(MergedFile, CsvFile)
    PROVE  /\ d \in Seq(Files) /\ Len(d) = at /\ \A k \in 1..at : d[k] = m_vCsvInputFiles[k]
           /\ Len(d) <= NumFiles
<1> DEFINE f == CsvFile
<1>1. at \in Nat \ {0} /\ f \in Files /\ at <= NumFiles
  BY Counters, Constants
<1>2. MergedFile \in Seq(Files) /\ Len(MergedFile) = at - 1
  <2>1. CASE at = 1
    BY <2>1 DEF MergedFile, NewFile
  <2>2. CASE at # 1
    BY <2>2, Counters DEF MergedFile, TInv, Merging
  <2>3. QED BY <2>1, <2>2
<1>3. \A k \in 1..(at - 1) : MergedFile[k] = m_vCsvInputFiles[k]
  <2>1. CASE at = 1
    BY <2>1
  <2>2. CASE at # 1
    BY <2>2 DEF MergedFile, TInv, Merging
  <2>3. QED BY <2>1, <2>2
<1> DEFINE m == MergedFile
<1>4. d = Append(m, f)
  OBVIOUS
<1> HIDE DEF m, f
<1>5. d \in Seq(Files) /\ Len(d) = at /\ d[at] = f /\ \A k \in 1..(at - 1) : d[k] = m[k]
  <2>1. m \in Seq(Files) /\ Len(m) = at - 1
    BY <1>2 DEF m
  <2>2. QED BY <1>1, <1>4, <2>1
<1>6. \A k \in 1..at : k = at \/ k \in 1..(at - 1)
  BY <1>1
<1>7. QED BY <1>1, <1>2, <1>3, <1>5, <1>6, Constants DEF m, f, CsvFile

(* Before the file of the loop is added.                                   *)
LEMMA MergedShort ==
    ASSUME TInv, pc = "merge"
    PROVE  MergedFile \in Seq(Files) /\ Len(MergedFile) <= NumFiles
<1>1. <<>> \in Seq(Files) /\ Len(<<>>) = 0
  OBVIOUS
<1>2. dat \in Seq(Files) /\ Len(dat) <= NumFiles /\ 0 <= NumFiles
  BY Constants DEF TInv, TypeOK
<1>3. QED BY <1>1, <1>2 DEF MergedFile, NewFile

(* The script ends in its type.                                            *)
LEMMA ReturnsType ==
    ASSUME TypeOK, NEW l \in Lives, Returns(l)
    PROVE  /\ script' \in [Lives -> {"none", "begun", "read"}]
           /\ records' \in [Lives -> SUBSET Files] /\ earliest' \in [Lives -> 0..LastTime]
           /\ records[l] \subseteq Files
           /\ pc' \in {"move", pc}
<1>1. 0 \in 0..LastTime
  BY Constants
<1>2. QED BY <1>1 DEF TypeOK, Returns

(* The time the script will set is one of its records'.                    *)
LEMMA EarlierTimes ==
    ASSUME TypeOK, NEW l \in Lives
    PROVE  /\ {endTime[f] : f \in records[l]} \subseteq 1..LastTime
           /\ {endTime[f] : f \in records[l]} \subseteq Nat
           /\ NeedToBeUpdated(l) \subseteq {endTime[f] : f \in records[l]}
           /\ NeedToBeUpdated(l) # {} =>
                 /\ GetEarliestControlTime(NeedToBeUpdated(l)) \in NeedToBeUpdated(l)
                 /\ \A t \in NeedToBeUpdated(l) : GetEarliestControlTime(NeedToBeUpdated(l)) <= t
<1> DEFINE E == {endTime[f] : f \in records[l]}
<1>1. E \subseteq 1..LastTime
  BY DEF TypeOK
<1>2. 1..LastTime \subseteq Nat
  BY Constants
<1>3. NeedToBeUpdated(l) \subseteq E
  BY DEF NeedToBeUpdated
<1> DEFINE N == NeedToBeUpdated(l)
<1> HIDE DEF E, N
<1>4. N \in SUBSET Nat
  BY <1>1, <1>2, <1>3 DEF N
<1>5. N # {} => Min(N) \in N /\ \A t \in N : Min(N) <= t
  BY <1>4, MinIsLeast
<1>6. QED BY <1>1, <1>2, <1>3, <1>5 DEF E, N, GetEarliestControlTime

LEMMA NextType == TInv /\ [Next]_vars => TypeOK' /\ Len(m_vCsvInputFiles') <= NumFiles
<1> SUFFICES ASSUME TInv, [Next]_vars PROVE TypeOK' /\ Len(m_vCsvInputFiles') <= NumFiles
  OBVIOUS
<1>0. /\ TypeOK /\ Len(m_vCsvInputFiles) <= NumFiles
      /\ \A S : <<>> \in Seq(S)
      /\ Len(<<>>) = 0 /\ 0 <= NumFiles /\ 1 \in 1..(NumFiles + 1)
  BY Constants DEF TInv
<1>f. /\ UNCHANGED faults => life \in 0..faults'
      /\ Fault => faults' \in 0..MaxFaults /\ life \in 0..faults' /\ life + 1 \in 0..faults'
  <2>1. life \in 0..faults /\ faults \in 0..MaxFaults /\ MaxFaults \in Nat
    BY <1>0, Constants DEF TypeOK
  <2>2. QED BY <2>1 DEF Fault
<1> USE DEF dirs, round, stop, scripts, left, alarms, env
<1>1. CASE PublishCsv
  <2>1. published + 1 \in Files /\ published + 1 \in 0..NumFiles
    BY <1>0, <1>1, Constants DEF PublishCsv, TypeOK
  <2>2. QED BY <1>0, <1>f, <1>1, <2>1 DEF PublishCsv, TypeOK
<1>2. CASE Start
  BY <1>0, <1>f, <1>2, Constants DEF Start, TypeOK
<1>3. CASE Initialize \/ OcFails \/ MoveFails \/ Sigterm
  <2>1. faults' \in 0..MaxFaults /\ life \in 0..faults'
    BY <1>0, <1>f, <1>3 DEF Initialize, OcFails, MoveFails, Sigterm, TypeOK
  <2>2. /\ pc' \in {"off", "hung", "starting", "initialize", "check", "poll", "scan", "merge",
                    "oc", "wait", "move", "moveDat", "delete"}
        /\ pending' \in BOOLEAN /\ m_userStop' \in BOOLEAN
    BY <1>0, <1>3 DEF Initialize, OcFails, MoveFails, Sigterm, AfterFailure, TypeOK
  <2>3. UNCHANGED <<dirs, round, scripts, left, alarms, mine, published>>
    BY <1>3 DEF Initialize, OcFails, MoveFails, Sigterm
  <2>4. QED BY <1>0, <2>1, <2>2, <2>3 DEF TypeOK
<1>4. CASE CheckUserStopSignal
  BY <1>0, <1>f, <1>4 DEF CheckUserStopSignal, Delivered, TypeOK
<1>5. CASE PollCsvFile \/ PollFails
  <2>1. faults' \in 0..MaxFaults /\ life \in 0..faults'
    BY <1>0, <1>f, <1>5 DEF PollCsvFile, PollFails, TypeOK
  <2>2. QED BY <1>0, <1>5, <2>1 DEF PollCsvFile, PollFails, TypeOK
<1>6. CASE Readdir
  <2>1. PICK S \in Found : m_vCsvInputFiles' \in InOrder(S) /\ pc' \in {"check", "merge"}
    BY <1>6 DEF Readdir
  <2>2. S \in SUBSET Files
    BY <1>0, <2>1 DEF Found, TypeOK
  <2>3. m_vCsvInputFiles' \in Seq(Files) /\ Len(m_vCsvInputFiles') <= NumFiles
    BY <2>1, <2>2, ListingType
  <2>4. QED BY <1>0, <1>f, <1>6, <2>1, <2>3 DEF Readdir, TypeOK
<1>7. CASE Merge
  <2>1. dat' \in Seq(Files) /\ Len(dat') <= NumFiles
    BY <1>7, MergedGrows DEF Merge
  <2>2. at' \in 1..(NumFiles + 1) /\ pc' \in {"merge", "oc"}
    BY <1>7, <1>0, Counters, Constants DEF Merge
  <2>3. QED BY <1>0, <1>f, <1>7, <2>1, <2>2 DEF Merge, TypeOK
<1>8. CASE MergeFails \/ FileIsGone
  <2>1. dat' \in Seq(Files) /\ Len(dat') <= NumFiles /\ pc' = "delete"
    BY <1>0, <1>8, MergedGrows, MergedShort DEF MergeFails, FileIsGone, TypeOK
  <2>2. faults' \in 0..MaxFaults /\ life \in 0..faults'
    BY <1>0, <1>f, <1>8 DEF MergeFails, FileIsGone, TypeOK
  <2>3. QED BY <1>0, <1>8, <2>1, <2>2 DEF MergeFails, FileIsGone, TypeOK
<1>9. ToSet(dat) \subseteq Files
  BY <1>0 DEF ToSet, TypeOK
<1>10. CASE CallOcReflection
  BY <1>0, <1>f, <1>9, <1>10 DEF CallOcReflection, TypeOK
<1>11. CASE Kill
  <2>1. moving' \subseteq Files
    BY <1>0, <1>11, Counters DEF Kill, MovedFile, TypeOK
  <2>2. QED BY <1>0, <1>f, <1>11, <2>1 DEF Kill, TypeOK
<1>12. ASSUME NEW f \in Files, MoveLater(f) PROVE TypeOK' /\ Len(m_vCsvInputFiles') <= NumFiles
  BY <1>0, <1>f, <1>12 DEF MoveLater, TypeOK
<1>13. ASSUME NEW l \in Lives, HandleSummarizeResult(l)
       PROVE  TypeOK' /\ Len(m_vCsvInputFiles') <= NumFiles
  <2>1. earliest' \in [Lives -> 0..LastTime]
    <3> DEFINE e == IF NeedToBeUpdated(l) = {} THEN 0
                    ELSE GetEarliestControlTime(NeedToBeUpdated(l))
    <3>1. e \in 0..LastTime
      BY <1>0, EarlierTimes, Constants
    <3>2. earliest' = [earliest EXCEPT ![l] = e]
      BY <1>13 DEF HandleSummarizeResult
    <3> HIDE DEF e
    <3>3. QED BY <1>0, <3>1, <3>2 DEF TypeOK
  <2>2. script' \in [Lives -> {"none", "begun", "read"}] /\ overlapped' \in BOOLEAN
    BY <1>0, <1>13 DEF HandleSummarizeResult, TypeOK
  <2>3. QED BY <1>0, <1>f, <1>13, <2>1, <2>2 DEF HandleSummarizeResult, TypeOK
<1>14. ASSUME NEW l \in Lives, UpdateControlTime(l) \/ ManageFails(l)
       PROVE  TypeOK' /\ Len(m_vCsvInputFiles') <= NumFiles
  <2>1. /\ script' \in [Lives -> {"none", "begun", "read"}]
        /\ records' \in [Lives -> SUBSET Files] /\ earliest' \in [Lives -> 0..LastTime]
        /\ records[l] \subseteq Files /\ pc' \in {"move", pc}
    BY <1>0, <1>14, ReturnsType DEF UpdateControlTime, ManageFails
  <2>2. controlTime' \in 1..Null /\ applied' \subseteq Files /\ ignored' \subseteq Files
    <3>1. earliest[l] \in 0..LastTime
      BY <1>0 DEF TypeOK
    <3>2. earliest[l] # 0 => earliest[l] \in 1..Null
      BY <3>1, Constants
    <3>3. QED BY <1>0, <1>14, <2>1, <3>2 DEF UpdateControlTime, ManageFails, TypeOK
  <2>3. faults' \in 0..MaxFaults /\ life \in 0..faults'
    BY <1>0, <1>f, <1>14 DEF UpdateControlTime, ManageFails, TypeOK
  <2>4. UNCHANGED <<dirs, round, stop, overlapped, left, endTime, first, mine, published>>
    BY <1>14 DEF UpdateControlTime, ManageFails
  <2>5. QED BY <1>0, <2>1, <2>2, <2>3, <2>4 DEF TypeOK
<1>15. CASE Move
  <2>1. MovedFile \in Files /\ at' \in 1..(NumFiles + 1)
    BY <1>0, <1>15, Counters DEF Move, MovedFile, TypeOK
  <2>2. QED BY <1>0, <1>f, <1>15, <2>1 DEF Move, TypeOK
<1>16. CASE MoveDat \/ DeleteMergedFile
  <2>1. dat' \in {<<>>, dat}
    BY <1>16 DEF MoveDat, DeleteMergedFile
  <2>2. QED BY <1>0, <1>f, <1>16, <2>1 DEF MoveDat, DeleteMergedFile, TypeOK
<1>17. CASE UNCHANGED vars
  BY <1>0, <1>f, <1>17 DEF vars, TypeOK
<1>18. QED
  BY <1>1, <1>2, <1>3, <1>4, <1>5, <1>6, <1>7, <1>8, <1>10, <1>11, <1>12, <1>13, <1>14,
     <1>15, <1>16, <1>17
     DEF Next, Loop, Script, Failure, Hung

LEMMA NextMerging == TInv /\ [Next]_vars => Merging'
<1> SUFFICES ASSUME TInv, [Next]_vars PROVE Merging'
  OBVIOUS
<1>0. Merging /\ Waiting /\ input \subseteq Files /\ present \subseteq Files
  BY DEF TInv, TypeOK
<1> USE DEF round
<1>1. CASE pc' \notin {"scan", "merge", "oc", "wait", "move"}
  BY <1>1 DEF Merging
<1>2. CASE UNCHANGED <<pc, at, m_vCsvInputFiles, dat>>
  BY <1>0, <1>2 DEF Merging
<1>3. CASE PollCsvFile
  BY <1>3 DEF PollCsvFile, Merging
<1>4. CASE Readdir
  <2>1. PICK S \in Found : /\ m_vCsvInputFiles' \in InOrder(S)
                           /\ pc' = IF S = {} THEN "check" ELSE "merge"
    BY <1>4 DEF Readdir
  <2>2. S \in SUBSET Files
    BY <1>0, <2>1 DEF Found
  <2>3. Len(m_vCsvInputFiles') \in Nat /\ (S # {} => Len(m_vCsvInputFiles') >= 1)
    BY <2>1, <2>2, ListingType
  <2>4. at' = 1 /\ pc' \in {"check", "merge"}
    BY <1>0, <1>4, <2>1 DEF Readdir, Merging
  <2>5. QED BY <2>1, <2>3, <2>4 DEF Merging
<1>5. CASE Merge
  <2>1. /\ pc = "merge" /\ UNCHANGED m_vCsvInputFiles
        /\ m_vCsvInputFiles \in Seq(Files) /\ at \in Nat \ {0} /\ at <= Len(m_vCsvInputFiles)
        /\ dat' \in Seq(Files) /\ Len(dat') = at /\ Len(m_vCsvInputFiles) \in Nat
        /\ \A k \in 1..at : dat'[k] = m_vCsvInputFiles[k]
    BY <1>5, Counters, MergedGrows DEF Merge
  <2>2. CASE at = Len(m_vCsvInputFiles)
    <3>1. pc' = "oc" /\ at' = 1
      BY <1>5, <2>2 DEF Merge
    <3>2. dat' = m_vCsvInputFiles /\ m_vCsvInputFiles # <<>>
      BY <2>1, <2>2
    <3>3. QED BY <2>1, <3>1, <3>2 DEF Merging
  <2>3. CASE at # Len(m_vCsvInputFiles)
    <3>1. pc' = "merge" /\ at' = at + 1 /\ at + 1 <= Len(m_vCsvInputFiles)
      BY <1>5, <2>1, <2>3 DEF Merge
    <3>2. at' - 1 = at
      BY <2>1, <3>1
    <3>3. QED BY <2>1, <3>1, <3>2 DEF Merging
  <2>4. QED BY <2>2, <2>3
<1>6. CASE CallOcReflection
  BY <1>0, <1>6 DEF CallOcReflection, Merging
<1>7. ASSUME NEW l \in Lives, UpdateControlTime(l) \/ ManageFails(l) PROVE Merging'
  <2>1. /\ script[l] # "none" /\ UNCHANGED <<at, m_vCsvInputFiles, dat>>
        /\ pc' = IF l = life THEN "move" ELSE pc
    BY <1>7 DEF UpdateControlTime, ManageFails, Reading, Returns
  <2>2. CASE l = life
    <3>1. pc = "wait" /\ pc' = "move" /\ at = 1 /\ m_vCsvInputFiles # <<>>
      BY <1>0, <2>1, <2>2 DEF Waiting, Merging
    <3>2. m_vCsvInputFiles \in Seq(Files)
      BY Counters
    <3>3. Len(m_vCsvInputFiles) >= 1
      BY <3>1, <3>2
    <3>4. QED BY <2>1, <3>1, <3>3 DEF Merging
  <2>3. CASE l # life
    BY <1>2, <2>1, <2>3
  <2>4. QED BY <2>2, <2>3
<1>8. CASE Move
  <2>1. /\ pc = "move" /\ UNCHANGED <<m_vCsvInputFiles, dat>> /\ at \in Nat
        /\ at <= Len(m_vCsvInputFiles) /\ Len(m_vCsvInputFiles) \in Nat
        /\ pc' = "moveDat" \/ (at # Len(m_vCsvInputFiles) /\ pc' = "move" /\ at' = at + 1)
    BY <1>8, Counters DEF Move
  <2>2. QED BY <1>0, <2>1 DEF Merging
<1>9. QED
  <2>1. \/ pc' \notin {"scan", "merge", "oc", "wait", "move"}
        \/ UNCHANGED <<pc, at, m_vCsvInputFiles, dat>>
        \/ PollCsvFile \/ Readdir \/ Merge \/ CallOcReflection \/ Move
        \/ \E l \in Lives : UpdateControlTime(l) \/ ManageFails(l)
    BY DEF Next, Loop, Script, Failure, Hung, PublishCsv, Start, Initialize, Sigterm, Kill,
           MoveLater, CheckUserStopSignal, PollFails, MergeFails, FileIsGone, OcFails,
           HandleSummarizeResult, MoveFails, MoveDat, DeleteMergedFile, AfterFailure, vars
  <2>2. QED BY <2>1, <1>1, <1>2, <1>3, <1>4, <1>5, <1>6, <1>7, <1>8

LEMMA NextWaiting == TInv /\ [Next]_vars => Waiting'
<1> SUFFICES ASSUME TInv, [Next]_vars PROVE Waiting'
  OBVIOUS
<1>0. /\ Waiting /\ life \in Lives /\ life \in Nat /\ Lives \subseteq Nat
      /\ script \in [Lives -> {"none", "begun", "read"}]
      /\ earliest \in [Lives -> 0..LastTime]
  BY Counters, Constants DEF TInv, TypeOK
<1> USE DEF scripts, left
<1>1. CASE UNCHANGED <<script, earliest, life>> /\ (pc' = "wait" <=> pc = "wait")
  BY <1>0, <1>1 DEF Waiting
<1>2. CASE Kill
  <2>1. life' = life + 1 /\ UNCHANGED <<script, earliest>> /\ pc' = "off" /\ life' \in Lives
    BY <1>2, NextType, Constants DEF Kill, TypeOK
  <2>2. script[life + 1] = "none"
    <3>1. life + 1 \in Lives /\ ~(life + 1 <= life)
      BY <1>0, <2>1
    <3>2. \A l \in Lives : script[l] # "none" => l <= life
      BY <1>0 DEF Waiting
    <3>3. QED BY <3>1, <3>2
  <2>3. QED BY <1>0, <2>1, <2>2 DEF Waiting
<1>3. CASE CallOcReflection
  BY <1>0, <1>3 DEF CallOcReflection, Waiting
<1>4. ASSUME NEW l \in Lives, HandleSummarizeResult(l) PROVE Waiting'
  BY <1>0, <1>4 DEF HandleSummarizeResult, Waiting
<1>5. ASSUME NEW l \in Lives, UpdateControlTime(l) \/ ManageFails(l) PROVE Waiting'
  <2>1. /\ script' = [script EXCEPT ![l] = "none"] /\ UNCHANGED life
        /\ earliest' = [earliest EXCEPT ![l] = 0]
        /\ pc' = IF l = life THEN "move" ELSE pc
    BY <1>5 DEF UpdateControlTime, ManageFails, Returns
  <2>2. QED BY <1>0, <2>1 DEF Waiting
<1>6. QED
  <2>1. \/ UNCHANGED <<script, earliest, life>> /\ (pc' = "wait" <=> pc = "wait")
        \/ Kill \/ CallOcReflection
        \/ \E l \in Lives : HandleSummarizeResult(l) \/ UpdateControlTime(l) \/ ManageFails(l)
    <3>1. CASE PublishCsv \/ Start \/ Initialize \/ CheckUserStopSignal \/ PollCsvFile
               \/ Readdir \/ Merge \/ FileIsGone \/ Hung \/ UNCHANGED vars
      BY <3>1 DEF PublishCsv, Start, Initialize, CheckUserStopSignal, PollCsvFile, Readdir,
                  Merge, FileIsGone, Hung, vars
    <3>2. CASE Sigterm
      <4>1. Waiting /\ TypeOK /\ UNCHANGED <<script, earliest, life>>
        BY <3>2, <1>0 DEF Sigterm, TInv
      <4>2. QED BY <4>1, <3>2 DEF Sigterm
    <3>3. CASE Move \/ MoveDat \/ DeleteMergedFile \/ Failure \/ \E f \in Files : MoveLater(f)
      BY <3>3 DEF Move, MoveDat, DeleteMergedFile, Failure, PollFails, MergeFails, OcFails,
                  MoveFails, AfterFailure, MoveLater
    <3>4. QED BY <3>1, <3>2, <3>3 DEF Next, Loop, Script
  <2>2. QED BY <2>1, <1>1, <1>2, <1>3, <1>4, <1>5

LEMMA NextTInv == TInv /\ [Next]_vars => TInv'
BY NextType, NextMerging, NextWaiting DEF TInv

(* The reflect process, its scripts and its directories stay in their      *)
(* types; the merged file is never longer than one round.                  *)
THEOREM TypeCorrect == Spec => []TypeOK
<1>1. TInv => TypeOK
  BY DEF TInv
<1>2. QED BY <1>1, InitTInv, NextTInv, PTL DEF Spec

-----------------------------------------------------------------------------
(* Where the files of a round are: in the input until their turn in the    *)
(* move comes, unless a mv left behind takes them, and known to the script *)
(* by then.                                                                *)
Rest == {m_vCsvInputFiles[k] : k \in at..Len(m_vCsvInputFiles)}

Known == applied \cup ignored

Where == /\ input \cup backup \cup mine \cup present \subseteq 1..published
         /\ \A f \in 1..published : f \in input \/ f \in backup
         /\ backup \cup moving \subseteq Known
         /\ \A l \in Lives : records[l] \subseteq 1..published

Round == /\ pc \in {"starting", "initialize", "check", "poll", "scan", "merge", "oc", "moveDat"}
               => mine \cap input = {}
         /\ pc = "scan" => mine \cap present = {}
         /\ pc \in {"merge", "oc"} => mine \cap ToSet(m_vCsvInputFiles) = {}
         /\ pc \in {"merge", "oc", "wait", "move"} => ToSet(m_vCsvInputFiles) \subseteq 1..published
         /\ pc = "wait" => records[life] = ToSet(m_vCsvInputFiles)
         /\ pc = "wait" => mine \cap input \subseteq ToSet(m_vCsvInputFiles)
         /\ pc = "move" => /\ ToSet(m_vCsvInputFiles) \subseteq Known
                           /\ mine \cap input \subseteq Rest

PInv == TInv /\ Where /\ Round

LEMMA ListOf ==
    ASSUME TInv
    PROVE  /\ ToSet(m_vCsvInputFiles) = {m_vCsvInputFiles[k] : k \in 1..Len(m_vCsvInputFiles)}
           /\ at = 1 => Rest = ToSet(m_vCsvInputFiles)
           /\ pc = "move" => CsvFile \in ToSet(m_vCsvInputFiles) /\ CsvFile \in Rest
<1>1. DOMAIN m_vCsvInputFiles = 1..Len(m_vCsvInputFiles) /\ Len(m_vCsvInputFiles) \in Nat
  BY Counters
<1>2. ToSet(m_vCsvInputFiles) = {m_vCsvInputFiles[k] : k \in 1..Len(m_vCsvInputFiles)}
  BY <1>1 DEF ToSet
<1>3. ASSUME pc = "move" PROVE at \in 1..Len(m_vCsvInputFiles) /\ at \in at..Len(m_vCsvInputFiles)
  BY <1>1, <1>3, Counters
<1>4. QED BY <1>2, <1>3 DEF Rest, CsvFile

LEMMA NextWhere == PInv /\ [Next]_vars => Where'
<1> SUFFICES ASSUME PInv, [Next]_vars PROVE Where'
  OBVIOUS
<1>0. /\ TInv /\ TInv' /\ Where /\ Round /\ published \in Nat
      /\ records \in [Lives -> SUBSET Files] /\ life \in Lives
  <2>1. TInv /\ Where /\ Round
    BY DEF PInv
  <2>2. TInv'
    BY <2>1, NextTInv
  <2>3. TypeOK
    BY <2>1 DEF TInv
  <2>4. QED BY <2>1, <2>2, <2>3, Counters, Constants DEF TypeOK
<1> USE DEF dirs, round, stop, scripts, left, alarms, env
<1>1. CASE UNCHANGED <<input, backup, moving, published, applied, ignored, records, mine>>
           /\ present' \in {{}, present, input}
  BY <1>0, <1>1 DEF Where, Known
<1>2. CASE PublishCsv
  <2>1. 1..published \subseteq 1..(published + 1) /\ published + 1 \in 1..(published + 1)
        /\ \A f \in 1..(published + 1) : f \in 1..published \/ f = published + 1
    BY <1>0
  <2>2. /\ input' = input \cup {published + 1} /\ published' = published + 1
        /\ UNCHANGED <<backup, moving, present, applied, ignored, records, mine>>
    BY <1>2 DEF PublishCsv
  <2>3. QED BY <1>0, <2>1, <2>2 DEF Where, Known
<1>3. CASE Start
  BY <1>0, <1>3 DEF Start, Where, Known
<1>4. CASE CallOcReflection
  <2>1. /\ records' = [records EXCEPT ![life] = ToSet(dat)] /\ mine' = mine \cup ToSet(dat)
        /\ UNCHANGED <<input, backup, moving, present, published, applied, ignored>>
    BY <1>4 DEF CallOcReflection
  <2>2. ToSet(dat) \subseteq 1..published
    BY <1>0, <1>4 DEF CallOcReflection, TInv, Merging, Round
  <2>3. QED BY <1>0, <2>1, <2>2 DEF Where, Known
<1>5. ASSUME NEW l \in Lives, UpdateControlTime(l) \/ ManageFails(l) PROVE Where'
  <2>1. /\ records' = [records EXCEPT ![l] = {}] /\ Known \subseteq Known'
        /\ UNCHANGED <<input, backup, moving, present, published, mine>>
    BY <1>5 DEF UpdateControlTime, ManageFails, Returns, Known
  <2>2. QED BY <1>0, <2>1 DEF Where
<1>6. CASE Kill
  <2>1. /\ moving' \subseteq moving \cup (IF pc = "move" THEN {CsvFile} ELSE {})
        /\ UNCHANGED <<input, backup, present, published, applied, ignored, records, mine>>
    BY <1>6 DEF Kill, MovedFile
  <2>2. pc = "move" => CsvFile \in Known
    BY <1>0, ListOf DEF Round
  <2>3. QED BY <1>0, <2>1, <2>2 DEF Where, Known
<1>7. ASSUME NEW f \in Files, MoveLater(f) PROVE Where'
  <2>1. /\ f \in moving /\ moving' = moving \ {f} /\ input' = input \ {f}
        /\ backup' = backup \cup (input \cap {f})
        /\ UNCHANGED <<present, published, applied, ignored, records, mine>>
    BY <1>7 DEF MoveLater
  <2>2. QED BY <1>0, <2>1 DEF Where, Known
<1>8. CASE Move
  <2>1. PICK x : x = CsvFile
    OBVIOUS
  <2>2. /\ input' = input \ {x} /\ backup' = backup \cup {x} /\ pc = "move" /\ x \in input
        /\ UNCHANGED <<moving, present, published, applied, ignored, records, mine>>
    BY <1>8, <2>1 DEF Move, MovedFile
  <2>3. x \in Known
    BY <1>0, <2>1, <2>2, ListOf DEF Round
  <2>4. QED BY <1>0, <2>2, <2>3 DEF Where, Known
<1>9. QED
  <2>1. \/ UNCHANGED <<input, backup, moving, published, applied, ignored, records, mine>>
           /\ present' \in {{}, present, input}
        \/ PublishCsv \/ Start \/ CallOcReflection \/ Kill \/ Move
        \/ \E l \in Lives : UpdateControlTime(l) \/ ManageFails(l)
        \/ \E f \in Files : MoveLater(f)
    BY DEF Next, Loop, Script, Failure, Hung, Initialize, Sigterm, CheckUserStopSignal,
           PollCsvFile, PollFails, Readdir, Merge, MergeFails, FileIsGone, OcFails,
           HandleSummarizeResult, MoveFails, MoveDat, DeleteMergedFile, vars
  <2>2. QED BY <2>1, <1>1, <1>2, <1>3, <1>4, <1>5, <1>6, <1>7, <1>8

LEMMA NextRound == PInv /\ [Next]_vars => Round'
<1> SUFFICES ASSUME PInv, [Next]_vars PROVE Round'
  OBVIOUS
<1>0. /\ TInv /\ Where /\ Round /\ published \in Nat
      /\ records \in [Lives -> SUBSET Files] /\ life \in Lives
  <2>1. TInv /\ Where /\ Round
    BY DEF PInv
  <2>2. TypeOK
    BY <2>1 DEF TInv
  <2>3. QED BY <2>1, <2>2, Counters, Constants DEF TypeOK
<1> USE DEF dirs, round, stop, scripts, left, alarms, env
<1>1. CASE pc' \in {"off", "hung", "delete"}
  BY <1>1 DEF Round
(* Steps from a place where no file of this process waits to another.      *)
<1>2. CASE /\ UNCHANGED <<input, mine>> /\ pc' \in {"initialize", "check", "poll"}
           /\ pc \in {"starting", "initialize", "check", "poll", "scan", "moveDat"}
  BY <1>0, <1>2 DEF Round
<1>3. CASE /\ UNCHANGED <<pc, at, m_vCsvInputFiles, life, records, present, mine, published>>
           /\ input' \subseteq input /\ Known \subseteq Known'
  <2>1. Rest' = Rest /\ ToSet(m_vCsvInputFiles)' = ToSet(m_vCsvInputFiles)
    BY <1>3 DEF Rest, ToSet
  <2>2. QED BY <1>0, <1>3, <2>1 DEF Round
<1>4. CASE PublishCsv
  <2>1. published + 1 \notin mine /\ 1..published \subseteq 1..(published + 1)
    BY <1>0 DEF Where
  <2>2. /\ input' = input \cup {published + 1} /\ published' = published + 1
        /\ UNCHANGED <<pc, at, present, m_vCsvInputFiles, records, life, applied, ignored, mine>>
    BY <1>4 DEF PublishCsv
  <2>3. mine \cap input' = mine \cap input
    BY <2>1, <2>2
  <2>4. Rest' = Rest /\ ToSet(m_vCsvInputFiles)' = ToSet(m_vCsvInputFiles) /\ Known' = Known
    BY <2>2 DEF Rest, ToSet, Known
  <2>5. QED BY <1>0, <2>1, <2>2, <2>3, <2>4 DEF Round
<1>5. CASE Start
  BY <1>5 DEF Start, Round
<1>6. CASE PollCsvFile
  BY <1>0, <1>6 DEF PollCsvFile, Round
<1>7. CASE Readdir
  <2>1. PICK S \in Found : m_vCsvInputFiles' \in InOrder(S)
    BY <1>7 DEF Readdir
  <2>2. S \subseteq present \cup input /\ S \in SUBSET Files
    BY <1>0, <2>1 DEF Found, TInv, TypeOK
  <2>3. ToSet(m_vCsvInputFiles)' \subseteq S
    BY <2>1, <2>2, ListingType DEF ToSet
  <2>4. /\ mine \cap input = {} /\ mine \cap present = {} /\ pc' \in {"check", "merge"}
        /\ UNCHANGED <<input, mine, published>> /\ present \cup input \subseteq 1..published
    BY <1>0, <1>7 DEF Readdir, Round, Where
  <2>5. QED BY <2>2, <2>3, <2>4 DEF Round
<1>8. CASE Merge
  <2>1. /\ UNCHANGED <<input, mine, published, m_vCsvInputFiles>>
        /\ pc = "merge" /\ pc' \in {"merge", "oc"}
    BY <1>8 DEF Merge
  <2>2. ToSet(m_vCsvInputFiles)' = ToSet(m_vCsvInputFiles)
    BY <2>1 DEF ToSet
  <2>3. QED BY <1>0, <2>1, <2>2 DEF Round
<1>9. CASE CallOcReflection
  <2>1. /\ pc = "oc" /\ pc' = "wait" /\ dat = m_vCsvInputFiles
        /\ UNCHANGED <<input, published, m_vCsvInputFiles, life>>
        /\ mine' = mine \cup ToSet(dat) /\ records' = [records EXCEPT ![life] = ToSet(dat)]
    BY <1>0, <1>9 DEF CallOcReflection, TInv, Merging
  <2>2. ToSet(m_vCsvInputFiles)' = ToSet(m_vCsvInputFiles) /\ records'[life'] = ToSet(dat)
    BY <1>0, <2>1 DEF ToSet
  <2>3. QED BY <1>0, <2>1, <2>2 DEF Round
<1>10. ASSUME NEW l \in Lives, UpdateControlTime(l) \/ ManageFails(l) PROVE Round'
  <2>1. /\ script[l] # "none" /\ Known' = Known \cup records[l]
        /\ records' = [records EXCEPT ![l] = {}]
        /\ pc' = IF l = life THEN "move" ELSE pc
        /\ UNCHANGED <<input, published, present, at, m_vCsvInputFiles, life, mine>>
    BY <1>10 DEF UpdateControlTime, ManageFails, Returns, Reading, Known
  <2>2. Rest' = Rest /\ ToSet(m_vCsvInputFiles)' = ToSet(m_vCsvInputFiles)
    BY <2>1 DEF Rest, ToSet
  <2>3. CASE l = life
    <3>1. pc = "wait" /\ pc' = "move" /\ at = 1
      BY <1>0, <2>1, <2>3 DEF TInv, Waiting, Merging
    <3>2. Rest = ToSet(m_vCsvInputFiles)
      BY <1>0, <3>1, ListOf
    <3>3. QED BY <1>0, <2>1, <2>2, <2>3, <3>1, <3>2 DEF Round
  <2>4. CASE l # life
    <3>1. pc' = pc /\ records'[life'] = records[life] /\ Known \subseteq Known'
      BY <1>0, <2>1, <2>4
    <3>2. QED BY <1>0, <2>1, <2>2, <3>1 DEF Round
  <2>5. QED BY <2>3, <2>4
<1>11. CASE Move
  <2>1. /\ at \in Nat \ {0} /\ at <= Len(m_vCsvInputFiles) /\ Len(m_vCsvInputFiles) \in Nat
        /\ m_vCsvInputFiles \in Seq(Files) /\ pc = "move"
    BY <1>0, <1>11, Counters DEF Move
  <2>2. /\ input' = input \ {m_vCsvInputFiles[at]}
        /\ UNCHANGED <<m_vCsvInputFiles, applied, ignored, mine, published>>
    BY <1>11 DEF Move, MovedFile, CsvFile
  <2>3. \A k \in at..Len(m_vCsvInputFiles) : k = at \/ k \in (at + 1)..Len(m_vCsvInputFiles)
    BY <2>1
  <2>4. mine \cap input' \subseteq {m_vCsvInputFiles[k] : k \in (at + 1)..Len(m_vCsvInputFiles)}
    BY <1>0, <2>1, <2>2, <2>3 DEF Round, Rest
  <2>5. CASE at = Len(m_vCsvInputFiles)
    <3>1. pc' = "moveDat" /\ mine' \cap input' = {}
      BY <1>11, <2>1, <2>2, <2>4, <2>5 DEF Move
    <3>2. QED BY <3>1 DEF Round
  <2>6. CASE at # Len(m_vCsvInputFiles)
    <3>1. pc' = "move" /\ at' = at + 1
      BY <1>11, <2>1, <2>6 DEF Move
    <3>2. mine' \cap input' \subseteq Rest' /\ ToSet(m_vCsvInputFiles)' = ToSet(m_vCsvInputFiles)
      BY <2>2, <2>4, <3>1 DEF Rest, ToSet
    <3>3. Known' = Known
      BY <2>2 DEF Known
    <3>4. QED BY <1>0, <2>1, <2>2, <3>1, <3>2, <3>3 DEF Round
  <2>7. QED BY <2>5, <2>6
<1>12. QED
  <2>1. CASE Initialize \/ CheckUserStopSignal \/ MoveDat
    <3>1. \/ pc' \in {"off", "hung", "delete"}
          \/ /\ UNCHANGED <<input, mine>> /\ pc' \in {"initialize", "check", "poll"}
             /\ pc \in {"starting", "initialize", "check", "poll", "scan", "moveDat"}
      BY <2>1 DEF Initialize, CheckUserStopSignal, MoveDat
    <3>2. QED BY <3>1, <1>1, <1>2
  <2>2. CASE Kill \/ PollFails \/ MergeFails \/ FileIsGone \/ OcFails \/ DeleteMergedFile
    <3>1. pc' \in {"off", "hung", "delete"}
      BY <2>2 DEF Kill, PollFails, MergeFails, FileIsGone, OcFails, DeleteMergedFile
    <3>2. QED BY <3>1, <1>1
  <2>3. CASE MoveFails
    BY <2>3, <1>1 DEF MoveFails, AfterFailure
  <2>4. CASE \/ Sigterm \/ UNCHANGED vars \/ \E l \in Lives : HandleSummarizeResult(l)
             \/ \E f \in Files : MoveLater(f)
    <3>1. \/ pc' \in {"off", "hung"}
          \/ /\ UNCHANGED <<pc, at, m_vCsvInputFiles, life, records, present, mine, published,
                            applied, ignored>>
             /\ input' \subseteq input
      BY <2>4 DEF Sigterm, HandleSummarizeResult, MoveLater, vars
    <3>2. UNCHANGED <<applied, ignored>> => Known \subseteq Known'
      BY DEF Known
    <3>3. QED BY <3>1, <3>2, <1>1, <1>3
  <2>5. QED
    BY <2>1, <2>2, <2>3, <2>4, <1>4, <1>5, <1>6, <1>7, <1>8, <1>9, <1>10, <1>11
       DEF Next, Loop, Script, Failure, Hung

LEMMA NextPInv == PInv /\ [Next]_vars => PInv'
BY NextTInv, NextWhere, NextRound DEF PInv

LEMMA InitPInv == Init => PInv
<1> SUFFICES ASSUME Init PROVE PInv
  OBVIOUS
<1>1. published = 0 /\ \A l \in Lives : records[l] = {}
  BY DEF Init
<1>2. Where
  BY <1>1 DEF Init, Where, Known
<1>3. Round
  BY DEF Init, Round
<1>4. QED BY <1>2, <1>3, InitTInv DEF PInv

(* A file is moved to the backup only after the script was called with it  *)
(* and has ended, and no published file is ever lost.                      *)
THEOREM NothingIsMovedUnreflected == Spec => []NothingUnreflectedIsMoved
<1>1. PInv => NothingUnreflectedIsMoved
  BY DEF PInv, Where, Known, NothingUnreflectedIsMoved
<1>2. QED BY <1>1, InitPInv, NextPInv, PTL DEF Spec

(* One process reflects no file twice.                                     *)
THEOREM NoFileTwice == Spec => []NeverTwiceByOneProcess
<1>1. PInv => NeverTwiceByOneProcess
  BY DEF PInv, Round, TInv, Merging, NeverTwiceByOneProcess
<1>2. QED BY <1>1, InitPInv, NextPInv, PTL DEF Spec

-----------------------------------------------------------------------------
(* The control time.  What a script has read is still true when it sets,   *)
(* unless another has read in between.                                     *)
RecordTimes(l) == {endTime[f] : f \in records[l]}

WillSet(l) == IF earliest[l] = 0 THEN controlTime ELSE earliest[l]

ReadsAlone == \A l \in Lives : Reading(l) =>
                 /\ \A k \in Lives : Reading(k) => k = l
                 /\ WillSet(l) = Min({controlTime} \cup RecordTimes(l))

SetsARecord == \A l \in Lives : earliest[l] = 0 \/ earliest[l] \in RecordTimes(l)

EInv == /\ TInv /\ SetsARecord
        /\ ~overlapped => ReadsAlone /\ EarliestOf(applied)

LEMMA TimesTypes ==
    ASSUME TypeOK
    PROVE  /\ controlTime \in Nat /\ first \in Nat /\ endTime \in [Files -> Nat]
           /\ \A l \in Lives : RecordTimes(l) \in SUBSET Nat
           /\ {endTime[f] : f \in applied} \in SUBSET Nat
<1>1. controlTime \in Nat /\ first \in Nat
  BY Constants DEF TypeOK, Times
<1>2. \A f \in Files : endTime[f] \in Nat
  BY Constants DEF TypeOK, Times
<1>3. endTime \in [Files -> Nat]
  BY <1>2 DEF TypeOK
<1>4. \A l \in Lives : records[l] \subseteq Files
  BY DEF TypeOK
<1>5. applied \subseteq Files
  BY DEF TypeOK
<1>6. QED BY <1>1, <1>2, <1>3, <1>4, <1>5 DEF RecordTimes

(* What it finds to set is the earliest of its records and of the control  *)
(* time it has read.                                                       *)
LEMMA FindsEarliest ==
    ASSUME TInv, NEW l \in Lives, HandleSummarizeResult(l)
    PROVE  /\ WillSet(l)' = Min({controlTime} \cup RecordTimes(l))
           /\ earliest'[l] = 0 \/ earliest'[l] \in RecordTimes(l)
<1> DEFINE E == RecordTimes(l)  N == NeedToBeUpdated(l)
<1>1. /\ E \in SUBSET Nat /\ controlTime \in Nat /\ E \subseteq 1..LastTime
      /\ N \subseteq E /\ \A t \in E : t \in N <=> t < controlTime
  BY TimesTypes, EarlierTimes
     DEF TInv, RecordTimes, NeedToBeUpdated, IsWorkControlTimeEarlier
<1>2. /\ UNCHANGED controlTime
      /\ earliest'[l] = IF N = {} THEN 0 ELSE GetEarliestControlTime(N)
  <2>1. UNCHANGED controlTime
    BY DEF HandleSummarizeResult, alarms
  <2>2. DOMAIN earliest = Lives
    BY DEF TInv, TypeOK
  <2>3. QED BY <2>1, <2>2 DEF HandleSummarizeResult
<1>3. N # {} => GetEarliestControlTime(N) \in N /\ \A t \in N : GetEarliestControlTime(N) <= t
  BY EarlierTimes DEF TInv
<1> DEFINE w == WillSet(l)'
<1>4. w = IF earliest'[l] = 0 THEN controlTime ELSE earliest'[l]
  BY <1>2 DEF WillSet
<1> HIDE DEF E, N, w
<1>5. w \in {controlTime} \cup E /\ \A t \in {controlTime} \cup E : w <= t
  <2>1. CASE N = {}
    BY <1>1, <1>2, <1>4, <2>1
  <2>2. CASE N # {}
    <3>1. PICK m \in N : m = GetEarliestControlTime(N)
      BY <1>3, <2>2
    <3>2. m \in E /\ m < controlTime /\ m \in 1..LastTime /\ \A t \in N : m <= t
      BY <1>1, <1>3, <3>1
    <3>3. w = m
      BY <1>2, <1>4, <2>2, <3>1, <3>2
    <3>4. \A t \in E : m <= t
      BY <1>1, <3>2
    <3>5. QED BY <1>1, <3>2, <3>3, <3>4
  <2>3. QED BY <2>1, <2>2
<1>6. {controlTime} \cup E \in SUBSET Nat
  BY <1>1
<1>7. Min({controlTime} \cup E) = w
  BY <1>5, <1>6, LeastIsMin
<1>8. earliest'[l] = 0 \/ earliest'[l] \in E
  BY <1>1, <1>2, <1>3
<1>9. QED BY <1>7, <1>8 DEF E, w

LEMMA NextEarliest == EInv /\ [Next]_vars => EInv'
<1> SUFFICES ASSUME EInv, [Next]_vars PROVE EInv'
  OBVIOUS
<1>0. /\ TInv /\ TInv' /\ SetsARecord /\ TypeOK
      /\ ~overlapped => ReadsAlone /\ EarliestOf(applied)
      /\ script \in [Lives -> {"none", "begun", "read"}]
      /\ records \in [Lives -> SUBSET Files] /\ earliest \in [Lives -> 0..LastTime]
  <2>1. TInv /\ SetsARecord /\ (~overlapped => ReadsAlone /\ EarliestOf(applied))
    BY DEF EInv
  <2>2. TInv'
    BY <2>1, NextTInv
  <2>3. TypeOK
    BY <2>1 DEF TInv
  <2>4. QED BY <2>1, <2>2, <2>3 DEF TypeOK
<1> SUFFICES SetsARecord' /\ (~overlapped' => ReadsAlone' /\ EarliestOf(applied)')
  BY <1>0 DEF EInv
<1> USE DEF dirs, round, stop, scripts, left, alarms, env
<1>1. CASE UNCHANGED <<script, records, earliest, overlapped, endTime, controlTime, first, applied>>
  BY <1>0, <1>1 DEF SetsARecord, ReadsAlone, EarliestOf, Reading, WillSet, RecordTimes
<1>2. CASE CallOcReflection
  <2>1. /\ script[life] = "none" /\ life \in Lives /\ UNCHANGED <<earliest, overlapped, endTime,
                                                                 controlTime, first, applied>>
        /\ script' = [script EXCEPT ![life] = "begun"]
        /\ records' = [records EXCEPT ![life] = ToSet(dat)]
    BY <1>0, <1>2, Counters DEF CallOcReflection, TInv, Waiting
  <2>2. earliest[life] = 0
    BY <1>0, <2>1 DEF TInv, Waiting
  <2>3. \A l \in Lives : Reading(l)' <=> Reading(l)
    BY <1>0, <2>1 DEF Reading
  <2>4. \A l \in Lives : l # life => RecordTimes(l)' = RecordTimes(l)
    BY <1>0, <2>1 DEF RecordTimes
  <2>5. SetsARecord'
    BY <1>0, <2>1, <2>2, <2>4 DEF SetsARecord
  <2>6. ReadsAlone => ReadsAlone'
    BY <1>0, <2>1, <2>3, <2>4 DEF ReadsAlone, WillSet, Reading
  <2>7. EarliestOf(applied)' <=> EarliestOf(applied)
    BY <2>1 DEF EarliestOf
  <2>8. QED BY <1>0, <2>1, <2>5, <2>6, <2>7
<1>3. ASSUME NEW l \in Lives, HandleSummarizeResult(l)
      PROVE  SetsARecord' /\ (~overlapped' => ReadsAlone' /\ EarliestOf(applied)')
  <2>1. /\ script' = [script EXCEPT ![l] = "read"]
        /\ \A k \in Lives : k # l => earliest'[k] = earliest[k]
        /\ overlapped' = (overlapped \/ \E k \in Lives : Reading(k))
        /\ UNCHANGED <<records, endTime, controlTime, first, applied>>
    BY <1>0, <1>3 DEF HandleSummarizeResult
  <2>2. /\ WillSet(l)' = Min({controlTime} \cup RecordTimes(l))
        /\ earliest'[l] = 0 \/ earliest'[l] \in RecordTimes(l)
    BY <1>0, <1>3, FindsEarliest
  <2>3. \A k \in Lives : RecordTimes(k)' = RecordTimes(k)
    BY <2>1 DEF RecordTimes
  <2>4. SetsARecord'
    BY <1>0, <2>1, <2>2, <2>3 DEF SetsARecord
  <2>5. ASSUME ~overlapped' PROVE ReadsAlone' /\ EarliestOf(applied)'
    <3>1. ~overlapped /\ \A k \in Lives : ~Reading(k)
      BY <2>1, <2>5
    <3>2. \A k \in Lives : Reading(k)' => k = l
      BY <1>0, <2>1, <3>1 DEF Reading
    <3>3. ReadsAlone'
      BY <2>1, <2>2, <2>3, <3>2 DEF ReadsAlone
    <3>4. EarliestOf(applied)'
      BY <1>0, <2>1, <3>1 DEF EarliestOf
    <3>5. QED BY <3>3, <3>4
  <2>6. QED BY <2>4, <2>5
<1>4. ASSUME NEW l \in Lives, Returns(l), UNCHANGED <<overlapped, endTime, first>>
      PROVE  /\ SetsARecord'
             /\ ReadsAlone /\ (UNCHANGED controlTime \/ Reading(l)) => ReadsAlone'
  <2>1. /\ script' = [script EXCEPT ![l] = "none"] /\ records' = [records EXCEPT ![l] = {}]
        /\ earliest' = [earliest EXCEPT ![l] = 0]
    BY <1>4 DEF Returns
  <2>2. \A k \in Lives : k # l => /\ RecordTimes(k)' = RecordTimes(k)
                                  /\ earliest'[k] = earliest[k]
    BY <1>0, <1>4, <2>1 DEF RecordTimes
  <2>3. ~Reading(l)' /\ earliest'[l] = 0
    BY <1>0, <2>1 DEF Reading
  <2>4. \A k \in Lives : Reading(k)' => k # l /\ Reading(k)
    BY <1>0, <2>1 DEF Reading
  <2>5. SetsARecord'
    BY <1>0, <2>2, <2>3 DEF SetsARecord
  <2>6. ASSUME ReadsAlone, UNCHANGED controlTime \/ Reading(l) PROVE ReadsAlone'
    <3>1. CASE Reading(l)
      BY <2>4, <2>6, <3>1 DEF ReadsAlone
    <3>2. CASE UNCHANGED controlTime
      BY <2>2, <2>4, <2>6, <3>2 DEF ReadsAlone, WillSet
    <3>3. QED BY <2>6, <3>1, <3>2
  <2>7. QED BY <2>5, <2>6
<1>5. ASSUME NEW l \in Lives, UpdateControlTime(l)
      PROVE  SetsARecord' /\ (~overlapped' => ReadsAlone' /\ EarliestOf(applied)')
  <2>1. /\ Reading(l) /\ Returns(l) /\ controlTime' = WillSet(l)
        /\ applied' = applied \cup records[l]
        /\ UNCHANGED <<overlapped, endTime, first>>
    BY <1>5 DEF UpdateControlTime, WillSet
  <2>2. ASSUME ~overlapped' PROVE EarliestOf(applied)'
    <3> DEFINE A == {first} \cup {endTime[f] : f \in applied}
    <3>1. controlTime = Min(A) /\ controlTime' = Min({controlTime} \cup RecordTimes(l))
      BY <1>0, <2>1, <2>2 DEF ReadsAlone, EarliestOf
    <3>2. A \in SUBSET Nat /\ A # {} /\ RecordTimes(l) \in SUBSET Nat
      BY <1>0, TimesTypes
    <3>3. A \cup RecordTimes(l) = {first'} \cup {endTime'[f] : f \in applied'}
      BY <2>1 DEF RecordTimes
    <3> HIDE DEF A
    <3>4. controlTime' = Min(A \cup RecordTimes(l))
      BY <3>1, <3>2, MinOfUnion
    <3>5. QED BY <3>3, <3>4 DEF EarliestOf
  <2>3. QED BY <1>0, <1>4, <2>1, <2>2
<1>6. ASSUME NEW l \in Lives, ManageFails(l)
      PROVE  SetsARecord' /\ (~overlapped' => ReadsAlone' /\ EarliestOf(applied)')
  <2>1. /\ Returns(l) /\ UNCHANGED <<overlapped, endTime, controlTime, first, applied>>
    BY <1>6 DEF ManageFails
  <2>2. EarliestOf(applied)' <=> EarliestOf(applied)
    BY <2>1 DEF EarliestOf
  <2>3. QED BY <1>0, <1>4, <2>1, <2>2
<1>7. QED
  <2>1. \/ UNCHANGED <<script, records, earliest, overlapped, endTime, controlTime, first, applied>>
        \/ CallOcReflection
        \/ \E l \in Lives : HandleSummarizeResult(l) \/ UpdateControlTime(l) \/ ManageFails(l)
    BY DEF Next, Loop, Script, Failure, Hung, PublishCsv, Start, Initialize, Sigterm, Kill,
           MoveLater, CheckUserStopSignal, PollCsvFile, PollFails, Readdir, Merge, MergeFails,
           FileIsGone, OcFails, Move, MoveFails, MoveDat, DeleteMergedFile, vars
  <2>2. QED BY <2>1, <1>1, <1>2, <1>3, <1>5, <1>6

LEMMA InitEInv == Init => EInv
<1> SUFFICES ASSUME Init PROVE EInv
  OBVIOUS
<1>1. {first} \cup {endTime[f] : f \in applied} = {controlTime} /\ controlTime \in Nat
  BY Constants DEF Init, Times
<1>2. EarliestOf(applied)
  BY <1>1, LeastIsMin DEF EarliestOf
<1>3. SetsARecord /\ ReadsAlone
  BY DEF Init, SetsARecord, ReadsAlone, Reading
<1>4. QED BY <1>2, <1>3, InitTInv DEF EInv

(* The control time of the alarm object is the earliest of its own and of  *)
(* those applied to it, in whatever rounds, however often and by whatever  *)
(* process, as long as no two scripts overlap between read and set.        *)
THEOREM ControlTimeEarliest == Spec => []ControlTimeIsEarliest
<1>1. EInv => ControlTimeIsEarliest
  BY DEF EInv, ControlTimeIsEarliest
<1>2. QED BY <1>1, InitEInv, NextEarliest, PTL DEF Spec

-----------------------------------------------------------------------------
(* Refinement: the end of a script tells the alarm object of its records,  *)
(* in vain when a manage command fails; each mv archives a file; all other *)
(* steps stutter.                                                          *)
RInv == PInv /\ EInv

LEMMA InitReflection == Init => Refl!Init
BY DEF Init, Refl!Init, Files, Null

LEMMA SetReflects ==
    ASSUME RInv, NEW l \in Lives, UpdateControlTime(l)
    PROVE  Refl!Reflect(records[l])
<1>1. /\ applied' = applied \cup records[l] /\ controlTime' = WillSet(l) /\ Reading(l)
      /\ UNCHANGED <<published, input, backup, ignored, endTime, overlapped>>
  BY DEF UpdateControlTime, WillSet, dirs, env
<1>2. Refl!Times(records[l]) = {controlTime} \cup RecordTimes(l)
  BY DEF Refl!Times, RecordTimes
<1>3. controlTime' \in Refl!Times(records[l])
  BY <1>1, <1>2 DEF RInv, EInv, SetsARecord, WillSet
<1>4. ~overlapped => controlTime' = Refl!Min(Refl!Times(records[l]))
  BY <1>1, <1>2 DEF RInv, EInv, ReadsAlone, Min, Refl!Min
<1>5. QED BY <1>1, <1>3, <1>4 DEF Refl!Reflect

LEMMA NextReflection == RInv /\ [Next]_vars => [Refl!Next]_(Refl!files)
<1> SUFFICES ASSUME RInv, [Next]_vars PROVE [Refl!Next]_(Refl!files)
  OBVIOUS
<1>0. /\ TInv /\ Where /\ Round
      /\ \A l \in Lives : records[l] \in SUBSET (1..published)
  BY DEF RInv, PInv, Where
<1> USE DEF dirs, alarms, env, scripts
<1>1. CASE PublishCsv
  <2>1. Refl!Publish
    BY <1>1 DEF PublishCsv, Refl!Publish
  <2>2. QED BY <2>1 DEF Refl!Next
<1>2. ASSUME NEW l \in Lives, HandleSummarizeResult(l) PROVE [Refl!Next]_(Refl!files)
  <2>1. /\ overlapped' \in {overlapped, TRUE}
        /\ UNCHANGED <<published, input, backup, applied, ignored, endTime, controlTime>>
    <3>1. overlapped \in BOOLEAN
      BY <1>0 DEF TInv, TypeOK
    <3>2. QED BY <1>2, <3>1 DEF HandleSummarizeResult
  <2>2. QED BY <2>1 DEF Refl!Next, Refl!Race, Refl!files
<1>3. ASSUME NEW l \in Lives, UpdateControlTime(l) PROVE Refl!Next
  BY <1>0, <1>3, SetReflects DEF Refl!Next
<1>4. ASSUME NEW l \in Lives, ManageFails(l) PROVE Refl!Next
  <2>1. Refl!Overlook(records[l])
    BY <1>4 DEF ManageFails, Refl!Overlook
  <2>2. QED BY <1>0, <2>1 DEF Refl!Next
<1>5. CASE Move
  <2>1. CsvFile \in input /\ CsvFile \in Known
    BY <1>0, <1>5, ListOf DEF Move, MovedFile, Round
  <2>2. Refl!Archive(CsvFile)
    BY <1>5, <2>1 DEF Move, MovedFile, Known, Refl!Archive
  <2>3. QED BY <2>1, <2>2 DEF Refl!Next
<1>6. ASSUME NEW f \in Files, MoveLater(f) PROVE [Refl!Next]_(Refl!files)
  <2>1. /\ f \in Known /\ input' = input \ {f} /\ backup' = backup \cup (input \cap {f})
        /\ UNCHANGED <<published, applied, ignored, endTime, controlTime, overlapped>>
    BY <1>0, <1>6 DEF MoveLater, Where
  <2>2. CASE f \in input
    <3>1. Refl!Archive(f)
      BY <2>1, <2>2 DEF Known, Refl!Archive
    <3>2. QED BY <2>2, <3>1 DEF Refl!Next
  <2>3. CASE f \notin input
    <3>1. input' = input /\ backup' = backup
      BY <2>1, <2>3
    <3>2. QED BY <2>1, <3>1 DEF Refl!files
  <2>4. QED BY <2>2, <2>3
<1>7. QED
  <2>1. \/ PublishCsv \/ Move
        \/ \E l \in Lives : HandleSummarizeResult(l) \/ UpdateControlTime(l) \/ ManageFails(l)
        \/ \E f \in Files : MoveLater(f)
        \/ UNCHANGED <<published, input, backup, applied, ignored, endTime, controlTime, overlapped>>
    BY DEF Next, Loop, Script, Failure, Hung, Start, Initialize, Sigterm, Kill,
           CheckUserStopSignal, PollCsvFile, PollFails, Readdir, Merge, MergeFails, FileIsGone,
           CallOcReflection, OcFails, MoveFails, MoveDat, DeleteMergedFile, vars
  <2>2. QED BY <2>1, <1>1, <1>2, <1>3, <1>4, <1>5, <1>6 DEF Refl!files

(* Whatever fails, is killed and is left running, the files wait until the *)
(* alarm object was told of them, and its control time is only ever        *)
(* lowered to the earliest of theirs, until two scripts overlap            *)
(* (WorkReflector.cpp:96-193, update_control_time.pl:292-400).             *)
THEOREM ReflectorReflects == Spec => ImplementsReflection
<1>1. Init => RInv
  BY InitPInv, InitEInv DEF RInv
<1>2. RInv /\ [Next]_vars => RInv'
  BY NextPInv, NextEarliest DEF RInv
<1>3. QED
  BY <1>1, <1>2, InitReflection, NextReflection, PTL
     DEF Spec, ImplementsReflection, Refl!Spec
=============================================================================
