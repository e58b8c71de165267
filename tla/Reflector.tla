----------------------------- MODULE Reflector -----------------------------
(***************************************************************************)
(* The reflect process (reflect/Main.cpp, WorkReflector.cpp) with the      *)
(* script it calls (sh/update_control_time.pl): it polls the directory of  *)
(* result files, merges what it finds, has the script lower the control    *)
(* time of the alarm objects, and moves the files into the backup.  It     *)
(* exits on any failure and is started again by hand; it may be killed     *)
(* anywhere, and then what it runs with system(), the script or a mv, goes *)
(* on beside the next process.  SIGTERM is blocked but for                 *)
(* CheckUserStopSignal, once the loop has begun; before that it may arrive *)
(* anywhere.                                                               *)
(*                                                                         *)
(* One alarm object stands for those the records of a file are related to  *)
(* (managed object and pattern id); every file holds one record for it.    *)
(***************************************************************************)
EXTENDS Naturals, Sequences, FiniteSets, FiniteSetsExt, SequencesExt

CONSTANTS NumFiles,   \* bound: result files; their names sort as numbers
          LastTime,   \* control times are 1..LastTime
          MaxFaults   \* bound: failures, kills and SIGTERMs

ASSUME ReflectorAssumption ==
    NumFiles \in Nat /\ LastTime \in Nat \ {0} /\ MaxFaults \in Nat

Files == 1..NumFiles
Null == LastTime + 1    \* no control time yet: later than any other
Lives == 0..MaxFaults   \* a kill ends a life; each has a script of its own

VARIABLES pc,
          input,              \* m_csvInputDir
          backup,             \* m_csvBackupDir
          present,            \* what the directory held at opendir
          m_vCsvInputFiles,   \* the files of this round, in order
          at,                 \* the index of the merge and move loops
          dat,                \* m_mergeOutputFile: the files appended to it
          pending,            \* SIGTERM is pending
          m_userStop,
          endTime,            \* the control time a file carries
          controlTime,        \* of the alarm object
          life,               \* the kills so far: names the present process
          script,             \* [life -> "none", "begun" or "read"]
          records,            \* [life -> the files whose records it holds]
          earliest,           \* [life -> the time it will set, 0 for none]
          moving,             \* files a mv is left moving by a kill
          overlapped,         \* history: one script read between another's
                              \* read and set
          first,              \* history: controlTime at the beginning
          applied,            \* history: files whose records the script applied
          ignored,            \* history: files the manage command failed on
          mine,               \* history: files this process had reflected
          published, faults

dirs    == <<input, backup>>
round   == <<present, m_vCsvInputFiles, at, dat>>
stop    == <<pending, m_userStop>>
scripts == <<script, records, earliest, overlapped>>
left    == <<life, moving>>
alarms  == <<endTime, controlTime, first, applied, ignored>>
env     == <<published, faults>>

vars == <<pc, dirs, round, stop, scripts, left, alarms, mine, env>>

Init == /\ pc = "off" /\ input = {} /\ backup = {}
        /\ present = {} /\ m_vCsvInputFiles = <<>> /\ at = 1 /\ dat = <<>>
        /\ life = 0 /\ moving = {} /\ overlapped = FALSE
        /\ script = [l \in Lives |-> "none"]
        /\ records = [l \in Lives |-> {}] /\ earliest = [l \in Lives |-> 0]
        /\ pending = FALSE /\ m_userStop = FALSE
        /\ endTime \in [Files -> 1..LastTime]
        /\ controlTime \in 1..Null /\ first = controlTime
        /\ applied = {} /\ ignored = {} /\ mine = {}
        /\ published = 0 /\ faults = 0

Fault == faults < MaxFaults /\ faults' = faults + 1

-----------------------------------------------------------------------------
(* The receive process renames a complete file into the directory.         *)
PublishCsv == /\ published < NumFiles
              /\ published' = published + 1
              /\ input' = input \cup {published + 1}
              /\ UNCHANGED <<pc, backup, round, stop, scripts, left, alarms, mine, faults>>

(* rtwork_control.sh start.                                                *)
Start == /\ pc = "off"
         /\ pc' = "starting"
         /\ m_vCsvInputFiles' = <<>> /\ at' = 1
         /\ pending' = FALSE /\ m_userStop' = FALSE
         /\ mine' = {}
         /\ UNCHANGED <<dirs, present, dat, scripts, left, alarms, env>>

(* gs_pReflector is set; then Initialize succeeds or the process exits.    *)
Initialize == /\ \/ pc = "starting" /\ pc' = "initialize" /\ UNCHANGED faults
                 \/ pc = "initialize" /\ pc' = "check" /\ UNCHANGED faults
                 \/ pc = "initialize" /\ pc' = "off" /\ Fault
              /\ UNCHANGED <<dirs, round, stop, scripts, left, alarms, mine, published>>

(* SIGTERM.  Until CheckUserStopSignal has blocked it, the handler runs at *)
(* once: it dies on the null gs_pReflector, waits for ever for gl_mtxLog   *)
(* if main was logging, or sets the flag.                                  *)
Sigterm == /\ pc \notin {"off", "hung"} /\ Fault
           /\ \/ /\ pc = "starting" /\ pc' \in {"off", "hung"}
                 /\ UNCHANGED stop
              \/ /\ pc = "initialize" /\ pc' = "hung"
                 /\ UNCHANGED stop
              \/ /\ pc = "initialize" /\ m_userStop' = TRUE
                 /\ UNCHANGED <<pc, pending>>
              \/ /\ pc \notin {"starting", "initialize"}
                 /\ pending' = TRUE
                 /\ UNCHANGED <<pc, m_userStop>>
           /\ UNCHANGED <<dirs, round, scripts, left, alarms, mine, published>>

CsvFile == m_vCsvInputFiles[at]
MoveNewest == published                      \* mutant: the newest of the directory
MovedFile == CsvFile

(* kill -9 of the process alone: its script, or the mv it waits for, is    *)
(* not ended.                                                              *)
Kill == /\ pc # "off" /\ Fault
        /\ pc' = "off" /\ life' = life + 1
        /\ moving' \in {moving} \cup (IF pc = "move" THEN {moving \cup {MovedFile}} ELSE {})
        /\ UNCHANGED <<dirs, round, stop, scripts, alarms, mine, published>>

(* Such a mv fails if the file has been moved meanwhile.                   *)
MoveLater(f) == /\ f \in moving
                /\ moving' = moving \ {f}
                /\ input' = input \ {f}
                /\ backup' = backup \cup (input \cap {f})
                /\ UNCHANGED <<pc, round, stop, scripts, life, alarms, mine, env>>

-----------------------------------------------------------------------------
(* The loop of main().                                                     *)

NotDelivered == UNCHANGED m_userStop         \* mutant: SIGTERM stays blocked
Delivered == m_userStop' = (m_userStop \/ pending)

CheckUserStopSignal ==
    /\ pc = "check"
    /\ Delivered /\ pending' = FALSE
    /\ pc' = IF m_userStop' THEN "off" ELSE "poll"
    /\ UNCHANGED <<dirs, round, scripts, left, alarms, mine, env>>

(* opendir.                                                                *)
PollCsvFile == /\ pc = "poll"
               /\ present' = input
               /\ m_vCsvInputFiles' = <<>> /\ at' = 1
               /\ pc' = "scan"
               /\ UNCHANGED <<dirs, dat, stop, scripts, left, alarms, mine, env>>

PollFails == /\ pc = "poll" /\ Fault
             /\ m_vCsvInputFiles' = <<>> /\ at' = 1
             /\ pc' = "off"
             /\ UNCHANGED <<dirs, present, dat, stop, scripts, left, alarms, mine, published>>

AllButTheLast == {(present \cap input) \ {published}}  \* mutant: off by one

(* What readdir returns: every file that is there from beginning to end; a *)
(* file that comes or goes meanwhile it may return or miss, each by        *)
(* itself.                                                                 *)
Found == {S \in SUBSET (present \cup input) : present \cap input \subseteq S}

(* The names in order: there is one such sequence.                         *)
InOrder(S) == {s \in [1..Cardinality(S) -> S] : \A k, l \in DOMAIN s : k < l => s[k] < s[l]}

Readdir == /\ pc = "scan"
           /\ \E S \in Found : /\ m_vCsvInputFiles' \in InOrder(S)
                               /\ pc' = IF S = {} THEN "check" ELSE "merge"
           /\ present' = {}
           /\ UNCHANGED <<dirs, at, dat, stop, scripts, left, alarms, mine, env>>

(* MakeMergeFileName gives every round a file of its own; MergeFile        *)
(* appends to it.                                                          *)
NewFile == <<>>
MergedFile == IF at = 1 THEN NewFile ELSE dat

Merge == /\ pc = "merge" /\ CsvFile \in input
         /\ dat' = Append(MergedFile, CsvFile)
         /\ IF at = Len(m_vCsvInputFiles)
            THEN pc' = "oc" /\ at' = 1
            ELSE at' = at + 1 /\ UNCHANGED pc
         /\ UNCHANGED <<dirs, present, m_vCsvInputFiles, stop, scripts, left, alarms, mine, env>>

(* The failing call leaves the merged file as it is or with a part more.   *)
MergeFails == /\ pc = "merge" /\ Fault
              /\ dat' \in {MergedFile, Append(MergedFile, CsvFile)}
              /\ pc' = "delete"
              /\ UNCHANGED <<dirs, present, m_vCsvInputFiles, at, stop, scripts, left, alarms,
                             mine, published>>

(* A mv of an earlier life has taken the file away.                        *)
FileIsGone == /\ pc \in {"merge", "move"} /\ CsvFile \notin input
              /\ dat' = IF pc = "merge" THEN MergedFile ELSE dat
              /\ pc' = "delete"
              /\ UNCHANGED <<dirs, present, m_vCsvInputFiles, at, stop, scripts, left, alarms,
                             mine, env>>

CallOcReflection ==
    /\ pc = "oc"
    /\ script' = [script EXCEPT ![life] = "begun"]
    /\ records' = [records EXCEPT ![life] = ToSet(dat)]
    /\ mine' = mine \cup ToSet(dat)
    /\ pc' = "wait"
    /\ UNCHANGED <<dirs, round, stop, earliest, overlapped, left, alarms, env>>

OcFails == /\ pc = "oc" /\ Fault
           /\ pc' = "delete"
           /\ UNCHANGED <<dirs, round, stop, scripts, left, alarms, mine, published>>

-----------------------------------------------------------------------------
(* The script of life l.  NeedToBeUpdated: the records that are earlier    *)
(* than the control time it has read, and the earliest of them.            *)
TakesAny(t) == TRUE                          \* mutant: not compared with the object's
IsWorkControlTimeEarlier(t) == t < controlTime

GetLatestControlTime(T) == Max(T)            \* mutant: the wrong comparison
GetEarliestControlTime(T) == Min(T)

NeedToBeUpdated(l) ==
    {t \in {endTime[f] : f \in records[l]} : IsWorkControlTimeEarlier(t)}

Reading(l) == script[l] = "read"

HandleSummarizeResult(l) ==
    /\ script[l] = "begun"
    /\ script' = [script EXCEPT ![l] = "read"]
    /\ earliest' = [earliest EXCEPT ![l] =
                       IF NeedToBeUpdated(l) = {} THEN 0
                       ELSE GetEarliestControlTime(NeedToBeUpdated(l))]
    /\ overlapped' = (overlapped \/ \E k \in Lives : Reading(k))
    /\ UNCHANGED <<pc, dirs, round, stop, records, left, alarms, mine, env>>

(* It ends, and a process that waits for it goes on.                       *)
Returns(l) == /\ script' = [script EXCEPT ![l] = "none"]
              /\ records' = [records EXCEPT ![l] = {}]
              /\ earliest' = [earliest EXCEPT ![l] = 0]
              /\ pc' = IF l = life THEN "move" ELSE pc

UpdateControlTime(l) ==
    /\ Reading(l) /\ Returns(l)
    /\ controlTime' = IF earliest[l] = 0 THEN controlTime ELSE earliest[l]
    /\ applied' = applied \cup records[l]
    /\ UNCHANGED <<dirs, round, stop, overlapped, left, endTime, first, ignored, mine, env>>

(* The script does not look at what the manage commands return.            *)
ManageFails(l) == /\ script[l] # "none" /\ Returns(l) /\ Fault
                  /\ ignored' = ignored \cup records[l]
                  /\ UNCHANGED <<dirs, round, stop, overlapped, left, endTime, controlTime,
                                 first, applied, mine, published>>

-----------------------------------------------------------------------------
(* MoveIntoBackup: the csv files one by one, then the merged file.         *)
Move == /\ pc = "move" /\ MovedFile \in input
        /\ input' = input \ {MovedFile}
        /\ backup' = backup \cup {MovedFile}
        /\ IF at = Len(m_vCsvInputFiles)
           THEN pc' = "moveDat" /\ UNCHANGED at
           ELSE at' = at + 1 /\ UNCHANGED pc
        /\ UNCHANGED <<present, m_vCsvInputFiles, dat, stop, scripts, left, alarms, mine, env>>

MoveDat == /\ pc = "moveDat"
           /\ dat' = <<>>
           /\ pc' = "check"
           /\ UNCHANGED <<dirs, present, m_vCsvInputFiles, at, stop, scripts, left, alarms, mine,
                          env>>

GoOn == "check"                              \* mutant: no break after the failure
AfterFailure == "delete"

MoveFails == /\ pc \in {"move", "moveDat"} /\ Fault
             /\ pc' = AfterFailure
             /\ UNCHANGED <<dirs, round, stop, scripts, left, alarms, mine, published>>

(* The process exits whether or not the merged file could be deleted.      *)
DeleteMergedFile == /\ pc = "delete"
                    /\ dat' \in {<<>>, dat}
                    /\ pc' = "off"
                    /\ UNCHANGED <<dirs, present, m_vCsvInputFiles, at, stop, scripts, left,
                                   alarms, mine, env>>

Loop == \/ Initialize \/ CheckUserStopSignal \/ PollCsvFile \/ Readdir \/ Merge
        \/ FileIsGone \/ CallOcReflection \/ Move \/ MoveDat \/ DeleteMergedFile

Script(l) == HandleSummarizeResult(l) \/ UpdateControlTime(l)

Failure == PollFails \/ MergeFails \/ OcFails \/ MoveFails

(* The handler waits for a mutex its own thread holds.                     *)
Hung == pc = "hung" /\ UNCHANGED vars

Next == \/ PublishCsv \/ Start \/ Sigterm \/ Kill \/ Loop \/ Failure \/ Hung
        \/ \E l \in Lives : Script(l) \/ ManageFails(l)
        \/ \E f \in Files : MoveLater(f)

Spec == Init /\ [][Next]_vars

(* The process and its script run, and someone starts the process again    *)
(* when it has ended.                                                      *)
FairSpec == /\ Spec /\ WF_vars(Start) /\ WF_vars(Loop)
            /\ \A l \in Lives : WF_vars(Script(l))

-----------------------------------------------------------------------------
TypeOK == /\ pc \in {"off", "hung", "starting", "initialize", "check", "poll", "scan",
                     "merge", "oc", "wait", "move", "moveDat", "delete"}
          /\ input \subseteq Files /\ backup \subseteq Files /\ present \subseteq Files
          /\ m_vCsvInputFiles \in Seq(Files) /\ at \in 1..(NumFiles + 1)
          /\ dat \in Seq(Files) /\ Len(dat) <= NumFiles
          /\ pending \in BOOLEAN /\ m_userStop \in BOOLEAN
          /\ life \in 0..faults /\ moving \subseteq Files /\ overlapped \in BOOLEAN
          /\ script \in [Lives -> {"none", "begun", "read"}]
          /\ records \in [Lives -> SUBSET Files] /\ earliest \in [Lives -> 0..LastTime]
          /\ endTime \in [Files -> 1..LastTime]
          /\ controlTime \in 1..Null /\ first \in 1..Null
          /\ applied \subseteq Files /\ ignored \subseteq Files /\ mine \subseteq Files
          /\ published \in 0..NumFiles /\ faults \in 0..MaxFaults

(* A result file leaves the input directory only after the script has      *)
(* ended with it, whatever failed, wherever the process was killed and     *)
(* whatever it left running: what arrives during a round stays for the     *)
(* next one, the scan of the directory included                            *)
(* (WorkReflector.cpp:96-123, 168-180).                                    *)
NothingUnreflectedIsMoved ==
    /\ backup \subseteq applied \cup ignored
    /\ \A f \in 1..published : f \in input \/ f \in backup

(* The alarm object ends up with the earliest time of all the records      *)
(* applied, in whatever rounds, however often a file was reflected again   *)
(* after a failure and by whatever process, as long as no script reads the *)
(* control time between another's read and its set, which a script that a  *)
(* kill left behind may (update_control_time.pl:295, 357-400, 538-546).    *)
EarliestOf(T) == controlTime = Min({first} \cup {endTime[f] : f \in T})

ControlTimeIsEarliest == ~overlapped => EarliestOf(applied)

(* No process reflects a file twice: only a restart after a failed move or *)
(* a kill can (Main.cpp:168-177).                                          *)
NeverTwiceByOneProcess ==
    pc = "oc" => ToSet(dat) \cap mine = {}

(* A process that receives SIGTERM in its loop ends, at the latest after   *)
(* the round (Main.cpp:117-121).                                           *)
StopEndsTheProcess == pending ~> pc = "off"

(* Every published file ends up in the backup, as long as the process is   *)
(* started again and does not hang in its signal handler.                  *)
EveryFileIsBackedUp == \A f \in Files : f \in input ~> f \in backup \/ pc = "hung"

(* Reflection is what the process promises; the list of a round, the       *)
(* merged file, the steps of the script, signals, failures, kills and      *)
(* restarts are no steps of it (WorkReflector.cpp:96-193,                  *)
(* Main.cpp:114-177, update_control_time.pl:292-400).                      *)
Refl == INSTANCE Reflection WITH waiting <- input, archived <- backup,
                                 reflected <- applied, overlooked <- ignored,
                                 raced <- overlapped

ImplementsReflection == Refl!Spec
=============================================================================
