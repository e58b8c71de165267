------------------------------ MODULE LogWatch ------------------------------
(***************************************************************************)
(* A command log and its watcher.  RTWLog (common_log.cxx) writes lines to *)
(* one of two files and turns to the other one when it is full; it ends a  *)
(* full file with a line END.  The thread of LogWatcher.cpp in the monitor *)
(* chooses the file to follow, opens it and analyses its lines; it takes   *)
(* no lock, so that each look at a file is a step of its own.              *)
(*                                                                         *)
(* A line is its number, a size is a number of lines.  Of the modification *)
(* times, which count seconds, only their order matters.                   *)
(***************************************************************************)
EXTENDS Integers, SequencesExt

CONSTANTS MaxSize,     \* a longer file is ended
          MaxLines,    \* bound: the lines written
          MaxFaults    \* bound: kills and read errors

ASSUME LogWatchAssumption == MaxSize \in Nat /\ MaxLines \in Nat /\ MaxFaults \in Nat

VARIABLES file,        \* [1..2 -> the lines of the file]
          exists,      \* the files that exist
          newer,       \* the file with the later modification time, 0 if equal
          writer,      \* where RTWLog is: "off", "idle", "truncate", "line"
          cur,         \* m_logName
          tell,        \* m_ofs.tellp(), -1 when the stream has failed
          lines,       \* number of lines written
          watcher,     \* where the thread is
          test,        \* the condition of GetCurrentLogFile it evaluates
          look,        \* the file it looks at
          tailFromTop, \* tailFromTopFlag
          chosen,      \* m_currentLogFileName
          pos,         \* position in the file it tails
          analysed,    \* history: the lines it has analysed
          faults

log    == <<file, exists, newer>>
write  == <<writer, cur, tell, lines>>
search == <<test, look, tailFromTop, chosen>>
watch  == <<watcher, search, pos, analysed>>
vars   == <<log, write, watch, faults>>

Files    == {1, 2}
END      == 0
NoFile   == 0
Failed   == -1
MaxLen   == MaxSize + 2
Other(f) == 3 - f

Ended(f) == file[f] # <<>> /\ Last(file[f]) = END
Live(f)  == file[f] # <<>> /\ Last(file[f]) # END

TypeOK == /\ file \in [Files -> Seq(0..MaxLines)] /\ \A f \in Files : Len(file[f]) <= MaxLen
          /\ exists \subseteq Files /\ newer \in Files \cup {0}
          /\ writer \in {"off", "idle", "truncate", "line"} /\ cur \in Files
          /\ tell \in Failed..MaxLen /\ lines \in 0..MaxLines
          /\ watcher \in {"off", "size", "last", "newer", "second", "open", "tail"}
          /\ test \in 1..3 /\ look \in Files /\ tailFromTop \in BOOLEAN
          /\ chosen \in Files \cup {NoFile} /\ (watcher \in {"open", "tail"} => chosen \in Files)
          /\ pos \in 0..MaxLen /\ analysed \in Seq(1..MaxLines) /\ faults \in 0..MaxFaults

Init == /\ file = [f \in Files |-> <<>>] /\ exists = {} /\ newer = 0
        /\ writer = "off" /\ cur = 1 /\ tell = 0 /\ lines = 0
        /\ watcher = "off" /\ test = 1 /\ look = 1 /\ tailFromTop = FALSE
        /\ chosen = NoFile /\ pos = 0 /\ analysed = <<>> /\ faults = 0

Fault == faults < MaxFaults /\ faults' = faults + 1

(* What a write or an open that creates or truncates does to a file.  It   *)
(* may fall into the same second as the last one to the other file.        *)
Modify(f, content) == /\ file' = [file EXCEPT ![f] = content]
                      /\ exists' = exists \cup {f}
                      /\ newer' \in IF newer = f THEN {f} ELSE {0, f}

(* The lines of the new content have other lengths, so that the position   *)
(* of a watcher that has the file open falls anywhere in it.               *)
Truncate(f) == /\ Modify(f, <<>>)
               /\ pos' \in IF watcher = "tail" /\ chosen = f /\ pos > 0 THEN 0..MaxLen ELSE {pos}

------------------------------------------------------------------------------
(* RTWLog                                                                  *)

(* The choice of OpenFile: the file that is not ended; if there are two,   *)
(* the newer one, if there is none, one to begin anew.  CheckEnd is false  *)
(* of an empty file.                                                       *)
NewerFileOf == IF newer = 2 THEN 2 ELSE 1
BeginsNewer == NewerFileOf                    \* mutant: the comparison swapped
OlderFileOf == Other(NewerFileOf)

BothEnded == exists = Files /\ \A f \in Files : Ended(f)
Unended   == {f \in exists : ~Ended(f)}

FileToOpen == IF BothEnded THEN OlderFileOf
              ELSE IF Unended = Files THEN NewerFileOf
              ELSE IF Unended # {} THEN Min(Unended)
              ELSE IF exists = {2} \/ exists = {} THEN 1 ELSE 2

(* file_size is not initialised if the file does not exist and the other   *)
(* is ended: seekp fails, or goes below or beyond the limit.               *)
SizeToSeek(f) == IF f \in exists THEN {Len(file[f])}
                 ELSE IF exists = {} THEN {0} ELSE {Failed, 0, MaxSize + 1}

OpenFile == /\ writer = "off"
            /\ LET f == FileToOpen IN
               /\ cur' = f
               /\ \/ BothEnded /\ Truncate(f) /\ tell' = 0
                  \/ /\ ~BothEnded
                     /\ IF f \in exists THEN UNCHANGED log ELSE Modify(f, <<>>)
                     /\ tell' \in SizeToSeek(f)
                     /\ UNCHANGED pos
            /\ writer' = "idle"
            /\ UNCHANGED <<lines, watcher, search, analysed, faults>>

(* m_ofs << line: nothing once the stream has failed.                      *)
PutLine == /\ lines < MaxLines
           /\ lines' = lines + 1
           /\ IF tell = Failed THEN UNCHANGED <<log, tell>>
              ELSE /\ Modify(cur, Append(file[cur], lines'))
                   /\ tell' = Len(file'[cur])
           /\ UNCHANGED <<cur, watch, faults>>

WriteLog == writer = "idle" /\ tell <= MaxSize /\ PutLine /\ UNCHANGED writer

NoEnd == file[cur]                            \* mutant: END is not written
WithEnd == Append(file[cur], END)

(* WriteLog, when CheckSize finds the file full: it ends the file, opens   *)
(* the other one and writes the line there.                                *)
EndFile == /\ writer = "idle" /\ tell > MaxSize /\ lines < MaxLines
           /\ Modify(cur, WithEnd)
           /\ cur' = Other(cur)
           /\ writer' = "truncate"
           /\ UNCHANGED <<tell, lines, watch, faults>>

OpenOther == /\ writer = "truncate"
             /\ Truncate(cur) /\ tell' = 0
             /\ writer' = "line"
             /\ UNCHANGED <<cur, lines, watcher, search, analysed, faults>>

FirstLine == writer = "line" /\ PutLine /\ writer' = "idle"

KillProcess == /\ writer # "off" /\ Fault
               /\ writer' = "off"
               /\ UNCHANGED <<log, cur, tell, lines, watch>>

------------------------------------------------------------------------------
(* LogWatcher                                                              *)

(* WatchLog begins: GetCurrentLogFile evaluates its first condition.       *)
Search == /\ watcher' = "size" /\ test' = 1 /\ look' = 1
          /\ tailFromTop' = FALSE /\ chosen' = NoFile

(* Initialize creates the first file, StartMonitor the thread.             *)
StartMonitor == /\ watcher = "off"
                /\ IF 1 \in exists THEN UNCHANGED log ELSE Modify(1, <<>>)
                /\ Search /\ pos' = 0
                /\ UNCHANGED <<write, analysed, faults>>

NoThirdTest == (test % 2) + 1                 \* mutant: the second file is not tried
TestAfter == (test % 3) + 1

(* The three conditions: both files, the first, the second; then a sleep.  *)
NextTest == /\ watcher' = "size"
            /\ test' = TestAfter
            /\ look' = IF TestAfter = 3 THEN 2 ELSE 1
            /\ tailFromTop' = (tailFromTop \/ test = 3)

(* IsFileExist and IsEmptyFile.                                            *)
LookAtSize == /\ watcher = "size"
              /\ IF look \in exists /\ file[look] # <<>>
                 THEN watcher' = "last" /\ UNCHANGED search
                 ELSE NextTest /\ UNCHANGED chosen
              /\ UNCHANGED <<log, write, pos, analysed, faults>>

(* IsEndLogFile, which is 0 of a file that has meanwhile become empty.     *)
LookAtLast == /\ watcher = "last"
              /\ IF Ended(look) THEN NextTest /\ UNCHANGED chosen
                 ELSE /\ UNCHANGED <<test, tailFromTop>>
                      /\ IF test = 1
                         THEN /\ watcher' = IF look = 1 THEN "size" ELSE "newer"
                              /\ look' = 2 /\ UNCHANGED chosen
                         ELSE watcher' = "open" /\ chosen' = look /\ UNCHANGED look
              /\ UNCHANGED <<log, write, pos, analysed, faults>>

(* GetNewerFile is two calls of stat.  The times only grow: a first file   *)
(* that is not the newer one at the first call is not at the second, which *)
(* is compared with the time of then.  (Left out: both files are modified  *)
(* between the calls, the first one last.)                                 *)
StatFirst == /\ watcher = "newer"
             /\ IF newer = 1 THEN watcher' = "second" /\ UNCHANGED chosen
                             ELSE watcher' = "open" /\ chosen' = 2
             /\ UNCHANGED <<log, write, test, look, tailFromTop, pos, analysed, faults>>

NewerFile == IF newer = 1 THEN 1 ELSE 2

GetNewerFile == /\ watcher = "second"
                /\ chosen' = NewerFile
                /\ watcher' = "open"
                /\ UNCHANGED <<log, write, test, look, tailFromTop, pos, analysed, faults>>

AlwaysFromTop == 0                            \* mutant: no seek to the end
StartOfTail == IF tailFromTop THEN 0 ELSE Len(file[chosen])

OpenLogFileTail == /\ watcher = "open"
                   /\ pos' = StartOfTail
                   /\ watcher' = "tail"
                   /\ UNCHANGED <<log, write, search, analysed, faults>>

(* fgets fills its buffer with a part of what is there; the lines in it    *)
(* are analysed, up to END, which starts WatchLog again.                   *)
ReadLines ==
    /\ watcher = "tail"
    /\ \E upTo \in (pos + 1)..Len(file[chosen]) :
          LET block == SubSeq(file[chosen], pos + 1, upTo)
              ends  == {i \in 1..Len(block) : block[i] = END}
          IN IF ends = {}
             THEN /\ analysed' = analysed \o block
                  /\ pos' = upTo
                  /\ UNCHANGED <<watcher, search>>
             ELSE /\ analysed' = analysed \o SubSeq(block, 1, Min(ends) - 1)
                  /\ pos' = 0
                  /\ Search
    /\ UNCHANGED <<log, write, faults>>

(* fgets fails, but not at the end of the file: WatchLog starts again.     *)
ReadError == /\ watcher = "tail" /\ Fault
             /\ Search /\ pos' = 0
             /\ UNCHANGED <<log, write, analysed>>

KillMonitor == /\ watcher # "off" /\ Fault
               /\ watcher' = "off" /\ pos' = 0
               /\ UNCHANGED <<log, write, search, analysed>>

------------------------------------------------------------------------------
Watch == \/ LookAtSize \/ LookAtLast \/ StatFirst \/ GetNewerFile
         \/ OpenLogFileTail \/ ReadLines

Next == \/ OpenFile \/ WriteLog \/ EndFile \/ OpenOther \/ FirstLine \/ KillProcess
        \/ StartMonitor \/ Watch \/ ReadError \/ KillMonitor

Spec == /\ Init /\ [][Next]_vars
        /\ WF_vars(Watch)
        /\ WF_vars(OpenOther \/ FirstLine)
------------------------------------------------------------------------------
(* At most one of the two files is neither empty nor ended, also after the *)
(* process was killed in the middle of turning from one to the other.  The *)
(* log watcher tells by that which file is current.                        *)
OneLiveFile == ~(Live(1) /\ Live(2))

(* The watcher analyses no line twice and none before an older one, over   *)
(* all turns of the log, restarts and positions that a truncation left     *)
(* behind.                                                                 *)
InOrderOnce == \A i, j \in DOMAIN analysed : i < j => analysed[i] < analysed[j]

(* A truncation never discards the newest line, unless OpenFile found two  *)
(* ended files of the same second, or wrote END into an empty file because *)
(* it sought to an uninitialised size.                                     *)
KeepsNewestLine ==
    [][\A f \in Files :
          (file[f] # <<>> /\ file'[f] = <<>>)
             => \/ \E n \in Range(file[Other(f)]) : \A k \in Range(file[f]) : k < n
                \/ writer = "off" /\ newer = 0
                \/ file[Other(f)] = <<END>>]_vars

(* It has passed the END of the file it tails, and looks for no other one. *)
EndIsSkipped == watcher = "tail" /\ Ended(chosen) /\ pos >= Len(file[chosen])

(* A file that has a line and no END for ever is found and followed,       *)
(* although the three conditions look at the files piece by piece, but not *)
(* by a watcher that has skipped an END.                                   *)
LiveFileIsFound ==
    \A f \in Files :
       <>[]Live(f) => []<>(\/ watcher = "off" \/ EndIsSkipped
                           \/ watcher = "tail" /\ chosen = f)

(* GetCurrentLogFile is to get the current log file, and the tail is       *)
(* opened on the current log file (LogWatcher.cpp:52, 61): the watcher     *)
(* does not stay on a file that is no longer written to.                   *)
FollowsTheLog == []<>(watcher # "tail" \/ chosen = cur)
=============================================================================
