--------------------------- MODULE LogWatchProofs ---------------------------
(***************************************************************************)
(* Proofs about LogWatch for every size of a file and number of lines and  *)
(* faults: one file is current, a turn keeps the newest line, and the      *)
(* watcher analyses the lines in order and once.                           *)
(***************************************************************************)
EXTENDS LogWatch, WellFoundedInduction, TLAPS

Line == 0..MaxLines

(* The minimum of a set of numbers.                                        *)
LEMMA MinIsLeast == ASSUME NEW S \in SUBSET Nat, S # {}
                    PROVE  Min(S) \in S /\ \A y \in S : Min(S) <= y
<1>1. PICK x \in S : \A y \in S : ~(<<y, x>> \in OpToRel(<, Nat))
  BY WFMin, NatLessThanWellFounded
<1>2. ASSUME NEW y \in S, y < x PROVE FALSE
  <2>1. <<y, x>> \in {ss \in Nat \X Nat : ss[1] < ss[2]}
    BY <1>2
  <2>2. OpToRel(<, Nat) = {ss \in Nat \X Nat : ss[1] < ss[2]}
    BY Zenon DEF OpToRel
  <2>3. QED BY <2>1, <2>2, <1>1, Zenon
<1>3. \A y \in S : x <= y
  BY <1>2
<1>4. QED BY <1>3 DEF Min

-----------------------------------------------------------------------------
(* The process that logs.                                                  *)

LogType == /\ file \in [Files -> Seq(Line)] /\ exists \in SUBSET Files
           /\ newer \in Files \cup {0}

WriteType == /\ writer \in {"off", "idle", "truncate", "line"} /\ cur \in Files
             /\ tell \in Failed..MaxLen /\ lines \in 0..MaxLines

(* Only a file that is ended is longer than MaxSize + 1.                   *)
Sizes == \A f \in Files : /\ Len(file[f]) <= MaxLen
                          /\ ~Ended(f) => Len(file[f]) < MaxLen
                          /\ f \notin exists => file[f] = <<>>

(* The process writes to a file that is not ended, while the other is.     *)
Writing == /\ writer = "idle" => /\ cur \in exists /\ ~Ended(cur)
                                 /\ tell = Failed \/ tell >= Len(file[cur])
                                 /\ Other(cur) \in exists => Ended(Other(cur))
           /\ writer = "truncate" => Ended(Other(cur)) /\ ~Live(cur)
           /\ writer = "line" => /\ cur \in exists /\ file[cur] = <<>>
                                 /\ tell = 0 /\ Ended(Other(cur))

(* The first file is created first; of two one is ended.                   *)
Pair == /\ 2 \in exists => 1 \in exists
        /\ exists = Files => Ended(1) \/ Ended(2)

WInv == LogType /\ WriteType /\ Sizes /\ Writing /\ Pair

LEMMA Lengths == /\ MaxLen \in Nat /\ MaxLen >= 2 /\ MaxLen = MaxSize + 2
                 /\ MaxSize \in Nat /\ MaxLines \in Nat /\ MaxFaults \in Nat
                 /\ \A s \in Seq(Line) : Len(s) \in Nat
                 /\ Failed = -1 /\ END = 0 /\ NoFile = 0
BY LogWatchAssumption DEF MaxLen, Failed, END, NoFile

LEMMA Two == /\ Files = {1, 2} /\ Other(1) = 2 /\ Other(2) = 1
             /\ \A f \in Files : /\ Other(f) \in Files /\ Other(f) # f /\ Other(Other(f)) = f
                                 /\ \A g \in Files : g = f \/ g = Other(f)
BY DEF Files, Other

(* A line at the end of a file.                                            *)
LEMMA AtEnd == ASSUME NEW s \in Seq(Line), NEW e \in Line
               PROVE  /\ Append(s, e) \in Seq(Line) /\ Len(Append(s, e)) = Len(s) + 1
                      /\ Append(s, e) # <<>> /\ Last(Append(s, e)) = e
BY DEF Last

(* The elements of a sequence, and one whose elements are all of a set.    *)
LEMMA Narrower == ASSUME NEW S, NEW T, NEW s \in Seq(S), \A i \in 1..Len(s) : s[i] \in T
                  PROVE  s \in Seq(T)
OBVIOUS

LEMMA Element == ASSUME NEW S, NEW s \in Seq(S), NEW i \in 1..Len(s)
                 PROVE  s[i] \in S
OBVIOUS

(* The file that OpenFile chooses.                                         *)
LEMMA Choice == ASSUME LogType, Sizes, Pair
                PROVE  /\ FileToOpen \in Files
                       /\ BothEnded => /\ FileToOpen \in exists /\ Ended(Other(FileToOpen))
                                       /\ newer # 0 => Other(FileToOpen) = newer
                       /\ ~BothEnded => /\ ~Ended(FileToOpen)
                                        /\ Other(FileToOpen) \in exists
                                              => Ended(Other(FileToOpen))
<1>1. \A f \in Files : f \notin exists => ~Ended(f)
  BY DEF Sizes, Ended
<1>2. CASE BothEnded
  <2>1. FileToOpen = OlderFileOf /\ exists = Files
    BY <1>2 DEF FileToOpen, BothEnded
  <2>2. QED BY <1>2, <2>1, Two DEF OlderFileOf, NewerFileOf, BothEnded, LogType
<1>3. CASE ~BothEnded
  <2>0. /\ exists \subseteq {1, 2} /\ Unended \subseteq exists
        /\ \A f \in exists : f \in Unended <=> ~Ended(f)
    BY Two DEF Unended, LogType
  <2>1. Unended # Files
    <3>1. SUFFICES ASSUME Unended = Files PROVE FALSE
      OBVIOUS
    <3>2. exists = Files /\ 1 \in Unended /\ 2 \in Unended /\ 1 \in exists /\ 2 \in exists
      BY <2>0, <3>1, Two
    <3>3. QED BY <2>0, <3>2 DEF Pair
  <2>2. CASE Unended = {}
    <3>1. FileToOpen = IF exists = {2} \/ exists = {} THEN 1 ELSE 2
      BY <1>3, <2>1, <2>2 DEF FileToOpen
    <3>2. exists = {} \/ exists = {1}
      <4>1. \A f \in exists : Ended(f)
        BY <2>0, <2>2
      <4>2. exists # Files
        BY <1>3, <4>1 DEF BothEnded
      <4>3. 2 \notin exists
        BY <2>0, <4>2 DEF Pair, Files
      <4>4. \A x \in exists : x = 1
        BY <2>0, <4>3
      <4>5. QED BY <4>4
    <3>3. CASE exists = {}
      BY <1>1, <1>3, <3>1, <3>3, Two
    <3>4. CASE exists = {1}
      <4>1. FileToOpen = 2 /\ Ended(1)
        BY <2>2, <3>1, <3>4, Two DEF Unended
      <4>2. QED BY <1>1, <1>3, <3>4, <4>1, Two
    <3>5. QED BY <3>2, <3>3, <3>4
  <2>3. CASE Unended # {}
    <3>1. PICK f \in Files : Unended = {f}
      <4>1. \A x \in Unended : x = 1 \/ x = 2
        BY <2>0
      <4>2. ~(1 \in Unended /\ 2 \in Unended)
        BY <2>1, <4>1, Two
      <4>3. CASE 1 \in Unended
        <5>1. Unended = {1}
          BY <4>1, <4>2, <4>3
        <5>2. QED BY <5>1, Two
      <4>4. CASE 1 \notin Unended
        <5>1. Unended = {2}
          BY <2>3, <4>1, <4>4
        <5>2. QED BY <5>1, Two
      <4>5. QED BY <4>3, <4>4
    <3>2. FileToOpen = f
      <4>1. Min({f}) = f
        <5>1. {f} \in SUBSET Nat /\ {f} # {}
          BY Two
        <5>2. QED BY <5>1, MinIsLeast
      <4>2. QED BY <1>3, <2>1, <2>3, <3>1, <4>1 DEF FileToOpen
    <3>3. f \in exists /\ ~Ended(f) /\ \A g \in exists : g # f => Ended(g)
      BY <3>1, Two DEF Unended, LogType
    <3>4. QED BY <1>3, <3>2, <3>3, Two
  <2>4. QED BY <2>2, <2>3
<1>4. QED BY <1>2, <1>3

LEMMA InitWInv == Init => WInv
<1> SUFFICES ASSUME Init PROVE WInv
  OBVIOUS
<1>1. LogType
  BY DEF Init, LogType, Line
<1>2. WriteType
  BY Lengths DEF Init, WriteType, Files
<1>3. Sizes
  BY Lengths DEF Init, Sizes
<1>4. Writing /\ Pair
  BY Two DEF Init, Writing, Pair
<1>5. QED BY <1>1, <1>2, <1>3, <1>4 DEF WInv

(* A write of content c to file f.                                         *)
LEMMA ModifyType == ASSUME LogType, Sizes, NEW f \in Files, NEW c \in Seq(Line), Modify(f, c),
                           Len(c) <= MaxLen,
                           Len(c) < MaxLen \/ (c # <<>> /\ Last(c) = END)
                    PROVE  /\ LogType' /\ Sizes'
                           /\ file'[f] = c /\ file'[Other(f)] = file[Other(f)]
                           /\ exists' = exists \cup {f}
                           /\ Ended(f)' <=> c # <<>> /\ Last(c) = END
                           /\ Ended(Other(f))' <=> Ended(Other(f))
<1>1. /\ file' = [file EXCEPT ![f] = c] /\ exists' = exists \cup {f}
      /\ newer' \in {newer, 0, f}
  BY DEF Modify
<1>2. file'[f] = c /\ file'[Other(f)] = file[Other(f)]
  BY <1>1, Two DEF LogType
<1>3. LogType'
  BY <1>1 DEF LogType
<1>4. /\ Ended(f)' <=> c # <<>> /\ Last(c) = END
      /\ Ended(Other(f))' <=> Ended(Other(f))
  BY <1>2 DEF Ended
<1>5. ASSUME NEW g \in Files
      PROVE  /\ Len(file'[g]) <= MaxLen
             /\ ~Ended(g)' => Len(file'[g]) < MaxLen
             /\ g \notin exists' => file'[g] = <<>>
  <2>1. CASE g = f
    BY <1>1, <1>2, <1>4, <2>1
  <2>2. CASE g = Other(f)
    BY <1>1, <1>2, <1>4, <2>2 DEF Sizes
  <2>3. QED BY <2>1, <2>2, Two
<1>6. Sizes'
  BY <1>5 DEF Sizes
<1>7. QED BY <1>1, <1>2, <1>3, <1>4, <1>6

(* PutLine at the end of a file with room.                                 *)
LEMMA PutType == ASSUME WInv, PutLine, writer \in {"idle", "line"}, tell <= MaxSize,
                        writer' = "idle"
                 PROVE  WInv'
<1>0. /\ LogType /\ WriteType /\ Sizes /\ Pair /\ cur \in exists /\ ~Ended(cur)
      /\ Other(cur) \in exists => Ended(Other(cur))
      /\ tell = Failed \/ tell >= Len(file[cur])
  <2>1. CASE writer = "idle"
    BY <2>1 DEF WInv, Writing
  <2>2. CASE writer = "line"
    BY <2>2, Lengths DEF WInv, Writing, Ended
  <2>3. QED BY <2>1, <2>2
<1>1. lines' = lines + 1 /\ lines' \in Line /\ lines' # END /\ cur' = cur /\ lines' \in 0..MaxLines
  BY <1>0, Lengths DEF PutLine, WriteType, Line
<1>2. CASE tell = Failed
  <2>1. UNCHANGED <<log, tell>>
    BY <1>2 DEF PutLine
  <2>2. LogType' /\ Sizes' /\ Pair' /\ WriteType'
    BY <1>0, <1>1, <2>1 DEF LogType, Sizes, Pair, WriteType, Ended, log
  <2>3. Writing'
    BY <1>0, <1>1, <1>2, <2>1 DEF Writing, Ended, Live, log
  <2>4. QED BY <2>2, <2>3 DEF WInv
<1>3. CASE tell # Failed
  <2>1. PICK f \in Files : f = cur
    BY <1>0 DEF WriteType
  <2>2. file[f] \in Seq(Line) /\ Len(file[f]) \in Nat /\ Len(file[f]) <= MaxSize
    BY <1>0, <1>3, <2>1, Lengths DEF LogType, WriteType
  <2>3. PICK e \in Line : e = lines'
    BY <1>1
  <2>4. PICK c \in Seq(Line) : c = Append(file[f], e)
    BY <2>2, AtEnd
  <2>5. Len(c) = Len(file[f]) + 1 /\ c # <<>> /\ Last(c) = e /\ e # END /\ Len(c) < MaxLen
    BY <1>1, <2>2, <2>3, <2>4, AtEnd, Lengths
  <2>6. Modify(f, c) /\ tell' = Len(file'[f])
    BY <1>3, <2>1, <2>3, <2>4 DEF PutLine
  <2>7. /\ LogType' /\ Sizes' /\ file'[f] = c /\ exists' = exists
        /\ ~Ended(f)' /\ (Ended(Other(f))' <=> Ended(Other(f)))
    <3>1. /\ LogType /\ Sizes /\ Len(c) <= MaxLen /\ Len(c) < MaxLen
      BY <1>0, <2>5, Lengths
    <3>2. /\ LogType' /\ Sizes' /\ file'[f] = c /\ exists' = exists \cup {f}
          /\ Ended(f)' <=> c # <<>> /\ Last(c) = END
          /\ Ended(Other(f))' <=> Ended(Other(f))
      BY <3>1, <2>6, ModifyType
    <3>3. exists' = exists
      BY <1>0, <2>1, <3>2
    <3>4. QED BY <2>5, <3>2, <3>3
  <2>8. tell' = Len(c) /\ tell' \in Failed..MaxLen
    BY <2>2, <2>5, <2>6, <2>7, Lengths
  <2>9. WriteType'
    BY <1>0, <1>1, <2>8 DEF WriteType
  <2>10. Writing'
    <3>1. tell' >= Len(file'[f])
      BY <2>2, <2>5, <2>7, <2>8
    <3>2. cur' = f
      BY <1>1, <2>1
    <3>3. /\ ~Ended(cur)' /\ tell' >= Len(file'[cur']) /\ cur' \in exists'
          /\ Other(cur') \in exists' => Ended(Other(cur))'
      <4>1. Ended(cur)' <=> Ended(f)'
        BY <3>2 DEF Ended
      <4>2. Ended(Other(cur))' <=> Ended(Other(f))'
        BY <3>2 DEF Ended, Other
      <4>3. QED BY <1>0, <2>1, <2>7, <3>1, <3>2, <4>1, <4>2
    <3>4. QED BY <3>3 DEF Writing
  <2>11. Pair'
    <3>1. 2 \in exists' => 1 \in exists'
      BY <1>0, <2>7 DEF Pair
    <3>2. exists' = Files => Ended(Other(f))'
      BY <1>0, <2>1, <2>7, Two
    <3>3. Other(f) = 1 \/ Other(f) = 2
      BY Two
    <3>4. Ended(Other(f))' => Ended(1)' \/ Ended(2)'
      BY <3>3 DEF Ended
    <3>5. QED BY <3>1, <3>2, <3>4 DEF Pair
  <2>12. QED BY <2>7, <2>9, <2>10, <2>11 DEF WInv
<1>4. QED BY <1>2, <1>3

(* The steps that leave the files and the process alone.                   *)
LEMMA SameWInv == ASSUME WInv, UNCHANGED <<log, write>> PROVE WInv'
BY DEF WInv, LogType, WriteType, Sizes, Writing, Pair, Ended, Live, log, write

LEMMA OpenFileWInv == ASSUME WInv, OpenFile PROVE WInv'
<1>1. PICK f \in Files : f = FileToOpen
  BY Choice DEF WInv
<1>2. /\ cur' = f /\ writer' = "idle" /\ lines' = lines
      /\ \/ BothEnded /\ Modify(f, <<>>) /\ tell' = 0
         \/ /\ ~BothEnded /\ tell' \in SizeToSeek(f)
            /\ IF f \in exists THEN UNCHANGED log ELSE Modify(f, <<>>)
  BY <1>1 DEF OpenFile, Truncate
<1>3. /\ LogType /\ Sizes /\ Pair /\ WriteType
      /\ BothEnded => f \in exists /\ Ended(Other(f))
      /\ ~BothEnded => ~Ended(f) /\ (Other(f) \in exists => Ended(Other(f)))
  BY <1>1, Choice DEF WInv
<1>4. <<>> \in Seq(Line) /\ Len(<<>>) < MaxLen /\ Len(<<>>) = 0 /\ Len(<<>>) <= MaxLen
  BY Lengths
<1>5. /\ LogType' /\ Sizes' /\ ~Ended(f)' /\ exists' = exists \cup {f}
      /\ Ended(Other(f))' <=> Ended(Other(f))
      /\ tell' \in {Failed, 0, MaxSize + 1} \cup {Len(file'[f])}
      /\ tell' = Failed \/ tell' >= Len(file'[f])
      /\ f \in exists \/ file'[f] = <<>>
  <2>1. ASSUME Modify(f, <<>>), tell' \in {Failed, 0, MaxSize + 1} PROVE <1>5!:
    <3>1. /\ LogType' /\ Sizes' /\ file'[f] = <<>> /\ exists' = exists \cup {f}
          /\ Ended(f)' <=> (<<>> # <<>> /\ Last(<<>>) = END)
          /\ Ended(Other(f))' <=> Ended(Other(f))
      BY <1>3, <1>4, <2>1, ModifyType
    <3>2. QED BY <1>4, <2>1, <3>1, Lengths
  <2>2. CASE BothEnded
    BY <1>2, <2>1, <2>2
  <2>3. CASE ~BothEnded /\ f \notin exists
    BY <1>2, <2>1, <2>3 DEF SizeToSeek
  <2>4. CASE ~BothEnded /\ f \in exists
    <3>1. UNCHANGED log /\ tell' = Len(file[f])
      BY <1>2, <2>4 DEF SizeToSeek
    <3>2. QED BY <1>3, <2>4, <3>1, Lengths DEF LogType, Sizes, Ended, log
  <2>5. QED BY <2>2, <2>3, <2>4
<1>6. WriteType'
  <2>1. Len(file'[f]) \in Nat /\ Len(file'[f]) <= MaxLen
    BY <1>5, Lengths DEF LogType, Sizes
  <2>2. QED BY <1>2, <1>3, <1>5, <2>1, Lengths DEF WriteType
<1>7. Other(f) \in exists' => Ended(Other(f))'
  BY <1>2, <1>3, <1>5, Two
<1>8. Writing'
  BY <1>2, <1>5, <1>7 DEF Writing, Ended, Other
<1>9. Pair'
  <2>1. Other(f) = 1 \/ Other(f) = 2
    BY Two
  <2>2. exists' = Files => Ended(1)' \/ Ended(2)'
    BY <1>7, <2>1, Two DEF Ended
  <2>3. 2 \in exists' => 1 \in exists'
    <3>1. CASE f = 2 /\ 1 \notin exists
      <4>1. exists = {}
        BY <1>3, <3>1, Two DEF Pair, LogType
      <4>2. ~BothEnded /\ Unended = {}
        BY <4>1, Two DEF BothEnded, Unended
      <4>3. FileToOpen = 1
        BY <4>1, <4>2, Two DEF FileToOpen
      <4>4. QED BY <1>1, <3>1, <4>3
    <3>2. CASE ~(f = 2 /\ 1 \notin exists)
      BY <1>3, <1>5, <3>2 DEF Pair
    <3>3. QED BY <3>1, <3>2
  <2>4. QED BY <2>2, <2>3 DEF Pair
<1>10. QED BY <1>5, <1>6, <1>8, <1>9 DEF WInv

LEMMA EndFileWInv == ASSUME WInv, EndFile PROVE WInv'
<1>1. PICK f \in Files : f = cur
  BY DEF WInv, WriteType
<1>2. /\ LogType /\ WriteType /\ Sizes /\ Pair /\ f \in exists /\ ~Ended(f)
      /\ Other(f) \in exists => Ended(Other(f))
  BY <1>1 DEF WInv, Writing, EndFile
<1>3. PICK c \in Seq(Line) : c = Append(file[f], END)
  <2>1. file[f] \in Seq(Line) /\ END \in Line
    BY <1>2, Lengths DEF LogType, Line
  <2>2. QED BY <2>1, AtEnd
<1>4. Len(c) <= MaxLen /\ c # <<>> /\ Last(c) = END
  BY <1>2, <1>3, AtEnd, Lengths DEF LogType, Sizes, Line
<1>5. /\ Modify(f, c) /\ cur' = Other(f) /\ writer' = "truncate"
      /\ tell' = tell /\ lines' = lines
  BY <1>1, <1>3 DEF EndFile, WithEnd
<1>6. /\ LogType' /\ Sizes' /\ Ended(f)' /\ exists' = exists \cup {f}
      /\ (Ended(Other(f))' <=> Ended(Other(f)))
      /\ file'[Other(f)] = file[Other(f)]
  <2>1. /\ LogType' /\ Sizes' /\ file'[f] = c /\ exists' = exists \cup {f}
        /\ file'[Other(f)] = file[Other(f)]
        /\ Ended(f)' <=> (c # <<>> /\ Last(c) = END)
        /\ Ended(Other(f))' <=> Ended(Other(f))
    BY <1>2, <1>4, <1>5, ModifyType
  <2>2. QED BY <1>4, <2>1
<1>7. WriteType'
  BY <1>2, <1>5, Two DEF WriteType
<1>8. Writing'
  <2>1. Other(f) \notin exists => file[Other(f)] = <<>>
    BY <1>2, Two DEF Sizes
  <2>2. ~Live(Other(f))'
    BY <1>2, <1>6, <2>1 DEF Live, Ended
  <2>3. QED BY <1>5, <1>6, <2>2, Two DEF Writing, Ended, Live
<1>9. Pair'
  BY <1>2, <1>6, Two DEF Pair, Ended
<1>10. QED BY <1>6, <1>7, <1>8, <1>9 DEF WInv

LEMMA OpenOtherWInv == ASSUME WInv, OpenOther PROVE WInv'
<1>1. PICK f \in Files : f = cur
  BY DEF WInv, WriteType
<1>2. LogType /\ WriteType /\ Sizes /\ Pair /\ Ended(Other(f))
  BY <1>1 DEF WInv, Writing, OpenOther
<1>3. /\ Modify(f, <<>>) /\ cur' = f /\ writer' = "line" /\ tell' = 0 /\ lines' = lines
  BY <1>1 DEF OpenOther, Truncate
<1>4. <<>> \in Seq(Line) /\ Len(<<>>) < MaxLen /\ Len(<<>>) <= MaxLen
  BY Lengths
<1>5. /\ LogType' /\ Sizes' /\ file'[f] = <<>> /\ exists' = exists \cup {f}
      /\ (Ended(Other(f))' <=> Ended(Other(f)))
  BY <1>2, <1>3, <1>4, ModifyType
<1>6. WriteType'
  BY <1>2, <1>3, Lengths DEF WriteType
<1>7. Writing'
  BY <1>2, <1>3, <1>5 DEF Writing, Ended, Other
<1>8. Pair'
  <2>1. Other(f) \in exists
    BY <1>2, Two DEF Sizes, Ended
  <2>2. QED BY <1>2, <1>5, <2>1, Two DEF Pair, Ended
<1>9. QED BY <1>5, <1>6, <1>7, <1>8 DEF WInv

LEMMA KillProcessWInv == ASSUME WInv, KillProcess PROVE WInv'
BY DEF KillProcess, WInv, LogType, WriteType, Sizes, Writing, Pair, Ended, Live, log

LEMMA StartMonitorWInv == ASSUME WInv, StartMonitor PROVE WInv'
<1>0. LogType /\ WriteType /\ Sizes /\ Writing /\ Pair /\ UNCHANGED write /\ 1 \in Files
  BY Two DEF WInv, StartMonitor
<1>1. CASE 1 \in exists
  BY <1>1, SameWInv DEF StartMonitor
<1>2. CASE 1 \notin exists
  <2>1. Modify(1, <<>>)
    BY <1>2 DEF StartMonitor
  <2>2. <<>> \in Seq(Line) /\ Len(<<>>) < MaxLen /\ Len(<<>>) <= MaxLen
    BY Lengths
  <2>3. /\ LogType' /\ Sizes' /\ file'[1] = <<>> /\ exists' = exists \cup {1}
        /\ file'[Other(1)] = file[Other(1)]
    BY <1>0, <2>1, <2>2, ModifyType
  <2>4. file[1] = <<>> /\ exists = {}
    BY <1>0, <1>2, Two DEF Sizes, Pair, LogType
  <2>5. file' = file
    BY <1>0, <2>3, <2>4, Two DEF LogType
  <2>6. Pair'
    BY <2>3, <2>4, Two DEF Pair
  <2>7. WriteType' /\ Writing'
    BY <1>0, <2>3, <2>4, <2>5, Two DEF WriteType, Writing, Ended, Live, write
  <2>8. QED BY <2>3, <2>6, <2>7 DEF WInv
<1>3. QED BY <1>1, <1>2

LEMMA NextWInv == ASSUME WInv, [Next]_vars PROVE WInv'
<1>1. CASE OpenFile
  BY <1>1, OpenFileWInv
<1>2. CASE WriteLog
  BY <1>2, PutType DEF WriteLog
<1>3. CASE EndFile
  BY <1>3, EndFileWInv
<1>4. CASE OpenOther
  BY <1>4, OpenOtherWInv
<1>5. CASE FirstLine
  <2>1. tell <= MaxSize
    BY <1>5, Lengths DEF FirstLine, WInv, Writing
  <2>2. QED BY <1>5, <2>1, PutType DEF FirstLine
<1>6. CASE KillProcess
  BY <1>6, KillProcessWInv
<1>7. CASE StartMonitor
  BY <1>7, StartMonitorWInv
<1>8. CASE Watch \/ ReadError \/ KillMonitor \/ UNCHANGED vars
  <2>1. UNCHANGED <<log, write>>
    BY <1>8 DEF Watch, LookAtSize, LookAtLast, StatFirst, GetNewerFile, OpenLogFileTail, ReadLines,
                ReadError, KillMonitor, vars
  <2>2. QED BY <2>1, SameWInv
<1>9. QED BY <1>1, <1>2, <1>3, <1>4, <1>5, <1>6, <1>7, <1>8 DEF Next

LEMMA WInvHolds == Spec => []WInv
<1>1. Init => WInv
  BY InitWInv
<1>2. WInv /\ [Next]_vars => WInv'
  BY NextWInv
<1>3. QED BY <1>1, <1>2, PTL DEF Spec

(* At most one of the two files is neither empty nor ended: the file that  *)
(* the watcher takes for the current one is the only one that can be.      *)
THEOREM OneLogIsCurrent == Spec => []OneLiveFile
<1>1. ASSUME WInv PROVE OneLiveFile
  <2>1. SUFFICES ASSUME Live(1), Live(2) PROVE FALSE
    BY DEF OneLiveFile
  <2>2. \A f \in Files : Live(f) => f \in exists /\ ~Ended(f)
    BY <1>1 DEF WInv, Sizes, Live, Ended
  <2>3. 1 \in exists /\ 2 \in exists /\ ~Ended(1) /\ ~Ended(2)
    BY <2>1, <2>2, Two
  <2>4. exists = Files
    <3>1. exists \subseteq Files
      BY <1>1 DEF WInv, LogType
    <3>2. \A f \in Files : f \in exists
      BY <2>3 DEF Files
    <3>3. QED BY <3>1, <3>2
  <2>5. QED BY <1>1, <2>3, <2>4 DEF WInv, Pair
<1>2. QED BY <1>1, WInvHolds, PTL

-----------------------------------------------------------------------------
(* A turn of the log.                                                      *)

Bounded == /\ \A f \in Files : \A i \in 1..Len(file[f]) : file[f][i] <= lines
           /\ \A i \in 1..Len(analysed) : analysed[i] <= lines

(* File f has a line that is newer than all of the other file.             *)
Dominates(f) == \E i \in 1..Len(file[f]) : \A j \in 1..Len(file[Other(f)]) :
                   file[Other(f)][j] < file[f][i]

Kept(f) == Dominates(f) \/ file[f] = <<END>>

Turns == /\ \A f \in Files : Live(f) => Dominates(f)
         /\ writer = "truncate" => Kept(Other(cur))
         /\ BothEnded /\ newer # 0 => Kept(newer)

-----------------------------------------------------------------------------
(* The watcher.                                                            *)

WatchType == /\ watcher \in {"off", "size", "last", "newer", "second", "open", "tail"}
             /\ test \in 1..3 /\ look \in Files /\ tailFromTop \in BOOLEAN
             /\ chosen \in Files \cup {NoFile}
             /\ watcher \in {"open", "tail"} => chosen \in Files
             /\ pos \in 0..MaxLen /\ analysed \in Seq(1..MaxLines) /\ faults \in 0..MaxFaults

(* Line e is newer than what the watcher has analysed.                     *)
New(e) == \A i \in 1..Len(analysed) : analysed[i] < e

Fresh(f) == \A i \in 1..Len(file[f]) : file[f][i] # END => New(file[f][i])

Ascending == /\ \A f \in Files : \A i, j \in 1..Len(file[f]) :
                   i < j /\ file[f][j] # END => file[f][i] < file[f][j]
             /\ \A i, j \in 1..Len(analysed) : i < j => analysed[i] < analysed[j]

Searches == watcher \in {"size", "last"}

(* It begins at the top only when each file was seen empty or ended since  *)
(* the search began: a file that is not ended then holds only new lines.   *)
Search1 == /\ Searches /\ test = 2 => look = 1
           /\ Searches /\ test = 3 => look = 2 /\ (Fresh(1) \/ Ended(1))
Search2 == Searches /\ tailFromTop => /\ \A f \in Files : Fresh(f) \/ Ended(f)
                                      /\ test = 1 /\ look = 2 => Fresh(1)
Search3 == /\ watcher \in {"newer", "second"} /\ tailFromTop => \A f \in Files : Fresh(f)
           /\ watcher = "open" /\ tailFromTop => Fresh(chosen)
Tails == watcher = "tail" => \A i \in 1..Len(file[chosen]) :
                                i > pos /\ file[chosen][i] # END => New(file[chosen][i])

SInv == WatchType /\ Bounded /\ Ascending /\ Search1 /\ Search2 /\ Search3 /\ Tails

-----------------------------------------------------------------------------
(* What the process does to the files: each keeps its lines, is emptied,   *)
(* or gets a line while it is not ended.                                   *)
Grows(f) == /\ ~Ended(f)
            /\ \E e \in Line : /\ file'[f] = Append(file[f], e)
                               /\ e = END \/ (e = lines + 1 /\ lines' = lines + 1)

Effect(f) == file'[f] = file[f] \/ file'[f] = <<>> \/ Grows(f)

Logs == OpenFile \/ WriteLog \/ EndFile \/ OpenOther \/ FirstLine \/ KillProcess

LEMMA LogsEffect == ASSUME WInv, Logs
                    PROVE  /\ \A f \in Files : Effect(f)
                           /\ lines' \in {lines, lines + 1}
                           /\ UNCHANGED <<watcher, search, analysed>>
                           /\ pos' = pos \/ (pos' \in 0..MaxLen /\ file'[chosen] = <<>>)
<1>0. LogType /\ WriteType /\ Writing /\ cur \in Files
  BY DEF WInv, WriteType
<1>1. ASSUME NEW f \in Files, Modify(f, <<>>) PROVE file'[f] = <<>> /\ \A g \in Files : Effect(g)
  BY <1>0, <1>1 DEF Modify, Effect, LogType
<1>2. ASSUME NEW f \in Files, Truncate(f)
      PROVE  /\ \A g \in Files : Effect(g)
             /\ pos' = pos \/ (pos' \in 0..MaxLen /\ file'[chosen] = <<>>)
  BY <1>1, <1>2 DEF Truncate
<1>3. ASSUME NEW e \in Line, Modify(cur, Append(file[cur], e)), ~Ended(cur),
             e = END \/ (e = lines + 1 /\ lines' = lines + 1)
      PROVE  \A g \in Files : Effect(g)
  BY <1>0, <1>3 DEF Modify, Effect, Grows, LogType
<1>4. ASSUME PutLine, ~Ended(cur)
      PROVE  /\ \A g \in Files : Effect(g)
             /\ lines' \in {lines, lines + 1} /\ UNCHANGED watch
  <2>1. lines' = lines + 1 /\ lines' \in Line /\ UNCHANGED watch
    BY <1>0, <1>4, Lengths DEF PutLine, WriteType, Line
  <2>2. CASE tell = Failed
    BY <1>4, <2>1, <2>2 DEF PutLine, Effect, log
  <2>3. CASE tell # Failed
    BY <1>3, <1>4, <2>1, <2>3 DEF PutLine
  <2>4. QED BY <2>1, <2>2, <2>3
<1>5. CASE OpenFile
  <2>1. PICK f \in Files : f = FileToOpen
    BY Choice DEF WInv
  <2>2. CASE BothEnded
    BY <1>2, <1>5, <2>1, <2>2 DEF OpenFile
  <2>3. CASE ~BothEnded
    BY <1>1, <1>5, <2>1, <2>3 DEF OpenFile, Effect, log
  <2>4. QED BY <1>5, <2>2, <2>3 DEF OpenFile
<1>6. CASE WriteLog
  BY <1>0, <1>4, <1>6 DEF WriteLog, Writing, watch
<1>7. CASE EndFile
  BY <1>0, <1>3, <1>7, Lengths DEF EndFile, WithEnd, Writing, watch, Line
<1>8. CASE OpenOther
  BY <1>0, <1>2, <1>8 DEF OpenOther
<1>9. CASE FirstLine
  BY <1>0, <1>4, <1>9 DEF FirstLine, Writing, Ended, watch
<1>10. CASE KillProcess
  BY <1>10 DEF KillProcess, Effect, log, watch
<1>11. QED BY <1>5, <1>6, <1>7, <1>8, <1>9, <1>10 DEF Logs

(* The effect on what is known of the lines.                               *)
LEMMA EffectKeeps == ASSUME LogType, WriteType, LogType', lines' \in {lines, lines + 1},
                            Bounded, analysed' = analysed, analysed \in Seq(1..MaxLines),
                            \A f \in Files : Effect(f)
                     PROVE  /\ Bounded'
                            /\ Ascending => Ascending'
                            /\ \A f \in Files :
                                  /\ Fresh(f) => Fresh(f)'
                                  /\ Fresh(f) \/ Ended(f) => (Fresh(f)' \/ Ended(f)')
<1>1. /\ lines \in Nat /\ lines' \in Nat /\ lines' >= lines
      /\ \A i \in 1..Len(analysed) : analysed[i] \in Nat /\ analysed[i] <= lines
      /\ Len(analysed) \in Nat
  BY Lengths DEF WriteType, Bounded
<1>2. ASSUME NEW f \in Files
      PROVE  /\ \A i \in 1..Len(file'[f]) : file'[f][i] <= lines'
             /\ Ascending => \A i, j \in 1..Len(file'[f]) :
                               i < j /\ file'[f][j] # END => file'[f][i] < file'[f][j]
             /\ Fresh(f) => Fresh(f)'
             /\ Fresh(f) \/ Ended(f) => (Fresh(f)' \/ Ended(f)')
  <2>1. /\ file[f] \in Seq(Line) /\ Len(file[f]) \in Nat
        /\ \A i \in 1..Len(file[f]) : file[f][i] \in Line /\ file[f][i] <= lines
    BY <1>2, Lengths DEF LogType, Bounded
  <2>2. CASE file'[f] = file[f]
    BY <1>1, <1>2, <2>1, <2>2 DEF Fresh, Ended, New, Ascending, Line
  <2>3. CASE file'[f] = <<>>
    BY <2>3 DEF Fresh
  <2>4. CASE Grows(f)
    <3>1. PICK e \in Line : /\ file'[f] = Append(file[f], e)
                            /\ e = END \/ (e = lines + 1 /\ lines' = lines + 1)
      BY <2>4 DEF Grows
    <3>2. /\ Len(file'[f]) = Len(file[f]) + 1
          /\ file'[f][Len(file[f]) + 1] = e
          /\ \A i \in 1..Len(file[f]) : file'[f][i] = file[f][i]
      BY <2>1, <3>1
    <3>3. \A i \in 1..Len(file'[f]) : i \in 1..Len(file[f]) \/ i = Len(file[f]) + 1
      BY <2>1, <3>2
    <3>4. e <= lines'
      BY <1>1, <3>1, Lengths
    <3>5. \A i \in 1..Len(file'[f]) : file'[f][i] <= lines'
      <4>1. ASSUME NEW i \in 1..Len(file'[f]) PROVE file'[f][i] <= lines'
        <5>1. CASE i \in 1..Len(file[f])
          <6>1. file'[f][i] = file[f][i] /\ file[f][i] \in Nat /\ file[f][i] <= lines
            BY <2>1, <3>2, <5>1, Lengths DEF Line
          <6>2. QED BY <1>1, <6>1
        <5>2. CASE i = Len(file[f]) + 1
          BY <3>2, <3>4, <5>2
        <5>3. QED BY <3>3, <5>1, <5>2
      <4>2. QED BY <4>1
    <3>6. Ascending => \A i, j \in 1..Len(file'[f]) :
                           i < j /\ file'[f][j] # END => file'[f][i] < file'[f][j]
      <4>1. SUFFICES ASSUME Ascending, NEW i \in 1..Len(file'[f]), NEW j \in 1..Len(file'[f]),
                            i < j, file'[f][j] # END
                     PROVE  file'[f][i] < file'[f][j]
        OBVIOUS
      <4>2. i \in 1..Len(file[f])
        BY <2>1, <3>2, <4>1
      <4>3. CASE j \in 1..Len(file[f])
        BY <1>2, <3>2, <4>1, <4>2, <4>3 DEF Ascending
      <4>4. CASE j = Len(file[f]) + 1
        BY <1>1, <2>1, <3>1, <3>2, <4>1, <4>2, <4>4 DEF Line
      <4>5. QED BY <3>3, <4>3, <4>4
    <3>7. Fresh(f) => Fresh(f)'
      <4>1. e # END => \A i \in 1..Len(analysed) : analysed[i] < e
        BY <1>1, <3>1
      <4>2. QED BY <1>1, <3>2, <3>3, <4>1 DEF Fresh, New
    <3>8. ~Ended(f)
      BY <2>4 DEF Grows
    <3>9. QED BY <3>5, <3>6, <3>7, <3>8
  <2>5. QED BY <1>2, <2>2, <2>3, <2>4 DEF Effect
<1>3. Bounded'
  BY <1>1, <1>2 DEF Bounded
<1>4. Ascending => Ascending'
  BY <1>1, <1>2 DEF Ascending
<1>5. QED BY <1>2, <1>3, <1>4

LEMMA LogsSInv == ASSUME WInv, WInv', SInv, Logs PROVE SInv'
<1>1. /\ LogType /\ WriteType /\ LogType' /\ lines' \in {lines, lines + 1}
      /\ UNCHANGED <<watcher, search, analysed>> /\ \A f \in Files : Effect(f)
      /\ pos' = pos \/ (pos' \in 0..MaxLen /\ file'[chosen] = <<>>)
      /\ Bounded /\ Ascending /\ WatchType
  BY LogsEffect DEF WInv, SInv
<1>2. /\ Bounded' /\ Ascending'
      /\ \A f \in Files : /\ Fresh(f) => Fresh(f)'
                          /\ Fresh(f) \/ Ended(f) => (Fresh(f)' \/ Ended(f)')
  BY <1>1, EffectKeeps DEF WatchType
<1>3. WatchType'
  <2>1. faults' \in 0..MaxFaults
    BY <1>1, Lengths DEF Logs, OpenFile, WriteLog, EndFile, OpenOther, FirstLine, KillProcess,
                         PutLine, Fault, WatchType
  <2>2. QED BY <1>1, <2>1 DEF WatchType, search
<1>4. Search1' /\ Search2' /\ Search3'
  <2>1. UNCHANGED <<watcher, test, look, tailFromTop, chosen>>
    BY <1>1 DEF search
  <2>2. Fresh(1) \/ Ended(1) => (Fresh(1)' \/ Ended(1)')
    BY <1>2, Two DEF Fresh, New, Ended
  <2>3. Fresh(1) => Fresh(1)'
    BY <1>2, Two DEF Fresh, New
  <2>4. Search1'
    BY <2>1, <2>2 DEF SInv, Search1, Searches
  <2>5. Search2'
    <3>1. Searches' = Searches
      BY <2>1 DEF Searches
    <3>2. ASSUME Searches, tailFromTop PROVE \A f \in Files : Fresh(f)' \/ Ended(f)'
      BY <1>2, <3>2 DEF SInv, Search2
    <3>3. Searches /\ tailFromTop /\ test = 1 /\ look = 2 => Fresh(1)'
      BY <2>3 DEF SInv, Search2
    <3>4. QED BY <2>1, <3>1, <3>2, <3>3 DEF Search2, Fresh, New, Ended
  <2>6. Search3'
    <3>1. watcher \in {"newer", "second"} /\ tailFromTop => \A f \in Files : Fresh(f)'
      BY <1>2 DEF SInv, Search3
    <3>2. ASSUME watcher = "open", tailFromTop PROVE Fresh(chosen)'
      <4>1. PICK f \in Files : f = chosen
        BY <1>1, <3>2 DEF WatchType
      <4>2. Fresh(f)
        BY <3>2, <4>1 DEF SInv, Search3
      <4>3. Fresh(f)' /\ chosen' = f
        BY <1>2, <2>1, <4>1, <4>2
      <4>4. QED BY <4>3 DEF Fresh, New
    <3>3. QED BY <2>1, <3>1, <3>2 DEF Search3, Fresh, New
  <2>7. QED BY <2>4, <2>5, <2>6
<1>5. Tails'
  <2>1. SUFFICES ASSUME watcher = "tail", NEW f \in Files, f = chosen,
                        NEW i \in 1..Len(file'[f]), i > pos', file'[f][i] # END,
                        NEW k \in 1..Len(analysed)
                 PROVE  analysed[k] < file'[f][i]
    BY <1>1, Zenon DEF Tails, New, search, WatchType
  <2>2. /\ file[f] \in Seq(Line) /\ Len(file[f]) \in Nat /\ pos' = pos /\ file'[f] # <<>>
        /\ lines \in Nat /\ analysed[k] \in Nat /\ analysed[k] <= lines
    <3>1. file[f] \in Seq(Line) /\ Len(file[f]) \in Nat
      BY <1>1, <2>1, Lengths DEF LogType
    <3>2. file'[f] # <<>>
      BY <2>1
    <3>3. pos' = pos
      BY <1>1, <2>1, <3>2
    <3>4. lines \in Nat
      BY <1>1 DEF WriteType
    <3>5. analysed[k] \in 1..MaxLines
      <4>1. analysed \in Seq(1..MaxLines)
        BY <1>1 DEF WatchType
      <4>2. QED BY <2>1, <4>1, Element
    <3>6. analysed[k] <= lines
      BY <1>1, <2>1 DEF Bounded
    <3>7. QED BY <3>1, <3>2, <3>3, <3>4, <3>5, <3>6
  <2>3. \A j \in 1..Len(file[f]) : j > pos /\ file[f][j] # END => analysed[k] < file[f][j]
    BY <2>1 DEF SInv, Tails, New
  <2>4. CASE file'[f] = file[f]
    BY <2>1, <2>2, <2>3, <2>4
  <2>5. CASE Grows(f)
    <3>1. PICK e \in Line : /\ file'[f] = Append(file[f], e)
                            /\ e = END \/ (e = lines + 1 /\ lines' = lines + 1)
      BY <2>5 DEF Grows
    <3>2. CASE i \in 1..Len(file[f])
      BY <2>1, <2>2, <2>3, <3>1, <3>2
    <3>3. CASE i = Len(file[f]) + 1
      BY <2>1, <2>2, <3>1, <3>3
    <3>4. QED BY <2>1, <2>2, <3>1, <3>2, <3>3
  <2>6. QED BY <1>1, <2>2, <2>4, <2>5 DEF Effect
<1>6. QED BY <1>2, <1>3, <1>4, <1>5 DEF SInv

LEMMA InitSInv == Init => SInv
<1> SUFFICES ASSUME Init PROVE SInv
  OBVIOUS
<1>0. /\ 1 \in Files /\ 1 \in 1..3 /\ 0 \in 0..MaxLen /\ 0 \in 0..MaxFaults
      /\ <<>> \in Seq(1..MaxLines) /\ Len(<<>>) = 0
  BY Lengths, Two
<1>1. WatchType
  BY <1>0 DEF Init, WatchType
<1>2. Bounded /\ Ascending
  BY <1>0 DEF Init, Bounded, Ascending
<1>3. QED BY <1>1, <1>2 DEF Init, SInv, Search1, Search2, Search3, Tails, Searches

(* The search begins.                                                      *)
LEMMA SearchSInv == ASSUME WInv, WatchType, Search, pos' = 0, faults' \in 0..MaxFaults,
                           analysed' \in Seq(1..MaxLines), Bounded', Ascending'
                    PROVE  SInv'
<1>1. WatchType'
  <2>1. 1 \in Files /\ 1 \in 1..3 /\ 0 \in 0..MaxLen
    BY Lengths, Two
  <2>2. /\ watcher' = "size" /\ test' = 1 /\ look' = 1 /\ tailFromTop' = FALSE
        /\ chosen' = NoFile
    BY DEF Search
  <2>3. QED BY <2>1, <2>2 DEF WatchType
<1>2. QED BY <1>1 DEF Search, SInv, Search1, Search2, Search3, Tails, Searches

LEMMA StartMonitorSInv == ASSUME WInv, SInv, StartMonitor PROVE SInv'
<1>1. UNCHANGED <<lines, analysed, faults>> /\ file' = file
  <2>1. CASE 1 \in exists
    BY <2>1 DEF StartMonitor, write, log
  <2>2. CASE 1 \notin exists
    BY <2>2, Two DEF StartMonitor, write, Modify, WInv, LogType, Sizes
  <2>3. QED BY <2>1, <2>2
<1>2. Bounded' /\ Ascending'
  BY <1>1 DEF SInv, Bounded, Ascending
<1>3. QED BY <1>1, <1>2, SearchSInv DEF StartMonitor, SInv, WatchType

(* The steps of the search only look.                                      *)
LEMMA SameLines == ASSUME file' = file, analysed' = analysed, lines' = lines
                   PROVE  /\ Bounded' <=> Bounded
                          /\ Ascending' <=> Ascending
BY DEF Bounded, Ascending

(* A condition fails: the file was empty or ended.                         *)
LEMMA NextTestSInv == ASSUME WInv, SInv, Searches, NextTest, chosen' = chosen,
                             UNCHANGED <<log, write, pos, analysed, faults>>,
                             Fresh(look) \/ Ended(look)
                      PROVE  SInv'
<1>1. /\ file' = file /\ analysed' = analysed /\ lines' = lines
      /\ watcher' = "size" /\ test' = (test % 3) + 1
      /\ look' = IF test' = 3 THEN 2 ELSE 1
      /\ tailFromTop' = (tailFromTop \/ test = 3)
  BY DEF NextTest, TestAfter, log, write
<1>2. Bounded' /\ Ascending'
  BY <1>1, SameLines DEF SInv
<1>3. test \in 1..3 /\ test' \in 1..3 /\ (test' = 1 <=> test = 3) /\ (test' = 3 <=> test = 2)
  BY <1>1 DEF SInv, WatchType
<1>4. WatchType'
  BY <1>1, <1>3, Two DEF SInv, WatchType
<1>5. \A f \in Files : /\ Fresh(f)' <=> Fresh(f)
                       /\ Ended(f)' <=> Ended(f)
  BY <1>1 DEF Fresh, New, Ended
<1>6. Search1'
  <2>1. test = 2 => Fresh(1) \/ Ended(1)
    BY DEF SInv, Search1
  <2>2. QED BY <1>1, <1>3, <2>1 DEF Search1, Searches, Fresh, New, Ended
<1>7. Search2'
  <2>1. ASSUME test = 3 PROVE \A f \in Files : Fresh(f) \/ Ended(f)
    <3>1. (Fresh(1) \/ Ended(1)) /\ (Fresh(2) \/ Ended(2))
      BY <2>1 DEF SInv, Search1
    <3>2. QED BY <3>1, Two
  <2>2. ASSUME tailFromTop' PROVE \A f \in Files : Fresh(f) \/ Ended(f)
    BY <1>1, <2>1, <2>2 DEF SInv, Search2
  <2>3. test' = 1 => look' # 2
    BY <1>1
  <2>4. QED BY <1>1, <2>2, <2>3 DEF Search2, Fresh, New, Ended
<1>8. Search3' /\ Tails'
  BY <1>1 DEF Search3, Tails
<1>9. QED BY <1>2, <1>4, <1>6, <1>7, <1>8 DEF SInv

LEMMA LookAtSizeSInv == ASSUME WInv, SInv, LookAtSize PROVE SInv'
<1>1. UNCHANGED <<log, write, pos, analysed, faults>> /\ Searches /\ look \in Files
  BY DEF LookAtSize, Searches, SInv, WatchType
<1>2. CASE look \in exists /\ file[look] # <<>>
  <2>1. /\ watcher = "size" /\ watcher' = "last"
        /\ UNCHANGED <<test, look, tailFromTop, chosen, file, lines, pos, analysed, faults>>
    BY <1>1, <1>2 DEF LookAtSize, search, log, write
  <2>2. Bounded' /\ Ascending'
    BY <2>1, SameLines DEF SInv
  <2>3. WatchType'
    BY <2>1 DEF SInv, WatchType
  <2>4. Search1' /\ Search2' /\ Search3' /\ Tails'
    BY <2>1 DEF SInv, Search1, Search2, Search3, Tails, Searches, Fresh, New, Ended
  <2>5. QED BY <2>2, <2>3, <2>4 DEF SInv
<1>3. CASE ~(look \in exists /\ file[look] # <<>>)
  <2>1. Fresh(look)
    BY <1>1, <1>3 DEF WInv, Sizes, Fresh
  <2>2. QED BY <1>1, <1>3, <2>1, NextTestSInv DEF LookAtSize
<1>4. QED BY <1>2, <1>3

LEMMA LookAtLastSInv == ASSUME WInv, SInv, LookAtLast PROVE SInv'
<1>1. UNCHANGED <<log, write, pos, analysed, faults>> /\ Searches /\ look \in Files
  BY DEF LookAtLast, Searches, SInv, WatchType
<1>2. CASE Ended(look)
  BY <1>1, <1>2, NextTestSInv DEF LookAtLast
<1>3. CASE ~Ended(look)
  <2>1. UNCHANGED <<test, tailFromTop, file, lines, pos, analysed, faults>>
    BY <1>1, <1>3 DEF LookAtLast, log, write
  <2>2. Bounded' /\ Ascending'
    BY <2>1, SameLines DEF SInv
  <2>3. tailFromTop => Fresh(look)
    BY <1>1, <1>3 DEF SInv, Search2
  <2>4. CASE test = 1 /\ look = 1
    <3>1. watcher' = "size" /\ look' = 2 /\ chosen' = chosen
      BY <1>3, <2>4 DEF LookAtLast
    <3>2. WatchType'
      BY <2>1, <3>1, Two DEF SInv, WatchType
    <3>3. Search1' /\ Search3' /\ Tails'
      BY <2>1, <2>4, <3>1 DEF Search1, Search3, Tails, Searches
    <3>4. Search2'
      BY <1>1, <2>1, <2>3, <2>4, <3>1 DEF SInv, Search2, Searches, Fresh, New, Ended
    <3>5. QED BY <2>2, <3>2, <3>3, <3>4 DEF SInv
  <2>5. CASE test = 1 /\ look = 2
    <3>1. watcher' = "newer" /\ look' = 2 /\ chosen' = chosen
      BY <1>3, <2>5 DEF LookAtLast
    <3>2. WatchType'
      BY <2>1, <3>1, Two DEF SInv, WatchType
    <3>3. Search1' /\ Search2' /\ Tails'
      BY <3>1 DEF Search1, Search2, Tails, Searches
    <3>4. tailFromTop => Fresh(1) /\ Fresh(2)
      BY <1>1, <2>3, <2>5 DEF SInv, Search2
    <3>5. Search3'
      <4>1. tailFromTop => \A f \in Files : Fresh(f)
        BY <3>4, Two
      <4>2. QED BY <2>1, <3>1, <4>1 DEF Search3, Fresh, New
    <3>6. QED BY <2>2, <3>2, <3>3, <3>5 DEF SInv
  <2>6. CASE test # 1
    <3>1. watcher' = "open" /\ look' = look /\ chosen' = look
      BY <1>3, <2>6 DEF LookAtLast
    <3>2. WatchType'
      BY <1>1, <2>1, <3>1 DEF SInv, WatchType
    <3>3. Search1' /\ Search2' /\ Tails'
      BY <3>1 DEF Search1, Search2, Tails, Searches
    <3>4. Search3'
      BY <2>1, <2>3, <3>1 DEF Search3, Fresh, New
    <3>5. QED BY <2>2, <3>2, <3>3, <3>4 DEF SInv
  <2>7. QED BY <1>1, <2>4, <2>5, <2>6, Two
<1>4. QED BY <1>2, <1>3

LEMMA StatFirstSInv == ASSUME WInv, SInv, StatFirst PROVE SInv'
<1>1. /\ UNCHANGED <<test, look, tailFromTop, file, lines, pos, analysed, faults>>
      /\ watcher = "newer" /\ watcher' \in {"second", "open"}
      /\ chosen' \in {chosen, 2} /\ (watcher' = "open" => chosen' = 2) /\ 2 \in Files
  BY Two DEF StatFirst, log, write
<1>2. Bounded' /\ Ascending'
  BY <1>1, SameLines DEF SInv
<1>3. WatchType'
  BY <1>1 DEF SInv, WatchType
<1>4. Search1' /\ Search2' /\ Tails'
  BY <1>1 DEF Search1, Search2, Tails, Searches
<1>5. Search3'
  BY <1>1 DEF SInv, Search3, Fresh, New
<1>6. QED BY <1>2, <1>3, <1>4, <1>5 DEF SInv

LEMMA GetNewerFileSInv == ASSUME WInv, SInv, GetNewerFile PROVE SInv'
<1>1. /\ UNCHANGED <<test, look, tailFromTop, file, lines, pos, analysed, faults>>
      /\ watcher = "second" /\ watcher' = "open" /\ chosen' \in Files
  BY Two DEF GetNewerFile, NewerFile, log, write
<1>2. Bounded' /\ Ascending'
  BY <1>1, SameLines DEF SInv
<1>3. WatchType'
  BY <1>1 DEF SInv, WatchType
<1>4. Search1' /\ Search2' /\ Tails'
  BY <1>1 DEF Search1, Search2, Tails, Searches
<1>5. Search3'
  BY <1>1 DEF SInv, Search3, Fresh, New
<1>6. QED BY <1>2, <1>3, <1>4, <1>5 DEF SInv

LEMMA OpenLogFileTailSInv == ASSUME WInv, SInv, OpenLogFileTail PROVE SInv'
<1>1. /\ UNCHANGED <<test, look, tailFromTop, chosen, file, lines, analysed, faults>>
      /\ watcher = "open" /\ watcher' = "tail" /\ chosen \in Files
      /\ pos' = IF tailFromTop THEN 0 ELSE Len(file[chosen])
  BY DEF OpenLogFileTail, StartOfTail, search, log, write, SInv, WatchType
<1>2. Bounded' /\ Ascending'
  BY <1>1, SameLines DEF SInv
<1>3. WatchType'
  <2>1. pos' \in 0..MaxLen
    BY <1>1, Lengths DEF WInv, LogType, Sizes
  <2>2. QED BY <1>1, <2>1 DEF SInv, WatchType
<1>4. Search1' /\ Search2' /\ Search3'
  BY <1>1 DEF Search1, Search2, Search3, Searches
<1>5. Tails'
  <2>1. CASE tailFromTop
    BY <1>1, <2>1 DEF SInv, Search3, Tails, Fresh, New
  <2>2. CASE ~tailFromTop
    <3>1. Len(file[chosen]) \in Nat
      BY <1>1, Lengths DEF WInv, LogType
    <3>2. QED BY <1>1, <2>2, <3>1 DEF Tails
  <2>3. QED BY <2>1, <2>2
<1>6. QED BY <1>2, <1>3, <1>4, <1>5 DEF SInv

(* The watcher analyses the lines b that follow its position.              *)
LEMMA Analyse == ASSUME WInv, SInv, watcher = "tail", NEW b \in Seq(Line),
                        pos + Len(b) <= Len(file[chosen]),
                        \A i \in 1..Len(b) : b[i] = file[chosen][pos + i] /\ b[i] # END,
                        analysed' = analysed \o b, UNCHANGED <<file, lines>>
                 PROVE  /\ analysed' \in Seq(1..MaxLines) /\ Bounded' /\ Ascending'
                        /\ \A k \in 1..Len(analysed') :
                              \/ k \in 1..Len(analysed) /\ analysed'[k] = analysed[k]
                              \/ \E i \in 1..Len(b) : /\ k = Len(analysed) + i
                                                      /\ analysed'[k] = b[i]
<1>1. PICK f \in Files : f = chosen
  BY DEF SInv, WatchType
<1>2. /\ file[f] \in Seq(Line) /\ Len(file[f]) \in Nat /\ pos \in Nat /\ Len(b) \in Nat
      /\ analysed \in Seq(1..MaxLines) /\ Len(analysed) \in Nat /\ lines \in Nat
      /\ MaxLines \in Nat /\ END = 0
  BY Lengths DEF WInv, LogType, WriteType, SInv, WatchType
<1>3. ASSUME NEW i \in 1..Len(b)
      PROVE  /\ b[i] = file[f][pos + i] /\ b[i] \in 1..MaxLines /\ b[i] <= lines
             /\ \A k \in 1..Len(analysed) : analysed[k] < b[i]
             /\ pos + i \in 1..Len(file[f])
  <2>1. pos + i \in 1..Len(file[f]) /\ pos + i > pos /\ b[i] = file[f][pos + i] /\ b[i] # END
    BY <1>1, <1>2
  <2>2. b[i] \in Line
    OBVIOUS
  <2>3. b[i] \in 1..MaxLines
    <3>1. b[i] \in 0..MaxLines /\ b[i] # 0
      BY <2>1, <2>2, Lengths DEF Line
    <3>2. QED BY <3>1, Lengths
  <2>4. b[i] <= lines
    BY <2>1 DEF SInv, Bounded
  <2>5. \A k \in 1..Len(analysed) : analysed[k] < b[i]
    BY <1>1, <2>1 DEF SInv, Tails, New
  <2>6. QED BY <2>1, <2>3, <2>4, <2>5
<1>4. b \in Seq(1..MaxLines)
  BY <1>3, Narrower
<1>5. analysed' \in Seq(1..MaxLines) /\ Len(analysed') = Len(analysed) + Len(b)
  BY <1>2, <1>4
<1>6. ASSUME NEW k \in 1..Len(analysed')
      PROVE  \/ k \in 1..Len(analysed) /\ analysed'[k] = analysed[k]
             \/ \E i \in 1..Len(b) : k = Len(analysed) + i /\ analysed'[k] = b[i]
  <2>1. CASE k \in 1..Len(analysed)
    BY <1>2, <1>4, <2>1
  <2>2. CASE k \notin 1..Len(analysed)
    <3>0. k \in Nat /\ k >= 1 /\ k <= Len(analysed) + Len(b) /\ k > Len(analysed)
      BY <1>2, <1>5, <2>2
    <3>1. PICK i \in 1..Len(b) : i = k - Len(analysed)
      <4>1. k - Len(analysed) \in 1..Len(b)
        BY <1>2, <3>0
      <4>2. QED BY <4>1, Zenon
    <3>2. k = Len(analysed) + i
      BY <1>2, <3>0, <3>1
    <3>3. analysed'[k] = b[i]
      BY <1>2, <1>4, <1>5, <3>0, <3>1, <3>2
    <3>4. QED BY <3>2, <3>3
  <2>3. QED BY <2>1, <2>2
<1>7. Bounded'
  <2>1. \A k \in 1..Len(analysed') : analysed'[k] <= lines
    BY <1>3, <1>6 DEF SInv, Bounded
  <2>2. QED BY <2>1 DEF SInv, Bounded
<1>8. Ascending'
  <2>1. ASSUME NEW i \in 1..Len(analysed'), NEW j \in 1..Len(analysed'), i < j
        PROVE  analysed'[i] < analysed'[j]
    <3>1. CASE j \in 1..Len(analysed)
      <4>1. i \in 1..Len(analysed)
        <5>1. i \in Nat /\ j \in Nat /\ i >= 1 /\ i < j /\ j <= Len(analysed)
          BY <1>2, <1>5, <2>1, <3>1
        <5>2. QED BY <1>2, <5>1
      <4>2. analysed'[i] = analysed[i] /\ analysed'[j] = analysed[j]
        BY <1>2, <1>6, <3>1, <4>1
      <4>3. QED BY <2>1, <3>1, <4>1, <4>2 DEF SInv, Ascending
    <3>2. CASE j \notin 1..Len(analysed)
      <4>1. PICK y \in 1..Len(b) : j = Len(analysed) + y /\ analysed'[j] = b[y]
        BY <1>6, <3>2
      <4>2. CASE i \in 1..Len(analysed) /\ analysed'[i] = analysed[i]
        BY <1>3, <4>1, <4>2
      <4>3. CASE \E x \in 1..Len(b) : i = Len(analysed) + x /\ analysed'[i] = b[x]
        <5>1. PICK x \in 1..Len(b) : i = Len(analysed) + x /\ analysed'[i] = b[x]
          BY <4>3
        <5>2. pos + x < pos + y /\ file[f][pos + y] # END
          <6>1. x \in Nat /\ y \in Nat /\ x < y
            BY <1>2, <2>1, <4>1, <5>1
          <6>2. file[f][pos + y] \in 1..MaxLines
            BY <1>3
          <6>3. pos + x < pos + y
            BY <1>2, <6>1
          <6>4. QED BY <6>2, <6>3, Lengths
        <5>3. file[f][pos + x] < file[f][pos + y]
          <6>1. pos + x \in 1..Len(file[f]) /\ pos + y \in 1..Len(file[f])
            BY <1>3
          <6>2. \A m, n \in 1..Len(file[f]) :
                   m < n /\ file[f][n] # END => file[f][m] < file[f][n]
            BY DEF SInv, Ascending
          <6>3. QED BY <5>2, <6>1, <6>2
        <5>4. QED BY <1>3, <4>1, <5>1, <5>3
      <4>4. QED BY <1>6, <4>2, <4>3
    <3>3. QED BY <3>1, <3>2
  <2>2. QED BY <2>1 DEF SInv, Ascending
<1>9. QED BY <1>5, <1>6, <1>7, <1>8

LEMMA ReadLinesSInv == ASSUME WInv, SInv, ReadLines PROVE SInv'
<1>1. PICK f \in Files : f = chosen
  BY DEF SInv, WatchType, ReadLines
<1>2. /\ file[f] \in Seq(Line) /\ Len(file[f]) \in Nat /\ pos \in Nat
      /\ file' = file /\ lines' = lines /\ faults' = faults /\ watcher = "tail"
  BY Lengths DEF WInv, LogType, SInv, WatchType, ReadLines, log, write
<1>3. PICK upTo \in (pos + 1)..Len(file[f]) :
         LET block == SubSeq(file[f], pos + 1, upTo)
             ends  == {i \in 1..Len(block) : block[i] = END}
         IN IF ends = {}
            THEN /\ analysed' = analysed \o block
                 /\ pos' = upTo
                 /\ UNCHANGED <<watcher, search>>
            ELSE /\ analysed' = analysed \o SubSeq(block, 1, Min(ends) - 1)
                 /\ pos' = 0
                 /\ Search
  BY <1>1, Zenon DEF ReadLines
<1> DEFINE block == SubSeq(file[f], pos + 1, upTo)
           ends  == {i \in 1..Len(block) : block[i] = END}
<1>4. /\ block \in Seq(Line) /\ Len(block) = upTo - pos
      /\ \A i \in 1..Len(block) : block[i] = file[f][pos + i]
  BY <1>2
<1> HIDE DEF block
<1>5. CASE ends = {}
  <2>1. analysed' = analysed \o block /\ pos' = upTo /\ UNCHANGED <<watcher, search>>
    BY <1>3, <1>5 DEF block
  <2>2. \A i \in 1..Len(block) : block[i] # END
    BY <1>5
  <2>3. /\ pos + Len(block) <= Len(file[f]) /\ pos' = pos + Len(block) /\ pos' \in 0..MaxLen
    BY <1>2, <1>4, <2>1, Lengths DEF WInv, Sizes
  <2>4. /\ analysed' \in Seq(1..MaxLines) /\ Bounded' /\ Ascending'
        /\ \A k \in 1..Len(analysed') :
              \/ k \in 1..Len(analysed) /\ analysed'[k] = analysed[k]
              \/ \E i \in 1..Len(block) : /\ k = Len(analysed) + i
                                          /\ analysed'[k] = block[i]
    BY <1>1, <1>2, <1>4, <2>1, <2>2, <2>3, Analyse
  <2>5. WatchType'
    BY <1>2, <2>1, <2>3, <2>4 DEF SInv, WatchType, search
  <2>6. Search1' /\ Search2' /\ Search3'
    BY <1>2, <2>1 DEF Search1, Search2, Search3, Searches
  <2>7. Tails'
    <3>1. SUFFICES ASSUME NEW i \in 1..Len(file[f]), i > pos', file[f][i] # END,
                          NEW k \in 1..Len(analysed')
                   PROVE  analysed'[k] < file[f][i]
      BY <1>1, <1>2, <2>1 DEF Tails, New, search
    <3>2. CASE k \in 1..Len(analysed) /\ analysed'[k] = analysed[k]
      <4>1. i > pos
        BY <1>2, <1>4, <2>3, <3>1
      <4>2. \A l \in 1..Len(analysed) : analysed[l] < file[f][i]
        BY <1>1, <1>2, <3>1, <4>1 DEF SInv, Tails, New
      <4>3. QED BY <3>2, <4>2
    <3>3. CASE \E x \in 1..Len(block) : k = Len(analysed) + x /\ analysed'[k] = block[x]
      <4>1. PICK x \in 1..Len(block) : analysed'[k] = block[x]
        BY <3>3
      <4>2. pos + x \in 1..Len(file[f]) /\ pos + x < i
        BY <1>2, <1>4, <2>3, <3>1
      <4>3. \A m, n \in 1..Len(file[f]) :
               m < n /\ file[f][n] # END => file[f][m] < file[f][n]
        BY DEF SInv, Ascending
      <4>4. QED BY <1>4, <3>1, <4>1, <4>2, <4>3
    <3>4. QED BY <2>4, <3>2, <3>3
  <2>8. QED BY <2>4, <2>5, <2>6, <2>7 DEF SInv
<1>6. CASE ends # {}
  <2>1. analysed' = analysed \o SubSeq(block, 1, Min(ends) - 1) /\ pos' = 0 /\ Search
    BY <1>3, <1>6 DEF block
  <2>2. ends \in SUBSET Nat
    BY <1>2, <1>4
  <2>3. PICK m \in ends : m = Min(ends) /\ \A y \in ends : m <= y
    BY <1>6, <2>2, MinIsLeast
  <2>0. /\ m \in Nat /\ m >= 1 /\ m <= Len(block) /\ block[m] = END
        /\ \A i \in 1..Len(block) : block[i] = END => m <= i
    BY <1>2, <1>4, <2>3
  <2>4. PICK b \in Seq(Line) : b = SubSeq(block, 1, m - 1)
    <3>1. \A i \in 1..(m - 1) : i \in 1..Len(block)
      BY <1>4, <2>0
    <3>2. SubSeq(block, 1, m - 1) \in Seq(Line)
      BY <1>4, <2>0, <3>1
    <3>3. QED BY <3>2
  <2>5. /\ Len(b) = m - 1 /\ Len(block) \in Nat /\ m \in 1..Len(block)
        /\ \A i \in 1..Len(b) : b[i] = block[i]
    <3>1. block \in Seq(Line) /\ Len(block) \in Nat
      BY <1>4
    <3>2. Len(b) = m - 1
      BY <2>0, <2>4, <3>1
    <3>3. \A i \in 1..Len(b) : b[i] = block[i]
      BY <2>0, <2>4, <3>1
    <3>4. QED BY <2>0, <3>1, <3>2, <3>3
  <2>6. \A i \in 1..Len(b) : b[i] = file[f][pos + i] /\ b[i] # END
    <3>1. ASSUME NEW i \in 1..Len(b) PROVE b[i] = file[f][pos + i] /\ b[i] # END
      <4>1. i \in 1..Len(block) /\ i < m /\ i \in Nat /\ m \in Nat
        BY <2>5
      <4>2. i \notin ends
        BY <2>3, <4>1
      <4>3. QED BY <1>4, <2>5, <4>1, <4>2
    <3>2. QED BY <3>1
  <2>7. pos + Len(b) <= Len(file[f])
    BY <1>2, <1>4, <2>5
  <2>8. analysed' \in Seq(1..MaxLines) /\ Bounded' /\ Ascending'
    BY <1>1, <1>2, <2>1, <2>3, <2>4, <2>6, <2>7, Analyse
  <2>9. QED BY <1>2, <2>1, <2>8, SearchSInv DEF SInv, WatchType
<1>7. QED BY <1>5, <1>6

LEMMA NextSInv == ASSUME WInv, WInv', SInv, [Next]_vars PROVE SInv'
<1>1. CASE Logs
  BY <1>1, LogsSInv
<1>2. CASE StartMonitor
  BY <1>2, StartMonitorSInv
<1>3. CASE LookAtSize
  BY <1>3, LookAtSizeSInv
<1>4. CASE LookAtLast
  BY <1>4, LookAtLastSInv
<1>5. CASE StatFirst \/ GetNewerFile
  BY <1>5, StatFirstSInv, GetNewerFileSInv
<1>6. CASE OpenLogFileTail
  BY <1>6, OpenLogFileTailSInv
<1>7. CASE ReadLines
  BY <1>7, ReadLinesSInv
<1>8. CASE ReadError
  <2>1. Bounded' /\ Ascending'
    BY <1>8, SameLines DEF ReadError, SInv, log, write
  <2>2. faults' \in 0..MaxFaults
    BY <1>8, Lengths DEF ReadError, Fault, SInv, WatchType
  <2>3. QED BY <1>8, <2>1, <2>2, SearchSInv DEF ReadError, SInv, WatchType
<1>9. CASE KillMonitor
  <2>1. Bounded' /\ Ascending'
    BY <1>9, SameLines DEF KillMonitor, SInv, log, write
  <2>2. faults' \in 0..MaxFaults /\ 0 \in 0..MaxLen
    BY <1>9, Lengths DEF KillMonitor, Fault, SInv, WatchType
  <2>3. WatchType'
    BY <1>9, <2>2 DEF KillMonitor, SInv, WatchType, search
  <2>4. QED BY <1>9, <2>1, <2>3 DEF KillMonitor, SInv, Search1, Search2, Search3, Tails, Searches
<1>10. CASE UNCHANGED vars
  <2>1. Bounded' /\ Ascending'
    BY <1>10, SameLines DEF SInv, vars, log, write, watch
  <2>2. UNCHANGED <<file, watcher, test, look, tailFromTop, chosen, pos, analysed, faults>>
    BY <1>10 DEF vars, log, watch, search
  <2>3. QED BY <2>1, <2>2 DEF SInv, WatchType, Search1, Search2, Search3, Tails, Searches,
                              Fresh, New, Ended
<1>11. QED BY <1>1, <1>2, <1>3, <1>4, <1>5, <1>6, <1>7, <1>8, <1>9, <1>10 DEF Next, Watch, Logs

LEMMA SInvHolds == Spec => []SInv
<1>1. Init => SInv
  BY InitSInv
<1>2. WInv /\ WInv' /\ SInv /\ [Next]_vars => SInv'
  BY NextSInv
<1>3. QED BY <1>1, <1>2, WInvHolds, PTL DEF Spec

(* Every variable keeps its type: the position of the watcher lies in a    *)
(* file, what it analyses are lines and no END.                            *)
THEOREM TypeCorrect == Spec => []TypeOK
<1>1. WInv /\ SInv => TypeOK
  BY DEF WInv, SInv, LogType, WriteType, WatchType, Sizes, TypeOK, Line
<1>2. QED BY <1>1, WInvHolds, SInvHolds, PTL

(* The watcher analyses no line twice and none before an older one: what   *)
(* it has not analysed of a file that it may begin at the top is new.      *)
THEOREM LinesInOrderOnce == Spec => []InOrderOnce
<1>1. SInv => InOrderOnce
  BY DEF SInv, WatchType, Ascending, InOrderOnce
<1>2. QED BY <1>1, SInvHolds, PTL

-----------------------------------------------------------------------------
(* The turns of the log.                                                   *)

LEMMA SameTurns == ASSUME Turns, file' = file, BothEnded' => BothEnded /\ newer' = newer,
                          writer' = "truncate" => writer = "truncate" /\ cur' = cur
                   PROVE  Turns'
<1>1. \A f : /\ Live(f)' <=> Live(f)
             /\ Dominates(f)' <=> Dominates(f)
             /\ Kept(f)' <=> Kept(f)
  BY DEF Live, Dominates, Kept
<1>2. \A f \in Files : Live(f)' => Dominates(f)'
  BY <1>1 DEF Turns
<1>3. writer' = "truncate" => Kept(Other(cur))'
  BY <1>1 DEF Turns, Kept, Dominates, Other
<1>4. BothEnded' /\ newer' # 0 => Kept(newer)'
  BY <1>1 DEF Turns, Kept, Dominates
<1>5. QED BY <1>2, <1>3, <1>4 DEF Turns

(* One file has been emptied, the other is ended.                          *)
LEMMA EmptyTurns == ASSUME NEW f \in Files, file'[f] = <<>>, Ended(Other(f))',
                           writer' # "truncate"
                    PROVE  Turns'
<1>1. ~Ended(f)' /\ ~Live(f)' /\ ~Live(Other(f))'
  BY DEF Ended, Live
<1>2. ASSUME NEW g \in Files PROVE ~Live(g)'
  BY <1>1, Two DEF Live
<1>3. ~BothEnded'
  BY <1>1 DEF BothEnded, Ended
<1>4. QED BY <1>2, <1>3 DEF Turns

LEMMA PutLineTurns == ASSUME WInv, WInv', Bounded, Turns, PutLine, writer \in {"idle", "line"},
                             writer' = "idle"
                      PROVE  Turns'
<1>1. PICK f \in Files : f = cur
  BY DEF WInv, WriteType
<1>2. CASE tell = Failed
  BY <1>2, SameTurns DEF PutLine, log, BothEnded, Ended
<1>3. CASE tell # Failed
  <2>1. /\ file[f] \in Seq(Line) /\ file[Other(f)] \in Seq(Line) /\ lines + 1 \in Line
        /\ lines \in Nat /\ Len(file[f]) \in Nat /\ lines + 1 # END
        /\ file'[f] = Append(file[f], lines + 1) /\ file'[Other(f)] = file[Other(f)]
    BY <1>1, <1>3, Two, Lengths DEF WInv, LogType, WriteType, PutLine, Modify, Line
  <2>2. /\ Len(file'[f]) = Len(file[f]) + 1 /\ Last(file'[f]) = lines + 1
        /\ file'[f][Len(file[f]) + 1] = lines + 1 /\ file'[f] # <<>>
    BY <2>1, AtEnd
  <2>3. ~Live(Other(f))' /\ ~Ended(f)'
    <3>1. Other(f) \in exists' => Ended(Other(f))'
      BY <1>1, <1>3 DEF WInv, Writing, PutLine, Ended, Other
    <3>2. Other(f) \notin exists' => file'[Other(f)] = <<>>
      BY Two DEF WInv, Sizes
    <3>3. QED BY <2>1, <2>2, <3>1, <3>2 DEF Live, Ended
  <2>4. Dominates(f)'
    <3>1. \A j \in 1..Len(file[Other(f)]) : /\ file[Other(f)][j] \in Nat
                                            /\ file[Other(f)][j] <= lines
      BY <2>1, Two, Lengths DEF Bounded, Line
    <3>2. \A j \in 1..Len(file'[Other(f)]) : file'[Other(f)][j] < lines + 1
      BY <2>1, <3>1
    <3>3. Len(file[f]) + 1 \in 1..Len(file'[f])
      BY <2>1, <2>2
    <3>4. QED BY <2>2, <3>2, <3>3 DEF Dominates
  <2>5. \A g \in Files : Live(g)' => Dominates(g)'
    <3>1. SUFFICES ASSUME NEW g \in Files PROVE Live(g)' => Dominates(g)'
      OBVIOUS
    <3>2. CASE g = f
      BY <2>4, <3>2
    <3>3. CASE g = Other(f)
      BY <2>3, <3>3 DEF Live
    <3>4. QED BY <3>2, <3>3, Two
  <2>6. ~BothEnded'
    BY <2>3 DEF BothEnded, Ended
  <2>7. QED BY <2>5, <2>6 DEF Turns
<1>4. QED BY <1>2, <1>3

LEMMA EndFileTurns == ASSUME WInv, WInv', Bounded, Turns, EndFile PROVE Turns'
<1>1. PICK f \in Files : f = cur
  BY DEF WInv, WriteType
<1>2. /\ file[f] \in Seq(Line) /\ Len(file[f]) \in Nat /\ END \in Line
      /\ file'[f] = Append(file[f], END) /\ file'[Other(f)] = file[Other(f)]
      /\ newer' \in {0, f} /\ writer' = "truncate" /\ cur' = Other(f) /\ ~Ended(f)
  BY <1>1, Two, Lengths DEF WInv, LogType, EndFile, WithEnd, Modify, Line, Writing
<1>3. /\ Len(file'[f]) = Len(file[f]) + 1 /\ Last(file'[f]) = END /\ file'[f] # <<>>
      /\ \A i \in 1..Len(file[f]) : i \in 1..Len(file'[f]) /\ file'[f][i] = file[f][i]
  BY <1>2, AtEnd
<1>4. Kept(f)'
  <2>1. CASE Live(f)
    <3>1. PICK i \in 1..Len(file[f]) :
             \A j \in 1..Len(file[Other(f)]) : file[Other(f)][j] < file[f][i]
      BY <2>1 DEF Turns, Dominates
    <3>2. QED BY <1>2, <1>3, <3>1 DEF Kept, Dominates
  <2>2. CASE file[f] = <<>>
    BY <1>2, <2>2 DEF Kept
  <2>3. QED BY <1>2, <2>1, <2>2 DEF Live, Ended
<1>5. \A g \in Files : ~Live(g)'
  <2>1. ~Live(cur)' /\ ~Live(f)'
    BY <1>2, <1>3 DEF WInv, Writing, Live
  <2>2. ~Live(Other(f))'
    BY <1>2, <2>1 DEF Live
  <2>3. SUFFICES ASSUME NEW g \in Files PROVE ~Live(g)'
    OBVIOUS
  <2>4. CASE g = f
    BY <2>1, <2>4 DEF Live
  <2>5. CASE g = Other(f)
    BY <2>2, <2>5 DEF Live
  <2>6. QED BY <2>4, <2>5, Two
<1>6. Kept(Other(cur))'
  <2>1. Other(cur') = f
    BY <1>2, Two
  <2>2. QED BY <1>4, <2>1 DEF Kept, Dominates, Other
<1>7. newer' # 0 => Kept(newer)'
  BY <1>2, <1>4 DEF Kept, Dominates
<1>8. QED BY <1>5, <1>6, <1>7 DEF Turns

LEMMA NextTurns == ASSUME WInv, WInv', Bounded, Turns, [Next]_vars PROVE Turns'
<1>1. CASE OpenFile
  <2>1. PICK f \in Files : /\ f = FileToOpen
                           /\ BothEnded => Ended(Other(f))
                           /\ ~BothEnded => ~Ended(f)
    BY Choice DEF WInv
  <2>2. CASE BothEnded
    <3>1. file'[f] = <<>> /\ file'[Other(f)] = file[Other(f)] /\ writer' = "idle"
      BY <1>1, <2>1, <2>2, Two DEF OpenFile, Truncate, Modify, WInv, LogType
    <3>2. Ended(Other(f))'
      BY <2>1, <2>2, <3>1 DEF Ended
    <3>3. QED BY <3>1, <3>2, EmptyTurns
  <2>3. CASE ~BothEnded
    <3>1. file' = file /\ ~BothEnded' /\ writer' = "idle"
      <4>1. CASE f \in exists
        BY <1>1, <2>1, <2>3, <4>1 DEF OpenFile, log, BothEnded, Ended
      <4>2. CASE f \notin exists
        <5>1. file[f] = <<>> /\ file' = [file EXCEPT ![f] = <<>>] /\ writer' = "idle"
          BY <1>1, <2>1, <2>3, <4>2 DEF OpenFile, Modify, WInv, Sizes
        <5>2. file' = file
          BY <5>1 DEF WInv, LogType
        <5>3. QED BY <5>1, <5>2 DEF BothEnded, Ended
      <4>3. QED BY <4>1, <4>2
    <3>2. QED BY <3>1, SameTurns
  <2>4. QED BY <2>2, <2>3
<1>2. CASE WriteLog
  BY <1>2, PutLineTurns DEF WriteLog
<1>3. CASE EndFile
  BY <1>3, EndFileTurns
<1>4. CASE OpenOther
  <2>1. PICK f \in Files : f = cur
    BY DEF WInv, WriteType
  <2>2. file'[f] = <<>> /\ file'[Other(f)] = file[Other(f)] /\ writer' = "line"
    BY <1>4, <2>1, Two DEF OpenOther, Truncate, Modify, WInv, LogType
  <2>3. Ended(Other(f))'
    BY <1>4, <2>1, <2>2 DEF OpenOther, WInv, Writing, Ended
  <2>4. QED BY <2>2, <2>3, EmptyTurns
<1>5. CASE FirstLine
  BY <1>5, PutLineTurns DEF FirstLine
<1>6. CASE KillProcess
  BY <1>6, SameTurns DEF KillProcess, log, BothEnded, Ended
<1>7. CASE StartMonitor
  <2>1. CASE 1 \in exists
    BY <1>7, <2>1, SameTurns DEF StartMonitor, log, write, BothEnded, Ended
  <2>2. CASE 1 \notin exists
    <3>1. file[1] = <<>> /\ file' = [file EXCEPT ![1] = <<>>] /\ UNCHANGED write
      BY <1>7, <2>2, Two DEF StartMonitor, Modify, WInv, Sizes
    <3>2. file' = file /\ ~Ended(1)'
      BY <3>1, Two DEF WInv, LogType, Ended
    <3>3. ~BothEnded'
      BY <3>2, Two DEF BothEnded, Ended
    <3>4. QED BY <3>1, <3>2, <3>3, SameTurns DEF write
  <2>3. QED BY <2>1, <2>2
<1>8. CASE Watch \/ ReadError \/ KillMonitor \/ UNCHANGED vars
  <2>1. UNCHANGED <<log, write>>
    BY <1>8 DEF Watch, LookAtSize, LookAtLast, StatFirst, GetNewerFile, OpenLogFileTail, ReadLines,
                ReadError, KillMonitor, vars
  <2>2. QED BY <2>1, SameTurns DEF log, write, BothEnded, Ended
<1>9. QED BY <1>1, <1>2, <1>3, <1>4, <1>5, <1>6, <1>7, <1>8 DEF Next

LEMMA TurnsHold == Spec => []Turns
<1>1. Init => Turns
  BY DEF Init, Turns, Live, BothEnded
<1>2. WInv /\ WInv' /\ Bounded /\ Turns /\ [Next]_vars => Turns'
  BY NextTurns
<1>3. SInv => Bounded
  BY DEF SInv
<1>4. QED BY <1>1, <1>2, <1>3, WInvHolds, SInvHolds, PTL DEF Spec

(* What a step does when it empties a file with lines.                     *)
LEMMA Emptied == ASSUME WInv, Turns, Next, NEW f \in Files, file[f] # <<>>, file'[f] = <<>>
                 PROVE  Kept(Other(f)) \/ (writer = "off" /\ newer = 0)
<1>1. CASE OpenFile
  <2>1. PICK g \in Files : /\ g = FileToOpen
                           /\ BothEnded /\ newer # 0 => Other(g) = newer
    BY Choice DEF WInv
  <2>2. CASE BothEnded
    <3>1. f = g
      BY <1>1, <2>1, <2>2 DEF OpenFile, Truncate, Modify, WInv, LogType
    <3>2. QED BY <1>1, <2>1, <2>2, <3>1 DEF OpenFile, Turns
  <2>3. CASE ~BothEnded
    BY <1>1, <2>1, <2>3 DEF OpenFile, Modify, log, WInv, LogType, Sizes
  <2>4. QED BY <2>2, <2>3
<1>2. ASSUME NEW e \in Line, Modify(cur, Append(file[cur], e)) PROVE FALSE
  <2>1. PICK g \in Files : g = cur
    BY DEF WInv, WriteType
  <2>2. file[g] \in Seq(Line) /\ file' = [file EXCEPT ![g] = Append(file[g], e)]
    BY <1>2, <2>1 DEF Modify, WInv, LogType
  <2>3. Append(file[g], e) # <<>>
    BY <2>2, AtEnd
  <2>4. QED BY <2>2, <2>3 DEF WInv, LogType
<1>3. CASE WriteLog \/ FirstLine
  <2>1. PutLine /\ lines + 1 \in Line
    BY <1>3, Lengths DEF WriteLog, FirstLine, PutLine, WInv, WriteType, Line
  <2>2. QED BY <1>2, <2>1 DEF PutLine, log
<1>4. CASE EndFile
  BY <1>2, <1>4, Lengths DEF EndFile, WithEnd, Line
<1>5. CASE OpenOther
  BY <1>5 DEF OpenOther, Truncate, Modify, Turns, WInv, LogType
<1>6. CASE StartMonitor
  BY <1>6 DEF StartMonitor, Modify, log, WInv, LogType, Sizes
<1>7. CASE KillProcess \/ Watch \/ ReadError \/ KillMonitor
  BY <1>7 DEF KillProcess, Watch, LookAtSize, LookAtLast, StatFirst, GetNewerFile, OpenLogFileTail,
              ReadLines, ReadError, KillMonitor, log
<1>8. QED BY <1>1, <1>3, <1>4, <1>5, <1>6, <1>7 DEF Next

(* A turn of the log, or a start of the process, never discards the newest *)
(* line but in the two cases that the property names.                      *)
THEOREM NewestLineKept == Spec => KeepsNewestLine
<1>1. ASSUME WInv, Turns, [Next]_vars, NEW f \in Files, file[f] # <<>>, file'[f] = <<>>
      PROVE  \/ \E n \in Range(file[Other(f)]) : \A k \in Range(file[f]) : k < n
             \/ writer = "off" /\ newer = 0
             \/ file[Other(f)] = <<END>>
  <2>1. Next
    BY <1>1 DEF vars, log
  <2>2. ASSUME Dominates(Other(f))
        PROVE  \E n \in Range(file[Other(f)]) : \A k \in Range(file[f]) : k < n
    <3>1. PICK i \in 1..Len(file[Other(f)]) :
             \A j \in 1..Len(file[f]) : file[f][j] < file[Other(f)][i]
      BY <2>2, Two DEF Dominates
    <3>2. /\ DOMAIN file[f] = 1..Len(file[f])
          /\ DOMAIN file[Other(f)] = 1..Len(file[Other(f)])
      BY <1>1, Two DEF WInv, LogType
    <3>3. file[Other(f)][i] \in Range(file[Other(f)])
      BY <3>2 DEF Range
    <3>4. \A k \in Range(file[f]) : k < file[Other(f)][i]
      BY <3>1, <3>2 DEF Range
    <3>5. QED BY <3>3, <3>4
  <2>3. QED BY <1>1, <2>1, <2>2, Emptied DEF Kept
<1>2. WInv /\ Turns /\ [Next]_vars
         => [\A f \in Files :
                (file[f] # <<>> /\ file'[f] = <<>>)
                   => \/ \E n \in Range(file[Other(f)]) : \A k \in Range(file[f]) : k < n
                      \/ writer = "off" /\ newer = 0
                      \/ file[Other(f)] = <<END>>]_vars
  BY <1>1
<1>3. QED BY <1>2, WInvHolds, TurnsHold, PTL DEF Spec, KeepsNewestLine

=============================================================================
