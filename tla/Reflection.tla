----------------------------- MODULE Reflection -----------------------------
(***************************************************************************)
(* What the reflect process promises about the result files, whatever      *)
(* fails and however often it is killed and started again.  Files that     *)
(* were published are reflected together, and again after a failure: the   *)
(* control time of the alarm object becomes the earliest, or the manage    *)
(* commands fail and it stays.  Only then they go to the archive, and      *)
(* nothing else makes a file leave.  From the moment two updates of the    *)
(* control time run side by side, either may undo the other.               *)
(***************************************************************************)
EXTENDS Naturals, FiniteSetsExt

CONSTANTS NumFiles,     \* files that may be published
          LastTime      \* control times are 1..LastTime; none is one more

VARIABLES published,    \* the number of files published
          waiting,
          archived,
          reflected,    \* files the alarm object was told of
          overlooked,   \* files it was not told of, without a failure
          endTime,      \* [files -> the control time each carries]
          controlTime,  \* of the alarm object
          raced         \* two updates have run side by side

files == <<published, waiting, archived, reflected, overlooked, endTime, controlTime, raced>>

Init == /\ published = 0 /\ waiting = {} /\ archived = {}
        /\ reflected = {} /\ overlooked = {} /\ raced = FALSE
        /\ endTime \in [1..NumFiles -> 1..LastTime]
        /\ controlTime \in 1..(LastTime + 1)

Publish == /\ published < NumFiles
           /\ published' = published + 1
           /\ waiting' = waiting \cup {published + 1}
           /\ UNCHANGED <<archived, reflected, overlooked, endTime, controlTime, raced>>

Times(S) == {controlTime} \cup {endTime[f] : f \in S}

Reflect(S) == /\ reflected' = reflected \cup S
              /\ controlTime' \in IF raced THEN Times(S) ELSE {Min(Times(S))}
              /\ UNCHANGED <<published, waiting, archived, overlooked, endTime, raced>>

Overlook(S) == /\ overlooked' = overlooked \cup S
               /\ UNCHANGED <<published, waiting, archived, reflected, endTime, controlTime,
                              raced>>

Race == /\ raced' = TRUE
        /\ UNCHANGED <<published, waiting, archived, reflected, overlooked, endTime,
                       controlTime>>

Archive(f) == /\ f \in waiting /\ f \in reflected \cup overlooked
              /\ waiting' = waiting \ {f}
              /\ archived' = archived \cup {f}
              /\ UNCHANGED <<published, reflected, overlooked, endTime, controlTime, raced>>

Next == \/ Publish \/ Race
        \/ \E S \in SUBSET (1..published) : Reflect(S) \/ Overlook(S)
        \/ \E f \in waiting : Archive(f)

Spec == Init /\ [][Next]_files
=============================================================================
