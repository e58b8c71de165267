------------------------------ MODULE Channel ------------------------------
(***************************************************************************)
(* What a WQueue promises to the thread that puts and the thread that      *)
(* gets: a bounded FIFO channel that can be closed.  Everything accepted   *)
(* is delivered once and in order; the receiver ends only on a closed      *)
(* channel whose content it has seen.  A sender that was inside its call   *)
(* when the channel was closed ("late") may still get one item accepted,   *)
(* and that item alone may stay undelivered.                               *)
(***************************************************************************)
EXTENDS Naturals, Sequences

CONSTANTS Item,       \* what can be sent
          Capacity    \* items in transit at most; 0: no bound

VARIABLES accepted,   \* the items whose Put returned true, oldest first
          delivered,  \* the items Get returned, oldest first
          closed,     \* Close was called
          late,       \* a call that began before Close has not returned yet
          ended       \* the receiver has got NULL

chan == <<accepted, delivered, closed, late, ended>>

InTransit == Len(accepted) - Len(delivered)

Init == /\ accepted = <<>> /\ delivered = <<>>
        /\ closed = FALSE /\ late = FALSE /\ ended = FALSE

Send(x) == /\ ~closed \/ late
           /\ Capacity = 0 \/ InTransit < Capacity
           /\ accepted' = Append(accepted, x)
           /\ late' = FALSE
           /\ UNCHANGED <<delivered, closed, ended>>

Deliver == /\ ~ended
           /\ Len(delivered) < Len(accepted)
           /\ delivered' = Append(delivered, accepted[Len(delivered) + 1])
           /\ UNCHANGED <<accepted, closed, late, ended>>

Close == /\ closed' = TRUE
         /\ late' \in BOOLEAN
         /\ UNCHANGED <<accepted, delivered, ended>>

End == /\ closed
       /\ InTransit = 0
       /\ ended' = TRUE
       /\ UNCHANGED <<accepted, delivered, closed, late>>

Next == \/ \E x \in Item : Send(x)
        \/ Deliver
        \/ Close
        \/ End

Spec == Init /\ [][Next]_chan
=============================================================================
