------------------------------- MODULE Delivery -------------------------------
(***************************************************************************)
(* What amqp's publisher, queue and receiver promise together: a copy of a *)
(* message that the queue has taken leaves it only after the receiver has  *)
(* settled it (its callback has ended, or the copy was not acceptable), or *)
(* with everything else when the broker restarts.  A copy may be settled   *)
(* more than once.                                                         *)
(***************************************************************************)
CONSTANT Copies

VARIABLES
    kept,       \* the copies in the queue, with or without an acknowledgement due
    settled     \* the copies the receiver is through with

vars == <<kept, settled>>

Init == kept = {} /\ settled = {}

Take(c) ==
    /\ c \notin kept \cup settled
    /\ kept' = kept \cup {c}
    /\ UNCHANGED settled

Settle(c) ==
    /\ settled' = settled \cup {c}
    /\ UNCHANGED kept

Drop(c) ==
    /\ c \in kept \cap settled
    /\ kept' = kept \ {c}
    /\ UNCHANGED settled

Restart ==
    /\ kept' = {}
    /\ UNCHANGED settled

Next ==
    \/ \E c \in Copies : Take(c) \/ Settle(c) \/ Drop(c)
    \/ Restart

Spec == Init /\ [][Next]_vars

=============================================================================
