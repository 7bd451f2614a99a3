------------------------------ MODULE LinkFeed ------------------------------
(***************************************************************************)
(* What the WAN manager is promised about the states of a link: it hears   *)
(* of them in the order they came in and in words for them.  A state may   *)
(* get lost, but none is invented, repeated or overtaken; no more than     *)
(* Capacity wait; and a restart of the process loses only the oldest and   *)
(* the newest of those that wait.                                          *)
(***************************************************************************)
EXTENDS Naturals, Sequences

CONSTANTS
    States,  \* the states of a link
    Words,   \* the words for each of them
    Capacity \* how many states may wait
VARIABLES
    current, \* the link's state, "none" in a new process
    pending, \* the states the WAN manager has not heard of, oldest first
    told     \* the last word it took

feedVars == <<current, pending, told>>

Init == current = "none" /\ pending = <<>> /\ told = "none"

Change(s) ==
    /\ Len(pending) < Capacity
    /\ current' = s
    /\ pending' = Append(pending, s)
    /\ UNCHANGED told

Tell ==
    /\ pending # <<>>
    /\ told' \in Words[Head(pending)]
    /\ pending' = Tail(pending)
    /\ UNCHANGED current

LoseOldest ==
    /\ pending # <<>>
    /\ pending' = Tail(pending)
    /\ UNCHANGED <<current, told>>

LoseNewest ==
    /\ pending # <<>>
    /\ pending' = SubSeq(pending, 1, Len(pending) - 1)
    /\ UNCHANGED <<current, told>>

Restart ==
    /\ current' = "none"
    /\ \E first \in {1, 2} : \E last \in {Len(pending) - 1, Len(pending)} :
          pending' = SubSeq(pending, first, last)
    /\ UNCHANGED told

Next == \/ Tell \/ LoseOldest \/ LoseNewest \/ Restart
        \/ \E s \in States : Change(s)

Spec == Init /\ [][Next]_feedVars
=============================================================================
