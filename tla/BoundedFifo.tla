---------------------------- MODULE BoundedFifo ----------------------------
(***************************************************************************)
(* What playback::Queue promises: a buffer of at most maxSize items that   *)
(* come out in the order in which they went in.                            *)
(***************************************************************************)
EXTENDS Naturals, Sequences

CONSTANTS Items, maxSize, NoItem

VARIABLES
    buffer,     \* the items in the queue
    taken       \* the item that left it last

Init == buffer = <<>> /\ taken = NoItem

Put ==
    /\ Len(buffer) < maxSize
    /\ \E i \in Items : buffer' = Append(buffer, i)
    /\ UNCHANGED taken

Take ==
    /\ buffer # <<>>
    /\ taken' = Head(buffer)
    /\ buffer' = Tail(buffer)

Next == Put \/ Take

vars == <<buffer, taken>>

Spec == Init /\ [][Next]_vars
=============================================================================
