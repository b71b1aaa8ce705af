------------------------------ MODULE ByteFile ------------------------------
(***************************************************************************)
(* What BufferMixin and MemoryBuffer promise: a file in memory that is     *)
(* read and overwritten at a position, extended at its end, and that may   *)
(* forget what was already read.  An operation has the effect that its     *)
(* arguments determine or, when it throws, none; but a failed load leaves  *)
(* no data, and a caller that claims to have written beyond the storage    *)
(* loses the file: only clear or a load make it usable again.              *)
(***************************************************************************)
EXTENDS Naturals, Sequences

CONSTANT Bytes

VARIABLES
    content,
    position,   \* bytes before the next one to be read or overwritten
    lost,       \* more was claimed to be written than has space
    read,       \* what the last operation returned
    thrown      \* it threw an exception

vars == <<content, position, lost, read, thrown>>

Unread == SubSeq(content, position + 1, Len(content))

Init ==
    /\ content \in Seq(Bytes)
    /\ position = 0
    /\ lost = FALSE
    /\ read = <<>>
    /\ thrown = FALSE

Returns(bytes) == read' = bytes /\ thrown' = FALSE /\ lost' = FALSE

Refuse == read' = <<>> /\ thrown' = TRUE /\ UNCHANGED <<content, position, lost>>

Overrun == content' = <<>> /\ position' = 0 /\ lost' = TRUE /\ read' = <<>> /\ thrown' = TRUE

-----------------------------------------------------------------------------
Overwrite(data) ==
    /\ content' = SubSeq(content, 1, position) \o data
                    \o SubSeq(content, position + Len(data) + 1, Len(content))
    /\ position' = position + Len(data)
    /\ Returns(<<>>)

Extend(data) == content' = content \o data /\ UNCHANGED position /\ Returns(<<>>)

Load(input, size) ==
    /\ position' = 0
    /\ \/ size <= Len(input) /\ content' = SubSeq(input, 1, size) /\ Returns(<<>>)
       \/ /\ size > Len(input) /\ content' = <<>>
          /\ read' = <<>> /\ thrown' = TRUE /\ lost' = FALSE

Take(n) ==
    /\ position' = position + n
    /\ Returns(SubSeq(Unread, 1, n))
    /\ UNCHANGED content

Get(n) == IF n > Len(Unread) THEN Refuse ELSE Take(n)

GetAtMost(n) == Take(IF n > Len(Unread) THEN Len(Unread) ELSE n)

Send(n) == IF n = 0 \/ Len(Unread) = 0 THEN Refuse ELSE GetAtMost(n)

\* Up to a zero, or everything.
GetString ==
    \E n \in 0..Len(Unread) :
        /\ \A i \in 1..n : Unread[i] # 0
        /\ n < Len(Unread) => Unread[n + 1] = 0
        /\ Take(n)

Seek(p) ==
    IF p > Len(content) THEN Refuse
    ELSE position' = p /\ UNCHANGED content /\ Returns(<<>>)

Clear == content' = <<>> /\ position' = 0 /\ Returns(<<>>)

DropRead == content' = Unread /\ position' = 0 /\ Returns(<<>>)

Rewind == position' = 0 /\ UNCHANGED content /\ Returns(<<>>)

Keep == UNCHANGED <<content, position>> /\ Returns(<<>>)

-----------------------------------------------------------------------------
Renew == Clear \/ \E input \in Seq(Bytes), size \in Nat : Load(input, size)

Next ==
    \/ /\ ~lost
       /\ \/ \E data \in Seq(Bytes) : Overwrite(data) \/ Extend(data)
          \/ \E n \in Nat : Get(n) \/ GetAtMost(n) \/ Send(n) \/ Seek(n)
          \/ GetString \/ DropRead \/ Rewind \/ Keep \/ Refuse \/ Overrun
    \/ Renew

Spec == Init /\ [][Next]_vars
=============================================================================
