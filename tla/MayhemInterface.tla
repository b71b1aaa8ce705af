--------------------------- MODULE MayhemInterface ---------------------------
(***************************************************************************)
(* Mayhem interfaces (tools/net_mhm_itf) on one bridge: what each of them  *)
(* does with the frames of its TAP device.  ARP requests for its own IP    *)
(* are answered; every other ARP broadcast is written back to the bridge,  *)
(* which floods it to the other ports, where further Mayhem interfaces     *)
(* write it again.  broadcast_timetable alone ends that storm.             *)
(*                                                                         *)
(* An interface stands for its MAC and for its IP.  A frame is read whole  *)
(* and handled in one step: the thread shares nothing.  Time is counted    *)
(* from the entry of the timetable, in ticks.                              *)
(***************************************************************************)
EXTENDS Naturals, Sequences, FiniteSets

CONSTANTS
    Nodes,      \* the Mayhem interfaces
    Hosts,      \* the other interfaces on the bridge
    Broadcast,  \* ff:ff:ff:ff:ff:ff
    Nobody,     \* the target MAC of a request
    Interval,   \* REBROADCAST_INTERVAL
    MaxDelay,   \* a frame is handled within so many ticks after it was written
    QueueLen,   \* frames the kernel queues on a TAP device; it drops the others
    MaxSent     \* bound on the frames hosts and operators send

Interfaces == Nodes \cup Hosts

ASSUME NodesAssumption == IsFiniteSet(Nodes)
ASSUME BroadcastAssumption == Broadcast \notin Interfaces
ASSUME TimesAssumption == Interval \in Nat /\ MaxDelay \in Nat
\* A chain of rebroadcasts through all interfaces ends within the interval.
ASSUME DelayAssumption == MaxDelay * Cardinality(Nodes) <= Interval
ASSUME BoundsAssumption == QueueLen \in Nat /\ MaxSent \in Nat

ArpFrames ==
    [kind : {"ARP"}, dst : Interfaces \cup {Broadcast}, src : Interfaces,
     operation : {"request", "reply"},
     sender_mac : Interfaces, sender_ip : Interfaces,
     target_mac : Interfaces \cup {Nobody}, target_ip : Interfaces]

\* Frames whose content nothing depends on: IPv4, IPv6 that parses, and those
\* that make read_packet throw (an unsupported ethertype, bytes behind the ARP
\* header, an IPv6 length that does not match, a header cut short).
Frames == ArpFrames \cup [kind : {"IPv4", "IPv6", "unreadable"}]

VARIABLES
    inbox,      \* the frames read() will return: each with the nodes that
                \* rebroadcast it so far (via) and the ticks it waits (wait)
    broadcast_timetable,    \* ticks since the entry of a source MAC was made
    replies,    \* ARP replies written, with their author
    terminated, \* interfaces whose process ended
    sent        \* number of frames sent by hosts and operators

vars == <<inbox, broadcast_timetable, replies, terminated, sent>>

\* A missing entry and one older than the interval are treated alike.
Init ==
    /\ inbox = [n \in Nodes |-> <<>>]
    /\ broadcast_timetable = [n \in Nodes |-> [m \in Interfaces |-> Interval + 1]]
    /\ replies = {}
    /\ terminated = {}
    /\ sent = 0

-----------------------------------------------------------------------------
(* The bridge and its other users. *)

\* The frame reaches every running interface but the one that wrote it.
Deliver(queues, frame, via, writers) ==
    [n \in Nodes |->
        IF n \in writers \cup terminated \/ Len(queues[n]) >= QueueLen THEN queues[n]
        ELSE Append(queues[n], [frame |-> frame, via |-> via, wait |-> 0])]

Request(s, t) ==
    [kind |-> "ARP", dst |-> Broadcast, src |-> s, operation |-> "request",
     sender_mac |-> s, sender_ip |-> s, target_mac |-> Nobody, target_ip |-> t]

\* Announces the sender's own address.
Gratuitous(s) == [Request(s, s) EXCEPT !.operation = "reply", !.target_mac = s]

HostFrames(h) ==
    {Request(h, t) : t \in Interfaces \ {h}} \cup {Gratuitous(h)}
        \cup [kind : {"IPv4", "IPv6", "unreadable"}]

HostSends(h) ==
    /\ sent < MaxSent
    /\ \E frame \in HostFrames(h) : inbox' = Deliver(inbox, frame, {}, {})
    /\ sent' = sent + 1
    /\ UNCHANGED <<broadcast_timetable, replies, terminated>>

\* Time passes, though not beyond the delay assumed for a frame.
Older(age) == IF age > Interval THEN age ELSE age + 1

Tick ==
    /\ \A n \in Nodes : \A i \in 1..Len(inbox[n]) : inbox[n][i].wait < MaxDelay
    /\ inbox' = [n \in Nodes |-> [i \in 1..Len(inbox[n]) |->
                                     [inbox[n][i] EXCEPT !.wait = @ + 1]]]
    /\ broadcast_timetable' =
         [n \in Nodes |-> [m \in Interfaces |-> Older(broadcast_timetable[n][m])]]
    /\ UNCHANGED <<replies, terminated, sent>>

-----------------------------------------------------------------------------
(* MayhemInterface::run of interface n *)

\* read() has no data: stdin is served, and what was typed goes to the bridge
\* as it is, past the timetable.
ProcessStdin(n) ==
    /\ n \notin terminated
    /\ inbox[n] = <<>>
    /\ sent < MaxSent
    /\ \E h \in Hosts : \E frame \in HostFrames(h) :
         inbox' = Deliver(inbox, frame, {}, {n})
    /\ sent' = sent + 1
    /\ UNCHANGED <<broadcast_timetable, replies, terminated>>

Reads(n) == n \notin terminated /\ inbox[n] # <<>>

Frame(n) == Head(inbox[n]).frame
Consumed(n) == [inbox EXCEPT ![n] = Tail(@)]

IsBroadcast(frame) == frame.kind = "ARP" /\ frame.dst = Broadcast

\* Mutant: the timetable is consulted for requests for this machine, too.
IsForMachineUnlessSeen(n, frame) ==
    /\ IsBroadcast(frame) /\ frame.operation = "request" /\ frame.target_ip = n
    /\ broadcast_timetable[n][frame.src] > Interval

IsForMachine(n, frame) ==
    IsBroadcast(frame) /\ frame.operation = "request" /\ frame.target_ip = n

\* Mutant: the addresses of the Ethernet header are swapped.
ReplyToSwapped(n, frame) ==
    [frame EXCEPT !.src = frame.dst, !.target_mac = n,
                  !.dst = frame.sender_mac, !.operation = "reply"]

\* set_src_mac, set_dest_mac and set_operation on a copy of the request.  The
\* first writes the target MAC field and the second the sender MAC field of the
\* ARP header; nothing changes the two IPs.
ReplyTo(n, frame) ==
    [frame EXCEPT !.src = n, !.target_mac = n,
                  !.dst = frame.sender_mac, !.sender_mac = frame.sender_mac,
                  !.operation = "reply"]

\* The reply is for one host; interfaces that see it skip it.
ReplyArp(n) ==
    /\ Reads(n)
    /\ IsForMachine(n, Frame(n))
    /\ inbox' = Consumed(n)
    /\ replies' = replies \cup {[by |-> n, frame |-> ReplyTo(n, Frame(n))]}
    /\ UNCHANGED <<broadcast_timetable, terminated, sent>>

\* Mutant: >= in place of >.
ExpiredAtInterval(age) == age >= Interval

Expired(age) == age > Interval

\* Mutant: the entry is not made.
StampForgotten(n, m) == broadcast_timetable

Stamp(n, m) == [broadcast_timetable EXCEPT ![n][m] = 0]

Retransmittable(n) ==
    Reads(n) /\ IsBroadcast(Frame(n)) /\ ~IsForMachine(n, Frame(n))

Rebroadcast(n) ==
    /\ Retransmittable(n)
    /\ Expired(broadcast_timetable[n][Frame(n).src])
    /\ broadcast_timetable' = Stamp(n, Frame(n).src)
    /\ inbox' = Deliver(Consumed(n), Frame(n), Head(inbox[n]).via \cup {n}, {n})
    /\ UNCHANGED <<replies, terminated, sent>>

AlreadySent(n) ==
    /\ Retransmittable(n)
    /\ ~Expired(broadcast_timetable[n][Frame(n).src])
    /\ inbox' = Consumed(n)
    /\ UNCHANGED <<broadcast_timetable, replies, terminated, sent>>

\* Printed and forgotten.  For IPv4, print() falls through to the pointers of
\* an IPv6 header that was never parsed: if the process survives, so it goes on.
SkipFrame(n) ==
    /\ Reads(n)
    /\ ~IsBroadcast(Frame(n))
    /\ Frame(n).kind # "unreadable"
    /\ inbox' = Consumed(n)
    /\ UNCHANGED <<broadcast_timetable, replies, terminated, sent>>

\* The exception is thrown on, out of the thread; with the process the TAP
\* device disappears.  An IPv4 frame may have the same effect.
ReadFails(n) ==
    /\ Reads(n)
    /\ Frame(n).kind \in {"unreadable", "IPv4"}
    /\ terminated' = terminated \cup {n}
    /\ inbox' = [inbox EXCEPT ![n] = <<>>]
    /\ UNCHANGED <<broadcast_timetable, replies, sent>>

HandleFrame(n) ==
    ReplyArp(n) \/ Rebroadcast(n) \/ AlreadySent(n) \/ SkipFrame(n) \/ ReadFails(n)

-----------------------------------------------------------------------------
Next ==
    \/ \E h \in Hosts : HostSends(h)
    \/ \E n \in Nodes : ProcessStdin(n) \/ HandleFrame(n)
    \/ Tick

Spec == Init /\ [][Next]_vars

\* Every interface goes on reading, and time goes on.
FairSpec == Spec /\ (\A n \in Nodes : WF_vars(HandleFrame(n))) /\ WF_vars(Tick)

-----------------------------------------------------------------------------
(* Properties. *)

Entries == [frame : Frames, via : SUBSET Nodes, wait : 0..MaxDelay]

TypeOK ==
    /\ inbox \in [Nodes -> Seq(Entries)]
    /\ broadcast_timetable \in [Nodes -> [Interfaces -> 0..(Interval + 1)]]
    /\ replies \subseteq [by : Nodes, frame : ArpFrames]
    /\ terminated \subseteq Nodes
    /\ sent \in 0..MaxSent

\* "it will loop back, so save it to map to ignore it next time": an interface
\* never rebroadcasts a copy that it had rebroadcast before, whatever way the
\* copy took through the other interfaces (which needs DelayAssumption).
LoopBackIgnoredStep ==
    \A n \in Nodes : Rebroadcast(n) => n \notin Head(inbox[n]).via
LoopBackIsIgnored == [][LoopBackIgnoredStep]_vars

\* The storm ends: when nobody sends any more, the bridge becomes silent.
StormEnds == <>[](\A n \in Nodes : inbox[n] = <<>>)

\* A request for the IP of an interface is answered, also when the interface
\* retransmitted another broadcast of the same host a moment ago, unless its
\* process ends first.
RequestsAreAnswered ==
    \A n \in Nodes : \A h \in Hosts :
        (\E i \in 1..Len(inbox[n]) : inbox[n][i].frame = Request(h, n))
            ~> (n \in terminated \/ \E r \in replies : r.by = n /\ r.frame.dst = h)

\* basic_packet_routing.md: the sender hardware address of an ARP packet is the
\* MAC of its sender; a reply comes from the interface that has the address.
ReplyNamesItsSender == \A r \in replies : r.frame.sender_mac = r.by
=============================================================================
