----------------------- MODULE MayhemInterface_proofs -----------------------
(***************************************************************************)
(* Proofs about MayhemInterface for any number of interfaces and hosts:    *)
(* type correctness, and that no interface rebroadcasts a copy that comes  *)
(* back to it.  The invariant behind it bounds the age of the timetable    *)
(* entries by the way a copy has come: each interface it passed made its   *)
(* entry at most MaxDelay per further interface ago, and the wait.  Hence  *)
(* a copy has fewer interfaces left to pass at each rebroadcast, and the   *)
(* storm loses energy with each frame handled.  The last parts are about   *)
(* requests: none is lost before its reply, and what the reply says.       *)
(***************************************************************************)
EXTENDS MayhemInterface, ArithmeticLemmas, TLAPS

\* The longest time a chain of rebroadcasts through S may have taken.
Span(S) == MaxDelay * Cardinality(S)

\* The entries of the interfaces a copy passed are no older than its way.
Young(timetable, e) ==
    /\ e.via # {} => IsBroadcast(e.frame)
    /\ \A n \in e.via : timetable[n][e.frame.src] + MaxDelay <= Span(e.via) + e.wait

CopiesAreYoung ==
    \A k \in Nodes : \A i \in 1..Len(inbox[k]) : Young(broadcast_timetable, inbox[k][i])

Timetables == [Nodes -> [Interfaces -> 0..(Interval + 1)]]

Inv == TypeOK /\ CopiesAreYoung

-----------------------------------------------------------------------------
(* Arithmetic of Span. *)

LEMMA ProductMonotone ==
    ASSUME NEW m \in Nat, NEW a \in Nat, NEW b \in Nat, a <= b
    PROVE  m * a <= m * b
<1>1. PICK c \in Nat : b = a + c
  <2>1. b - a \in Nat /\ b = a + (b - a)
    OBVIOUS
  <2> QED BY <2>1
<1>2. m * b = m * a + m * c /\ m * c \in Nat /\ m * a \in Nat
  BY <1>1, SMT
<1> QED BY <1>2

LEMMA SpanBounded ==
    ASSUME NEW S \in SUBSET Nodes
    PROVE  Span(S) \in Nat /\ Span(S) <= Interval
<1>1. /\ IsFiniteSet(S) /\ Cardinality(S) \in Nat
      /\ Cardinality(Nodes) \in Nat /\ Cardinality(S) <= Cardinality(Nodes)
  BY NodesAssumption, FS_Subset, FS_CardinalityType
<1>2. Span(S) \in Nat
  BY <1>1, TimesAssumption DEF Span
<1>3. Span(S) <= MaxDelay * Cardinality(Nodes)
  BY <1>1, TimesAssumption, ProductMonotone DEF Span
<1>4. MaxDelay * Cardinality(Nodes) \in Nat
  BY <1>1, TimesAssumption
<1> QED BY <1>2, <1>3, <1>4, DelayAssumption, TimesAssumption

LEMMA SpanGrows ==
    ASSUME NEW S \in SUBSET Nodes, NEW n \in Nodes \ S
    PROVE  Span(S \cup {n}) = Span(S) + MaxDelay
<1>1. Cardinality(S \cup {n}) = Cardinality(S) + 1 /\ Cardinality(S) \in Nat
  BY NodesAssumption, FS_Subset, FS_CardinalityType, FS_AddElement
<1> QED BY <1>1, TimesAssumption DEF Span

-----------------------------------------------------------------------------
(* Queues. *)

\* A queue holds what it held, and the delivered copy at most.
Sent(frame, via) == [frame |-> frame, via |-> via, wait |-> 0]

Received(next, queues, entry) ==
    /\ next \in [Nodes -> Seq(Entries)]
    /\ \A k \in Nodes : \A i \in 1..Len(next[k]) :
         \/ next[k][i] = entry
         \/ i \in 1..Len(queues[k]) /\ next[k][i] = queues[k][i]

LEMMA Delivered ==
    ASSUME NEW queues \in [Nodes -> Seq(Entries)], NEW frame \in Frames,
           NEW via \in SUBSET Nodes, NEW writers
    PROVE  Received(Deliver(queues, frame, via, writers), queues, Sent(frame, via))
<1> DEFINE entry == [frame |-> frame, via |-> via, wait |-> 0]
           result == Deliver(queues, frame, via, writers)
<1>1. entry \in Entries
  BY TimesAssumption DEF Entries
<1>2. \A k \in Nodes : result[k] = queues[k] \/ result[k] = Append(queues[k], entry)
  BY DEF Deliver
<1>3. result = [k \in Nodes |-> result[k]]
  BY DEF Deliver
<1> HIDE DEF entry, result
<1>4. ASSUME NEW k \in Nodes
      PROVE  /\ result[k] \in Seq(Entries)
             /\ \A i \in 1..Len(result[k]) :
                  \/ result[k][i] = entry
                  \/ i \in 1..Len(queues[k]) /\ result[k][i] = queues[k][i]
  <2>1. queues[k] \in Seq(Entries)
    OBVIOUS
  <2>2. CASE result[k] = queues[k]
    BY <2>1, <2>2
  <2>3. CASE result[k] = Append(queues[k], entry)
    <3>1. /\ Append(queues[k], entry) \in Seq(Entries)
          /\ Len(Append(queues[k], entry)) = Len(queues[k]) + 1
          /\ \A i \in 1..(Len(queues[k]) + 1) :
               Append(queues[k], entry)[i] =
                 IF i <= Len(queues[k]) THEN queues[k][i] ELSE entry
      BY <1>1, <2>1
    <3>2. Len(queues[k]) \in Nat
      BY <2>1
    <3> QED BY <2>3, <3>1, <3>2
  <2> QED BY <1>2, <2>2, <2>3
<1>5. Received(result, queues, entry)
  BY <1>3, <1>4 DEF Received
<1> QED BY <1>5 DEF entry, result, Sent

LEMMA ConsumedQueue ==
    ASSUME TypeOK, NEW n \in Nodes, Reads(n)
    PROVE  /\ Consumed(n) \in [Nodes -> Seq(Entries)]
           /\ Head(inbox[n]) \in Entries
           /\ Head(inbox[n]) = inbox[n][1] /\ 1 \in 1..Len(inbox[n])
           /\ \A k \in Nodes : \A i \in 1..Len(Consumed(n)[k]) :
                \E j \in 1..Len(inbox[k]) : Consumed(n)[k][i] = inbox[k][j]
<1>1. inbox[n] \in Seq(Entries) /\ inbox[n] # <<>>
  BY DEF TypeOK, Reads
<1>2. /\ Tail(inbox[n]) \in Seq(Entries)
      /\ Head(inbox[n]) \in Entries
      /\ Head(inbox[n]) = inbox[n][1] /\ 1 \in 1..Len(inbox[n])
      /\ \A i \in 1..Len(Tail(inbox[n])) :
           i + 1 \in 1..Len(inbox[n]) /\ Tail(inbox[n])[i] = inbox[n][i + 1]
  BY <1>1
<1>3. Consumed(n) = [inbox EXCEPT ![n] = Tail(inbox[n])]
  BY DEF Consumed
<1>4. Consumed(n) \in [Nodes -> Seq(Entries)]
  BY <1>2, <1>3 DEF TypeOK
<1>5. ASSUME NEW k \in Nodes, NEW i \in 1..Len(Consumed(n)[k])
      PROVE  \E j \in 1..Len(inbox[k]) : Consumed(n)[k][i] = inbox[k][j]
  <2>1. CASE k = n
    BY <1>2, <1>3, <1>5, <2>1 DEF TypeOK
  <2>2. CASE k # n
    <3>1. Consumed(n)[k] = inbox[k]
      BY <1>3, <2>2 DEF TypeOK
    <3> QED BY <3>1, <1>5
  <2> QED BY <2>1, <2>2
<1> QED BY <1>2, <1>4, <1>5

LEMMA HostFramesType ==
    ASSUME NEW h \in Hosts
    PROVE  HostFrames(h) \subseteq Frames
<1>1. ASSUME NEW t \in Interfaces
      PROVE  Request(h, t) \in ArpFrames
  BY DEF Request, ArpFrames, Interfaces
<1>2. Gratuitous(h) \in ArpFrames
  BY DEF Gratuitous, Request, ArpFrames, Interfaces
<1> QED BY <1>1, <1>2 DEF HostFrames, Frames

LEMMA BroadcastFrame ==
    ASSUME NEW frame \in Frames, IsBroadcast(frame)
    PROVE  frame \in ArpFrames /\ frame.src \in Interfaces
BY DEF Frames, ArpFrames, IsBroadcast

LEMMA AgeType ==
    ASSUME NEW age \in 0..(Interval + 1)
    PROVE  Older(age) \in 0..(Interval + 1) /\ Older(age) <= age + 1
BY TimesAssumption DEF Older

-----------------------------------------------------------------------------
(* The invariant. *)

LEMMA InitInv == Init => Inv
<1> SUFFICES ASSUME Init PROVE Inv
  OBVIOUS
<1>1. TypeOK
  BY TimesAssumption, BoundsAssumption DEF Init, TypeOK
<1>2. CopiesAreYoung
  BY DEF Init, CopiesAreYoung
<1> QED BY <1>1, <1>2 DEF Inv

\* A copy stays young when no entry of the timetable gets older.
LEMMA YoungerTimetable ==
    ASSUME NEW old \in Timetables, NEW new \in Timetables,
           \A n \in Nodes : \A m \in Interfaces : new[n][m] <= old[n][m],
           NEW e \in Entries, Young(old, e)
    PROVE  Young(new, e)
<1>1. e.via # {} => IsBroadcast(e.frame)
  BY DEF Young
<1>2. ASSUME NEW n \in e.via
      PROVE  new[n][e.frame.src] + MaxDelay <= Span(e.via) + e.wait
  <2>1. /\ e.via \in SUBSET Nodes /\ e.wait \in Nat /\ n \in Nodes
        /\ e.frame \in Frames
    BY TimesAssumption DEF Entries
  <2>2. e.frame.src \in Interfaces
    BY <1>1, <1>2, <2>1, BroadcastFrame
  <2>3. old[n][e.frame.src] + MaxDelay <= Span(e.via) + e.wait
    BY <1>2 DEF Young
  <2>4. new[n][e.frame.src] \in Nat /\ old[n][e.frame.src] \in Nat
    BY <2>1, <2>2, TimesAssumption DEF Timetables
  <2>5. new[n][e.frame.src] <= old[n][e.frame.src]
    BY <2>1, <2>2
  <2>6. Span(e.via) \in Nat
    BY <2>1, SpanBounded
  <2> QED BY <2>1, <2>3, <2>4, <2>5, <2>6, TimesAssumption
<1> QED BY <1>1, <1>2 DEF Young

\* Delivering a young copy, after a step that made no entry of the timetable
\* older, keeps all copies young.
LEMMA DeliveryKeepsYoung ==
    ASSUME Inv,
           NEW queues \in [Nodes -> Seq(Entries)],
           \A k \in Nodes : \A i \in 1..Len(queues[k]) :
             \E j \in 1..Len(inbox[k]) : queues[k][i] = inbox[k][j],
           NEW frame \in Frames, NEW via \in SUBSET Nodes, NEW writers,
           NEW timetable \in Timetables,
           \A n \in Nodes : \A m \in Interfaces :
             timetable[n][m] <= broadcast_timetable[n][m],
           Young(timetable, [frame |-> frame, via |-> via, wait |-> 0])
    PROVE  LET result == Deliver(queues, frame, via, writers)
           IN /\ result \in [Nodes -> Seq(Entries)]
              /\ \A k \in Nodes : \A i \in 1..Len(result[k]) :
                   Young(timetable, result[k][i])
<1> DEFINE entry == [frame |-> frame, via |-> via, wait |-> 0]
           result == Deliver(queues, frame, via, writers)
<1>1. /\ result \in [Nodes -> Seq(Entries)]
      /\ \A k \in Nodes : \A i \in 1..Len(result[k]) :
           \/ result[k][i] = entry
           \/ i \in 1..Len(queues[k]) /\ result[k][i] = queues[k][i]
  <2>1. Received(result, queues, Sent(frame, via)) /\ Sent(frame, via) = entry
    BY Delivered DEF Sent
  <2> HIDE DEF entry, result
  <2> QED BY <2>1 DEF Received
<1>2. Young(timetable, entry)
  OBVIOUS
<1> HIDE DEF entry, result
<1>3. ASSUME NEW k \in Nodes, NEW i \in 1..Len(result[k])
      PROVE  Young(timetable, result[k][i])
  <2>1. CASE result[k][i] = entry
    BY <1>2, <2>1
  <2>2. CASE i \in 1..Len(queues[k]) /\ result[k][i] = queues[k][i]
    <3>1. PICK j \in 1..Len(inbox[k]) : result[k][i] = inbox[k][j]
      BY <2>2
    <3>2. inbox[k][j] \in Entries /\ Young(broadcast_timetable, inbox[k][j])
      BY <3>1 DEF Inv, TypeOK, CopiesAreYoung
    <3>3. broadcast_timetable \in Timetables
      BY DEF Inv, TypeOK, Timetables
    <3> QED BY <3>1, <3>2, <3>3, YoungerTimetable
  <2> QED BY <1>1, <1>3, <2>1, <2>2
<1> QED BY <1>1, <1>3 DEF result

\* A copy an interface passed on is still too young to be passed on again.
LEMMA SeenIsNotExpired ==
    ASSUME Inv, NEW n \in Nodes, Reads(n), n \in Head(inbox[n]).via
    PROVE  IsBroadcast(Frame(n)) /\ ~Expired(broadcast_timetable[n][Frame(n).src])
<1> DEFINE e == Head(inbox[n])
<1>1. e \in Entries /\ Young(broadcast_timetable, e)
  BY ConsumedQueue DEF Inv, CopiesAreYoung
<1>2. e.frame = Frame(n)
  BY DEF Frame
<1>3. n \in e.via
  OBVIOUS
<1> HIDE DEF e
<1>4. IsBroadcast(e.frame) /\ e.frame.src \in Interfaces
  BY <1>1, <1>3, BroadcastFrame DEF Young, Entries
<1>5. broadcast_timetable[n][e.frame.src] + MaxDelay <= Span(e.via) + e.wait
  BY <1>1, <1>3 DEF Young
<1>6. /\ e.wait \in 0..MaxDelay
      /\ Span(e.via) \in Nat /\ Span(e.via) <= Interval
      /\ broadcast_timetable[n][e.frame.src] \in 0..(Interval + 1)
  BY <1>1, <1>4, SpanBounded DEF Entries, Inv, TypeOK
<1>7. broadcast_timetable[n][e.frame.src] <= Interval
  BY <1>5, <1>6, TimesAssumption
<1>8. ~Expired(broadcast_timetable[n][e.frame.src])
  BY <1>6, <1>7, TimesAssumption DEF Expired
<1> QED BY <1>2, <1>4, <1>8

-----------------------------------------------------------------------------
(* The steps. *)

\* Frames sent by a host or an operator start their way: nobody passed them on.
LEMMA SendInv ==
    ASSUME Inv, NEW h \in Hosts, NEW frame \in HostFrames(h), NEW writers,
           inbox' = Deliver(inbox, frame, {}, writers),
           sent < MaxSent, sent' = sent + 1,
           UNCHANGED <<broadcast_timetable, replies, terminated>>
    PROVE  Inv'
<1>1. frame \in Frames
  BY HostFramesType
<1>2. /\ inbox \in [Nodes -> Seq(Entries)] /\ broadcast_timetable \in Timetables
      /\ \A n \in Nodes : \A m \in Interfaces :
           broadcast_timetable[n][m] <= broadcast_timetable[n][m]
  <2>1. /\ inbox \in [Nodes -> Seq(Entries)]
        /\ broadcast_timetable \in [Nodes -> [Interfaces -> 0..(Interval + 1)]]
    BY DEF Inv, TypeOK
  <2>2. \A n \in Nodes : \A m \in Interfaces : broadcast_timetable[n][m] \in Nat
    BY <2>1, TimesAssumption
  <2> QED BY <2>1, <2>2 DEF Timetables
<1>3. Young(broadcast_timetable, [frame |-> frame, via |-> {}, wait |-> 0])
  BY DEF Young
<1>4. \A k \in Nodes : \A i \in 1..Len(inbox[k]) :
        \E j \in 1..Len(inbox[k]) : inbox[k][i] = inbox[k][j]
  OBVIOUS
<1>5. /\ inbox' \in [Nodes -> Seq(Entries)]
      /\ \A k \in Nodes : \A i \in 1..Len(inbox'[k]) :
           Young(broadcast_timetable, inbox'[k][i])
  BY <1>1, <1>2, <1>3, <1>4, DeliveryKeepsYoung
<1>6. TypeOK'
  BY <1>5, BoundsAssumption DEF Inv, TypeOK
<1>7. CopiesAreYoung'
  BY <1>5 DEF CopiesAreYoung
<1> QED BY <1>6, <1>7 DEF Inv

\* Steps that take the first frame off a queue and deliver nothing.
LEMMA ConsumeInv ==
    ASSUME Inv, NEW n \in Nodes, Reads(n), inbox' = Consumed(n),
           replies' \subseteq [by : Nodes, frame : ArpFrames],
           UNCHANGED <<broadcast_timetable, terminated, sent>>
    PROVE  Inv'
<1>1. /\ inbox' \in [Nodes -> Seq(Entries)]
      /\ \A k \in Nodes : \A i \in 1..Len(inbox'[k]) :
           \E j \in 1..Len(inbox[k]) : inbox'[k][i] = inbox[k][j]
  BY ConsumedQueue DEF Inv
<1>2. TypeOK'
  BY <1>1 DEF Inv, TypeOK
<1>3. CopiesAreYoung'
  BY <1>1 DEF Inv, CopiesAreYoung
<1> QED BY <1>2, <1>3 DEF Inv

LEMMA ReplyType ==
    ASSUME Inv, NEW n \in Nodes, ReplyArp(n)
    PROVE  replies' \subseteq [by : Nodes, frame : ArpFrames]
<1>1. Reads(n) /\ IsForMachine(n, Frame(n))
  BY DEF ReplyArp
<1>2. Frame(n) \in ArpFrames
  BY <1>1, ConsumedQueue, BroadcastFrame DEF Inv, Frame, Entries, IsForMachine
<1>3. ReplyTo(n, Frame(n)) \in ArpFrames
  BY <1>2 DEF ReplyTo, ArpFrames, Interfaces
<1> QED BY <1>3 DEF ReplyArp, Inv, TypeOK

LEMMA RebroadcastInv ==
    ASSUME Inv, NEW n \in Nodes, Rebroadcast(n)
    PROVE  Inv' /\ n \notin Head(inbox[n]).via
<1> DEFINE e == Head(inbox[n])
           m == Frame(n).src
           onward == e.via \cup {n}
<1>1. /\ Reads(n) /\ IsBroadcast(Frame(n)) /\ Expired(broadcast_timetable[n][m])
      /\ broadcast_timetable' = [broadcast_timetable EXCEPT ![n][m] = 0]
      /\ inbox' = Deliver(Consumed(n), Frame(n), onward, {n})
      /\ UNCHANGED <<replies, terminated, sent>>
  BY DEF Rebroadcast, Retransmittable, Stamp
<1>2. /\ Consumed(n) \in [Nodes -> Seq(Entries)]
      /\ e \in Entries
      /\ \A k \in Nodes : \A i \in 1..Len(Consumed(n)[k]) :
           \E j \in 1..Len(inbox[k]) : Consumed(n)[k][i] = inbox[k][j]
      /\ Young(broadcast_timetable, e)
  BY <1>1, ConsumedQueue DEF Inv, CopiesAreYoung
<1>3. n \notin e.via
  BY <1>1, SeenIsNotExpired
<1>4. e.frame = Frame(n)
  BY DEF Frame
<1>5. /\ Frame(n) \in ArpFrames /\ Frame(n) \in Frames /\ m \in Interfaces
      /\ e.via \in SUBSET Nodes /\ onward \in SUBSET Nodes /\ e.wait \in 0..MaxDelay
  BY <1>1, <1>2, <1>4, BroadcastFrame DEF Entries
<1>6. broadcast_timetable \in Timetables
  BY DEF Inv, TypeOK, Timetables
<1>7. broadcast_timetable' \in Timetables
  BY <1>1, <1>5, <1>6, TimesAssumption DEF Timetables
<1>8. ASSUME NEW k \in Nodes, NEW a \in Interfaces
      PROVE  broadcast_timetable'[k][a] <= broadcast_timetable[k][a]
  <2>1. broadcast_timetable[k][a] \in Nat
    BY <1>6, TimesAssumption DEF Timetables
  <2>2. \/ broadcast_timetable'[k][a] = broadcast_timetable[k][a]
        \/ broadcast_timetable'[k][a] = 0
    BY <1>1, <1>5, <1>6 DEF Timetables
  <2> QED BY <2>1, <2>2
<1>9. Young(broadcast_timetable', [frame |-> Frame(n), via |-> onward, wait |-> 0])
  <2> DEFINE age(k) == broadcast_timetable'[k][m]
  <2>1. Span(onward) = Span(e.via) + MaxDelay /\ Span(e.via) \in Nat
    BY <1>3, <1>5, SpanGrows, SpanBounded
  <2>2. ASSUME NEW k \in onward
        PROVE  age(k) + MaxDelay <= Span(onward) + 0
    <3>1. age(k) \in Nat
      BY <1>5, <1>7, TimesAssumption DEF Timetables
    <3>2. CASE k = n
      <4>1. age(n) = 0
        BY <1>1, <1>5, <1>6 DEF Timetables
      <4> QED BY <2>1, <3>2, <4>1, TimesAssumption
    <3>3. CASE k \in e.via
      <4>1. broadcast_timetable[k][m] + MaxDelay <= Span(e.via) + e.wait
        BY <1>2, <1>4, <3>3 DEF Young
      <4>2. age(k) <= broadcast_timetable[k][m] /\ broadcast_timetable[k][m] \in Nat
        BY <1>5, <1>6, <1>8, <3>3, TimesAssumption DEF Timetables
      <4> QED BY <1>5, <2>1, <3>1, <4>1, <4>2, TimesAssumption
    <3> QED BY <3>2, <3>3
  <2> QED BY <1>1, <2>2 DEF Young
<1>10. /\ inbox' \in [Nodes -> Seq(Entries)]
       /\ \A k \in Nodes : \A i \in 1..Len(inbox'[k]) :
            Young(broadcast_timetable', inbox'[k][i])
  <2> HIDE DEF onward, m
  <2> QED BY <1>1, <1>2, <1>5, <1>7, <1>8, <1>9, DeliveryKeepsYoung
<1>11. TypeOK'
  BY <1>1, <1>7, <1>10 DEF Inv, TypeOK, Timetables
<1>12. CopiesAreYoung'
  BY <1>10 DEF CopiesAreYoung
<1> QED BY <1>3, <1>11, <1>12 DEF Inv

LEMMA ReadFailsInv ==
    ASSUME Inv, NEW n \in Nodes, ReadFails(n)
    PROVE  Inv'
<1>1. /\ inbox' = [inbox EXCEPT ![n] = <<>>]
      /\ terminated' = terminated \cup {n}
      /\ UNCHANGED <<broadcast_timetable, replies, sent>>
  BY DEF ReadFails
<1>2. inbox' \in [Nodes -> Seq(Entries)]
  BY <1>1 DEF Inv, TypeOK
<1>3. TypeOK'
  BY <1>1, <1>2 DEF Inv, TypeOK
<1>4. ASSUME NEW k \in Nodes, NEW i \in 1..Len(inbox'[k])
      PROVE  i \in 1..Len(inbox[k]) /\ inbox'[k][i] = inbox[k][i]
  BY <1>1, <1>4 DEF Inv, TypeOK
<1>5. CopiesAreYoung'
  BY <1>1, <1>4 DEF Inv, CopiesAreYoung
<1> QED BY <1>3, <1>5 DEF Inv

\* One tick adds one to every wait and at most one to every age.
LEMMA TickInv ==
    ASSUME Inv, Tick
    PROVE  Inv'
<1> DEFINE older(e) == [e EXCEPT !.wait = @ + 1]
<1>1. /\ \A n \in Nodes : \A i \in 1..Len(inbox[n]) : inbox[n][i].wait < MaxDelay
      /\ inbox' = [n \in Nodes |-> [i \in 1..Len(inbox[n]) |-> older(inbox[n][i])]]
      /\ broadcast_timetable' =
           [n \in Nodes |-> [m \in Interfaces |-> Older(broadcast_timetable[n][m])]]
      /\ UNCHANGED <<replies, terminated, sent>>
  BY DEF Tick
<1>2. ASSUME NEW e \in Entries, e.wait < MaxDelay
      PROVE  /\ older(e) \in Entries /\ older(e).wait = e.wait + 1
             /\ older(e).frame = e.frame /\ older(e).via = e.via
  BY <1>2, TimesAssumption DEF Entries
<1> HIDE DEF older
<1>3. ASSUME NEW n \in Nodes
      PROVE  /\ inbox[n] \in Seq(Entries) /\ Len(inbox[n]) \in Nat
             /\ \A i \in 1..Len(inbox[n]) : inbox[n][i] \in Entries
             /\ inbox'[n] = [i \in 1..Len(inbox[n]) |-> older(inbox[n][i])]
  BY <1>1 DEF Inv, TypeOK
<1>4. ASSUME NEW n \in Nodes
      PROVE  inbox'[n] \in Seq(Entries) /\ Len(inbox'[n]) = Len(inbox[n])
  <2>1. \A i \in 1..Len(inbox[n]) : older(inbox[n][i]) \in Entries
    BY <1>1, <1>2, <1>3
  <2>2. inbox'[n] \in [1..Len(inbox[n]) -> Entries]
    BY <1>3, <2>1
  <2> QED BY <1>3, <2>2
<1>5. inbox' \in [Nodes -> Seq(Entries)]
  BY <1>1, <1>4
<1>6. broadcast_timetable' \in [Nodes -> [Interfaces -> 0..(Interval + 1)]]
  BY <1>1, AgeType DEF Inv, TypeOK
<1>7. TypeOK'
  BY <1>1, <1>5, <1>6 DEF Inv, TypeOK
<1>8. ASSUME NEW k \in Nodes, NEW i \in 1..Len(inbox'[k])
      PROVE  Young(broadcast_timetable', inbox'[k][i])
  <2> DEFINE e == inbox[k][i]
  <2>1. /\ i \in 1..Len(inbox[k]) /\ e \in Entries /\ e.wait < MaxDelay
        /\ inbox'[k][i] = older(e) /\ Young(broadcast_timetable, e)
    BY <1>1, <1>3, <1>4, <1>8 DEF Inv, CopiesAreYoung
  <2> HIDE DEF e
  <2>2. e.via # {} => IsBroadcast(e.frame)
    BY <2>1 DEF Young
  <2>3. ASSUME NEW n \in e.via
        PROVE  broadcast_timetable'[n][e.frame.src] + MaxDelay <= Span(e.via) + (e.wait + 1)
    <3>1. /\ n \in Nodes /\ e.via \in SUBSET Nodes /\ e.wait \in Nat
          /\ e.frame \in Frames
      BY <2>1, <2>3 DEF Entries
    <3>2. e.frame.src \in Interfaces
      BY <2>2, <2>3, <3>1, BroadcastFrame
    <3>3. broadcast_timetable[n][e.frame.src] + MaxDelay <= Span(e.via) + e.wait
      BY <2>1, <2>3 DEF Young
    <3>4. broadcast_timetable[n][e.frame.src] \in 0..(Interval + 1)
      BY <3>1, <3>2 DEF Inv, TypeOK
    <3>5. broadcast_timetable'[n][e.frame.src] = Older(broadcast_timetable[n][e.frame.src])
      BY <1>1, <3>1, <3>2
    <3>6. /\ broadcast_timetable'[n][e.frame.src] \in 0..(Interval + 1)
          /\ broadcast_timetable'[n][e.frame.src] <= broadcast_timetable[n][e.frame.src] + 1
      BY <3>4, <3>5, AgeType
    <3>7. Span(e.via) \in Nat
      BY <3>1, SpanBounded
    <3> DEFINE age == broadcast_timetable[n][e.frame.src]
               newAge == broadcast_timetable'[n][e.frame.src]
    <3>8. age \in Nat /\ newAge \in Nat /\ newAge <= age + 1
      BY <3>4, <3>6, TimesAssumption
    <3>9. age + MaxDelay <= Span(e.via) + e.wait
      BY <3>3
    <3> HIDE DEF age, newAge
    <3>10. newAge + MaxDelay <= Span(e.via) + (e.wait + 1)
      BY <3>1, <3>7, <3>8, <3>9, TimesAssumption
    <3> QED BY <3>10 DEF newAge
  <2>4. /\ older(e).wait = e.wait + 1
        /\ older(e).frame = e.frame /\ older(e).via = e.via
    BY <1>2, <2>1
  <2> QED BY <2>1, <2>2, <2>3, <2>4 DEF Young
<1>9. CopiesAreYoung'
  BY <1>8 DEF CopiesAreYoung
<1> QED BY <1>7, <1>9 DEF Inv

-----------------------------------------------------------------------------
LEMMA NextInv == Inv /\ [Next]_vars => Inv'
<1> SUFFICES ASSUME Inv, [Next]_vars PROVE Inv'
  OBVIOUS
<1>1. ASSUME NEW h \in Hosts, HostSends(h) PROVE Inv'
  <2>1. PICK frame \in HostFrames(h) : inbox' = Deliver(inbox, frame, {}, {})
    BY <1>1 DEF HostSends
  <2> QED BY <1>1, <2>1, SendInv DEF HostSends
<1>2. ASSUME NEW n \in Nodes, ProcessStdin(n) PROVE Inv'
  <2>1. PICK h \in Hosts : \E frame \in HostFrames(h) :
          inbox' = Deliver(inbox, frame, {}, {n})
    BY <1>2 DEF ProcessStdin
  <2>2. PICK frame \in HostFrames(h) : inbox' = Deliver(inbox, frame, {}, {n})
    BY <2>1
  <2> QED BY <1>2, <2>2, SendInv DEF ProcessStdin
<1>3. ASSUME NEW n \in Nodes, ReplyArp(n) PROVE Inv'
  BY <1>3, ReplyType, ConsumeInv DEF ReplyArp
<1>4. ASSUME NEW n \in Nodes, Rebroadcast(n) PROVE Inv'
  BY <1>4, RebroadcastInv
<1>5. ASSUME NEW n \in Nodes, AlreadySent(n) PROVE Inv'
  BY <1>5, ConsumeInv DEF AlreadySent, Retransmittable, Inv, TypeOK
<1>6. ASSUME NEW n \in Nodes, SkipFrame(n) PROVE Inv'
  BY <1>6, ConsumeInv DEF SkipFrame, Inv, TypeOK
<1>7. ASSUME NEW n \in Nodes, ReadFails(n) PROVE Inv'
  BY <1>7, ReadFailsInv
<1>8. CASE Tick
  BY <1>8, TickInv
<1>9. CASE UNCHANGED vars
  BY <1>9 DEF vars, Inv, TypeOK, CopiesAreYoung
<1> QED BY <1>1, <1>2, <1>3, <1>4, <1>5, <1>6, <1>7, <1>8, <1>9 DEF Next, HandleFrame

LEMMA Invariance == Spec => []Inv
BY InitInv, NextInv, PTL DEF Spec

\* The state of all interfaces and of the bridge keeps its types, for any
\* number of interfaces, hosts, frames and any times.
THEOREM TypeCorrect == Spec => []TypeOK
<1>1. Inv => TypeOK
  BY DEF Inv
<1> QED BY <1>1, Invariance, PTL

\* run() ignores what loops back: an interface never rebroadcasts a copy it
\* rebroadcast before, however the copies went through the other interfaces.
THEOREM LoopBackIgnored == Spec => LoopBackIsIgnored
<1>1. Inv /\ [Next]_vars => [LoopBackIgnoredStep]_vars
  BY RebroadcastInv DEF LoopBackIgnoredStep
<1> QED BY <1>1, Invariance, PTL DEF Spec, LoopBackIsIgnored
-----------------------------------------------------------------------------
(* The storm weakens. *)

\* A copy that more interfaces have passed on can be passed on by fewer others:
\* it weighs more than all copies together that come of it in one step.
Size == Cardinality(Nodes)

Energy(via) == 2^(Size * (Size - Cardinality(via)))

Energies(queue) == [i \in 1..Len(queue) |-> Energy(queue[i].via)]

QueueEnergy(queue) == SumOver(Energies(queue), 1..Len(queue))

QueueEnergies(queues) == [n \in Nodes |-> QueueEnergy(queues[n])]

\* Of all copies that wait on the bridge.
StormEnergy(queues) == SumOver(QueueEnergies(queues), Nodes)

LEMMA ViaSize ==
    ASSUME NEW via \in SUBSET Nodes
    PROVE  /\ Size \in Nat /\ Cardinality(via) \in Nat /\ Cardinality(via) <= Size
           /\ Size - Cardinality(via) \in Nat
<1>1. IsFiniteSet(via) /\ Cardinality(via) <= Cardinality(Nodes)
  BY NodesAssumption, FS_Subset
<1>2. Cardinality(via) \in Nat /\ Cardinality(Nodes) \in Nat
  BY <1>1, NodesAssumption, FS_CardinalityType
<1> QED BY <1>1, <1>2 DEF Size

LEMMA EnergyType == \A via \in SUBSET Nodes : Energy(via) \in Nat \ {0}
<1> SUFFICES ASSUME NEW via \in SUBSET Nodes PROVE Energy(via) \in Nat \ {0}
  OBVIOUS
<1>1. \A a, b \in Nat : a * b \in Nat
  OBVIOUS
<1>2. Size * (Size - Cardinality(via)) \in Nat
  BY <1>1, ViaSize
<1> QED BY <1>2, PowerType DEF Energy

LEMMA EnergyFalls ==
    ASSUME NEW via \in SUBSET Nodes, NEW n \in Nodes \ via
    PROVE  Size * Energy(via \cup {n}) < Energy(via)
<1> DEFINE onward == via \cup {n}
           left == Size - Cardinality(onward)
<1>1. onward \in SUBSET Nodes /\ Cardinality(onward) = Cardinality(via) + 1
  BY NodesAssumption, FS_Subset, FS_AddElement
<1>2. /\ Size \in Nat /\ left \in Nat /\ Size - Cardinality(via) = left + 1
  BY <1>1, ViaSize
<1> HIDE DEF onward, left
<1>3. Size * (left + 1) = Size * left + Size /\ Size * left \in Nat
  BY <1>2
<1>4. Energy(via) = 2^(Size * left) * 2^Size
  BY <1>2, <1>3, PowerSum DEF Energy
<1>5. Energy(onward) = 2^(Size * left)
  BY DEF Energy, left
<1>6. Size < 2^Size /\ 2^Size \in Nat /\ 2^(Size * left) \in Nat \ {0}
  BY <1>2, <1>3, PowerIsGreater, PowerType
<1>7. \A a, b \in Nat : \A c \in Nat \ {0} : a < b => a * c < c * b
  OBVIOUS
<1> QED BY <1>2, <1>4, <1>5, <1>6, <1>7 DEF onward

LEMMA QueueSummable ==
    ASSUME NEW queue \in Seq(Entries)
    PROVE  /\ Len(queue) \in Nat
           /\ \A i \in 1..Len(queue) :
                Energies(queue)[i] = Energy(queue[i].via) /\ Energies(queue)[i] \in Nat
           /\ Summable(Energies(queue), 1..Len(queue))
           /\ QueueEnergy(queue) \in Nat
<1>1. Len(queue) \in Nat /\ \A i \in 1..Len(queue) : queue[i].via \in SUBSET Nodes
  <2>1. Len(queue) \in Nat /\ \A i \in 1..Len(queue) : queue[i] \in Entries
    OBVIOUS
  <2>2. \A e \in Entries : e.via \in SUBSET Nodes
    BY DEF Entries
  <2> QED BY <2>1, <2>2
<1>2. \A i \in 1..Len(queue) :
        Energies(queue)[i] = Energy(queue[i].via) /\ Energies(queue)[i] \in Nat
  BY <1>1, EnergyType DEF Energies
<1>3. IsFiniteSet(1..Len(queue))
  <2>1. 1 \in Int /\ Len(queue) \in Int
    BY <1>1
  <2> QED BY <2>1, FS_Interval
<1>4. QueueEnergy(queue) \in Nat
  BY <1>2, <1>3, SumIsNat DEF QueueEnergy
<1> QED BY <1>1, <1>2, <1>4 DEF Summable

LEMMA EnergyOfAppend ==
    ASSUME NEW queue \in Seq(Entries), NEW e \in Entries
    PROVE  QueueEnergy(Append(queue, e)) = QueueEnergy(queue) + Energy(e.via)
<1> DEFINE longer == Append(queue, e)
           n == Len(queue)
           f == Energies(longer)
           h == Energies(queue)
<1>1. /\ longer \in Seq(Entries) /\ n \in Nat /\ Len(longer) = n + 1 /\ longer[n + 1] = e
      /\ \A i \in 1..n : longer[i] = queue[i]
  OBVIOUS
<1> HIDE DEF longer
<1>2. \A i \in 1..n : i \in 1..(n + 1)
  BY <1>1
<1>3. /\ Summable(f, 1..(n + 1)) /\ \A i \in 1..(n + 1) : f[i] = Energy(longer[i].via)
      /\ Summable(h, 1..n) /\ \A i \in 1..n : h[i] = Energy(queue[i].via)
      /\ QueueEnergy(queue) \in Nat
  BY <1>1, QueueSummable
<1> HIDE DEF f, h, n
<1>4. n + 1 \in 1..(n + 1) /\ f[n + 1] = Energy(e.via) /\ f[n + 1] \in Int
  <2>1. n + 1 \in 1..(n + 1)
    BY <1>1
  <2> QED BY <1>1, <1>3, <2>1 DEF Summable
<1>5. SumOver(f, 1..(n + 1)) = f[n + 1] + SumOver(f, 1..n)
  BY <1>1, <1>3, SumLast
<1>6. SumOver(f, 1..n) = SumOver(h, 1..n)
  <2>1. SameOn(f, h, 1..n) /\ Summable(f, 1..n)
    BY <1>1, <1>2, <1>3 DEF SameOn, Summable
  <2>2. IsFiniteSet(1..n)
    <3>1. 1 \in Int /\ n \in Int
      BY <1>1
    <3> QED BY <3>1, FS_Interval
  <2> QED BY <1>3, <2>1, <2>2, SumsOfSame
<1>7. QueueEnergy(queue) = SumOver(h, 1..n)
  BY DEF QueueEnergy, h, n
<1>8. QueueEnergy(longer) = SumOver(f, 1..(n + 1))
  BY <1>1 DEF QueueEnergy, f
<1>9. QueueEnergy(longer) = QueueEnergy(queue) + Energy(e.via)
  BY <1>3, <1>4, <1>5, <1>6, <1>7, <1>8
<1> QED BY <1>9 DEF longer

LEMMA EnergyOfTail ==
    ASSUME NEW queue \in Seq(Entries), queue # <<>>
    PROVE  QueueEnergy(queue) = Energy(Head(queue).via) + QueueEnergy(Tail(queue))
<1> DEFINE rest == Tail(queue)
           n == Len(rest)
           f == Energies(queue)
           h == Energies(rest)
<1>1. /\ rest \in Seq(Entries) /\ n \in Nat /\ Len(queue) = n + 1 /\ Head(queue) = queue[1]
      /\ \A i \in 1..n : rest[i] = queue[i + 1]
  OBVIOUS
<1> HIDE DEF rest
<1>2. 1 \in 1..(n + 1) /\ \A i \in 1..n : i + 1 \in 1..(n + 1)
  BY <1>1
<1>3. /\ Summable(f, 1..(n + 1)) /\ \A i \in 1..(n + 1) : f[i] = Energy(queue[i].via)
      /\ \A i \in 1..n : h[i] = Energy(rest[i].via)
  <2>1. Summable(f, 1..Len(queue)) /\ \A i \in 1..Len(queue) : f[i] = Energy(queue[i].via)
    BY QueueSummable
  <2>2. \A i \in 1..n : h[i] = Energy(rest[i].via)
    BY <1>1, QueueSummable
  <2> QED BY <1>1, <2>1, <2>2
<1> HIDE DEF f, h, n
<1>4. Shifted(f, h, n)
  BY <1>1, <1>2, <1>3 DEF Shifted
<1>5. SumOver(f, 1..(n + 1)) = f[1] + SumOver(h, 1..n)
  BY <1>1, <1>4, SumFirst
<1>6. f[1] = Energy(Head(queue).via)
  BY <1>1, <1>2, <1>3
<1>7. QueueEnergy(rest) = SumOver(h, 1..n)
  BY DEF QueueEnergy, h, n
<1>8. QueueEnergy(queue) = SumOver(f, 1..(n + 1))
  BY <1>1 DEF QueueEnergy, f
<1>9. QueueEnergy(queue) = Energy(Head(queue).via) + QueueEnergy(rest)
  BY <1>5, <1>6, <1>7, <1>8
<1> QED BY <1>9 DEF rest

Queues == [Nodes -> Seq(Entries)]

LEMMA StormSummable ==
    ASSUME NEW queues \in Queues
    PROVE  /\ \A k \in Nodes : /\ queues[k] \in Seq(Entries)
                               /\ QueueEnergies(queues)[k] = QueueEnergy(queues[k])
                               /\ QueueEnergy(queues[k]) \in Nat
           /\ Summable(QueueEnergies(queues), Nodes)
           /\ StormEnergy(queues) \in Nat
<1>1. \A k \in Nodes : /\ queues[k] \in Seq(Entries)
                       /\ QueueEnergies(queues)[k] = QueueEnergy(queues[k])
  BY DEF Queues, QueueEnergies
<1>2. \A k \in Nodes : QueueEnergy(queues[k]) \in Nat
  BY <1>1, QueueSummable
<1>3. StormEnergy(queues) \in Nat
  BY <1>1, <1>2, NodesAssumption, SumIsNat DEF StormEnergy
<1> QED BY <1>1, <1>2, <1>3 DEF Summable

\* When one queue changes, the energy changes by what that queue does.
Replaced(queues, n, queue) == [queues EXCEPT ![n] = queue]

LEMMA OneQueueChanges ==
    ASSUME NEW queues \in Queues, NEW n \in Nodes, NEW queue \in Seq(Entries)
    PROVE  /\ Replaced(queues, n, queue) \in Queues
           /\ StormEnergy(Replaced(queues, n, queue))
                = StormEnergy(queues) - QueueEnergy(queues[n]) + QueueEnergy(queue)
<1> DEFINE new == Replaced(queues, n, queue)
           rest == Nodes \ {n}
           f == QueueEnergies(queues)
           h == QueueEnergies(new)
<1>1. new \in Queues /\ new[n] = queue /\ \A k \in rest : new[k] = queues[k]
  BY DEF Queues, Replaced
<1> HIDE DEF new
<1>2. /\ Summable(f, Nodes) /\ \A k \in Nodes : f[k] = QueueEnergy(queues[k])
      /\ Summable(h, Nodes) /\ \A k \in Nodes : h[k] = QueueEnergy(new[k])
  BY <1>1, StormSummable
<1> HIDE DEF f, h
<1>3. /\ SumOver(f, Nodes) = f[n] + SumOver(f, rest) /\ SumOver(f, rest) \in Int
      /\ SumOver(h, Nodes) = h[n] + SumOver(h, rest) /\ SumOver(h, rest) \in Int
  BY <1>2, NodesAssumption, SumSplit
<1>4. SumOver(f, rest) = SumOver(h, rest)
  <2>1. SameOn(f, h, rest) /\ Summable(f, rest) /\ Summable(h, rest)
    BY <1>1, <1>2 DEF SameOn, Summable
  <2>2. IsFiniteSet(rest)
    BY NodesAssumption, FS_RemoveElement
  <2> HIDE DEF rest
  <2> QED BY <2>1, <2>2, SumsOfSame
<1>5. f[n] = QueueEnergy(queues[n]) /\ h[n] = QueueEnergy(queue) /\ f[n] \in Int /\ h[n] \in Int
  BY <1>1, <1>2 DEF Summable
<1>6. StormEnergy(queues) = SumOver(f, Nodes) /\ StormEnergy(new) = SumOver(h, Nodes)
  BY DEF StormEnergy, f, h
<1> QED BY <1>1, <1>3, <1>4, <1>5, <1>6 DEF new

LEMMA ConsumedEnergy ==
    ASSUME TypeOK, NEW n \in Nodes, Reads(n)
    PROVE  /\ Head(inbox[n]).via \in SUBSET Nodes
           /\ Consumed(n) \in Queues
           /\ StormEnergy(Consumed(n)) = StormEnergy(inbox) - Energy(Head(inbox[n]).via)
<1>1. inbox \in Queues /\ inbox[n] \in Seq(Entries) /\ inbox[n] # <<>>
  BY DEF TypeOK, Queues, Reads
<1>2. Head(inbox[n]).via \in SUBSET Nodes /\ Tail(inbox[n]) \in Seq(Entries)
  <2>1. Head(inbox[n]) \in Entries /\ Tail(inbox[n]) \in Seq(Entries)
    BY <1>1
  <2> QED BY <2>1 DEF Entries
<1>3. QueueEnergy(inbox[n]) = Energy(Head(inbox[n]).via) + QueueEnergy(Tail(inbox[n]))
  BY <1>1, EnergyOfTail
<1>4. Consumed(n) = [inbox EXCEPT ![n] = Tail(inbox[n])]
  BY DEF Consumed
<1>5. /\ Consumed(n) \in Queues
      /\ StormEnergy(Consumed(n))
           = StormEnergy(inbox) - QueueEnergy(inbox[n]) + QueueEnergy(Tail(inbox[n]))
  <2>1. Consumed(n) = Replaced(inbox, n, Tail(inbox[n]))
    BY <1>4 DEF Replaced
  <2> QED BY <1>1, <1>2, <2>1, OneQueueChanges
<1>6. /\ StormEnergy(inbox) \in Nat /\ Energy(Head(inbox[n]).via) \in Nat
      /\ QueueEnergy(Tail(inbox[n])) \in Nat
  BY <1>1, <1>2, StormSummable, EnergyType, QueueSummable
<1> QED BY <1>2, <1>3, <1>5, <1>6

LEMMA DeliveredEnergy ==
    ASSUME NEW queues \in Queues, NEW frame \in Frames, NEW via \in SUBSET Nodes, NEW writers
    PROVE  /\ Deliver(queues, frame, via, writers) \in Queues
           /\ StormEnergy(Deliver(queues, frame, via, writers))
                <= StormEnergy(queues) + Size * Energy(via)
<1> DEFINE entry == [frame |-> frame, via |-> via, wait |-> 0]
           result == Deliver(queues, frame, via, writers)
           f == QueueEnergies(queues)
           h == QueueEnergies(result)
           w == Energy(via)
<1>1. entry \in Entries /\ entry.via = via
  BY TimesAssumption DEF Entries
<1>2. \A k \in Nodes : result[k] = queues[k] \/ result[k] = Append(queues[k], entry)
  BY DEF Deliver
<1>3. result \in Queues
  BY Delivered DEF Received, Queues
<1>4. /\ \A k \in Nodes : f[k] = QueueEnergy(queues[k]) /\ QueueEnergy(queues[k]) \in Nat
      /\ \A k \in Nodes : h[k] = QueueEnergy(result[k])
      /\ Summable(f, Nodes) /\ Summable(h, Nodes)
  BY <1>3, StormSummable
<1>5. w \in Nat
  BY EnergyType
<1> HIDE DEF entry, result, f, h, w
<1>6. ASSUME NEW k \in Nodes PROVE h[k] <= f[k] + w
  <2>1. queues[k] \in Seq(Entries)
    BY DEF Queues
  <2>2. CASE result[k] = queues[k]
    BY <1>4, <1>5, <2>2
  <2>3. CASE result[k] = Append(queues[k], entry)
    <3>1. QueueEnergy(Append(queues[k], entry)) = QueueEnergy(queues[k]) + w
      BY <1>1, <2>1, EnergyOfAppend DEF w
    <3>2. h[k] = QueueEnergy(queues[k]) + w /\ f[k] = QueueEnergy(queues[k])
      BY <1>4, <2>3, <3>1
    <3>3. QueueEnergy(queues[k]) \in Nat
      BY <1>4
    <3> QED BY <1>5, <3>2, <3>3
  <2> QED BY <1>2, <2>2, <2>3
<1>7. SumOver(h, Nodes) <= SumOver(f, Nodes) + Cardinality(Nodes) * w
  BY <1>4, <1>5, <1>6, NodesAssumption, SumBounded
<1> QED BY <1>3, <1>7 DEF StormEnergy, Size, result, f, h, w

LEMMA HandledEnergy ==
    ASSUME Inv, NEW n \in Nodes, HandleFrame(n)
    PROVE  StormEnergy(inbox') < StormEnergy(inbox)
<1>1. Reads(n) /\ TypeOK /\ inbox \in Queues /\ inbox[n] \in Seq(Entries) /\ inbox[n] # <<>>
  BY DEF HandleFrame, ReplyArp, Rebroadcast, AlreadySent, SkipFrame, ReadFails,
         Retransmittable, Reads, Inv, TypeOK, Queues
<1> DEFINE via == Head(inbox[n]).via
<1>2. /\ via \in SUBSET Nodes /\ Consumed(n) \in Queues
      /\ StormEnergy(Consumed(n)) = StormEnergy(inbox) - Energy(via)
  BY <1>1, ConsumedEnergy
<1>3. /\ StormEnergy(inbox) \in Nat /\ Energy(via) \in Nat \ {0}
      /\ StormEnergy(Consumed(n)) \in Nat
  BY <1>1, <1>2, StormSummable, EnergyType
<1>4. CASE inbox' = Consumed(n)
  BY <1>2, <1>3, <1>4
<1>5. CASE Rebroadcast(n)
  <2> DEFINE onward == via \cup {n}
  <2>1. n \notin via
    BY <1>5, RebroadcastInv
  <2>2. inbox' = Deliver(Consumed(n), Frame(n), onward, {n})
    BY <1>5 DEF Rebroadcast
  <2>3. Frame(n) \in Frames /\ onward \in SUBSET Nodes
    BY <1>1, <1>2, ConsumedQueue DEF Frame, Entries
  <2>4. Size * Energy(onward) < Energy(via)
    BY <1>2, <2>1, EnergyFalls
  <2>5. Size * Energy(onward) \in Nat
    <3>1. \A a, b \in Nat : a * b \in Nat
      OBVIOUS
    <3> QED BY <2>3, <3>1, EnergyType, ViaSize
  <2> HIDE DEF onward, via
  <2>6. /\ inbox' \in Queues
        /\ StormEnergy(inbox') <= StormEnergy(Consumed(n)) + Size * Energy(onward)
    BY <1>2, <2>2, <2>3, DeliveredEnergy
  <2>7. StormEnergy(inbox') \in Nat
    BY <2>6, StormSummable
  <2> QED BY <1>2, <1>3, <2>4, <2>5, <2>6, <2>7
<1>6. CASE ReadFails(n)
  <2>1. inbox' = Replaced(inbox, n, <<>>) /\ <<>> \in Seq(Entries)
    BY <1>6 DEF ReadFails, Replaced
  <2>2. StormEnergy(inbox') = StormEnergy(inbox) - QueueEnergy(inbox[n]) + QueueEnergy(<<>>)
    BY <1>1, <2>1, OneQueueChanges
  <2>3. QueueEnergy(<<>>) = 0
    <3>1. 1..Len(<<>>) = {}
      OBVIOUS
    <3> QED BY <3>1, SumOfNothing DEF QueueEnergy
  <2>4. QueueEnergy(inbox[n]) = Energy(via) + QueueEnergy(Tail(inbox[n]))
    BY <1>1, EnergyOfTail
  <2>5. QueueEnergy(Tail(inbox[n])) \in Nat
    <3>1. Tail(inbox[n]) \in Seq(Entries)
      BY <1>1
    <3> QED BY <3>1, QueueSummable
  <2> HIDE DEF via
  <2> QED BY <1>3, <2>2, <2>3, <2>4, <2>5
<1>7. inbox' = Consumed(n) \/ Rebroadcast(n) \/ ReadFails(n)
  BY DEF HandleFrame, ReplyArp, AlreadySent, SkipFrame
<1> QED BY <1>4, <1>5, <1>6, <1>7

\* Waiting costs no energy.
LEMMA TickEnergy ==
    ASSUME Inv, Tick
    PROVE  StormEnergy(inbox') = StormEnergy(inbox)
<1>1. inbox \in Queues /\ inbox' \in Queues
  BY TickInv DEF Inv, TypeOK, Queues
<1>2. ASSUME NEW k \in Nodes PROVE QueueEnergy(inbox'[k]) = QueueEnergy(inbox[k])
  <2> DEFINE n == Len(inbox[k])
  <2>1. inbox'[k] = [i \in 1..n |-> [inbox[k][i] EXCEPT !.wait = @ + 1]]
    BY DEF Tick
  <2>2. n \in Nat /\ \A i \in 1..n : inbox[k][i] \in Entries
    BY <1>1 DEF Queues
  <2> HIDE DEF n
  <2>3. Len(inbox'[k]) = n
    BY <2>1, <2>2
  <2>4. \A i \in 1..n : inbox'[k][i].via = inbox[k][i].via
    BY <2>1, <2>2 DEF Entries
  <2>5. Energies(inbox'[k]) = Energies(inbox[k])
    BY <2>3, <2>4 DEF Energies, n
  <2> QED BY <2>3, <2>5 DEF QueueEnergy, n
<1>3. QueueEnergies(inbox') = QueueEnergies(inbox)
  BY <1>2 DEF QueueEnergies
<1> QED BY <1>3 DEF StormEnergy

\* What every step does to the energy of the storm, a natural number.
StormStep ==
    /\ StormEnergy(inbox) \in Nat
    /\ \A n \in Nodes : HandleFrame(n) => StormEnergy(inbox') < StormEnergy(inbox)
    /\ Tick => StormEnergy(inbox') = StormEnergy(inbox)

\* However the frames are queued and in whatever order they are handled, each
\* frame that run() handles lowers the energy of the storm, and time does not
\* raise it: between two frames sent to the bridge, only finitely many are
\* handled.  This is why StormEnds holds, for any number of interfaces.
THEOREM StormWeakens == Spec => [][StormStep]_vars
<1>1. Inv /\ [Next]_vars => [StormStep]_vars
  <2> SUFFICES ASSUME Inv PROVE StormStep
    OBVIOUS
  <2>1. StormEnergy(inbox) \in Nat
    BY StormSummable DEF Inv, TypeOK, Queues
  <2> QED BY <2>1, HandledEnergy, TickEnergy DEF StormStep
<1> QED BY <1>1, Invariance, PTL DEF Spec

-----------------------------------------------------------------------------
(* Requests and replies. *)

\* The interfaces invent no frames: what waits on the bridge was sent there.
SentByHosts ==
    \A k \in Nodes : \A i \in 1..Len(inbox[k]) :
        \E h \in Hosts : inbox[k][i].frame \in HostFrames(h)

\* Every reply answers a request for the address of its author, which a host sent.
RepliesAnswerRequests ==
    \A r \in replies : \E h \in Hosts : r.frame = ReplyTo(r.by, Request(h, r.by))

LEMMA OnlyRequests ==
    ASSUME NEW h \in Hosts, NEW frame \in HostFrames(h), NEW n \in Nodes, IsForMachine(n, frame)
    PROVE  frame = Request(h, n)
<1>1. frame.kind = "ARP" /\ frame.operation = "request" /\ frame.target_ip = n
  BY DEF IsForMachine, IsBroadcast
<1>2. frame # Gratuitous(h)
  <2>1. Gratuitous(h).operation = "reply"
    BY DEF Gratuitous, Request
  <2> QED BY <1>1, <2>1
<1>3. frame \notin [kind : {"IPv4", "IPv6", "unreadable"}]
  BY <1>1
<1>4. PICK t \in Interfaces : frame = Request(h, t)
  BY <1>2, <1>3 DEF HostFrames
<1>5. Request(h, t).target_ip = t
  BY DEF Request
<1> QED BY <1>1, <1>4, <1>5

\* What was delivered is either the new frame or was in the queue at that place.
Arrived(next, queues, frame) ==
    \A k \in Nodes : \A i \in 1..Len(next[k]) :
        \/ next[k][i].frame = frame
        \/ i \in 1..Len(queues[k]) /\ next[k][i] = queues[k][i]

LEMMA DeliveredFrames ==
    ASSUME NEW queues \in [Nodes -> Seq(Entries)], NEW frame \in Frames,
           NEW via \in SUBSET Nodes, NEW writers
    PROVE  Arrived(Deliver(queues, frame, via, writers), queues, frame)
<1> DEFINE next == Deliver(queues, frame, via, writers)
<1>1. Received(next, queues, Sent(frame, via))
  BY Delivered
<1>2. Sent(frame, via).frame = frame
  BY DEF Sent
<1> HIDE DEF next
<1>3. Arrived(next, queues, frame)
  BY <1>1, <1>2 DEF Received, Arrived
<1> QED BY <1>3 DEF next

\* Where the frames of the next queues come from.
LEMMA FramesStay ==
    ASSUME Inv, NEW n \in Nodes, HandleFrame(n)
    PROVE  \A k \in Nodes : \A i \in 1..Len(inbox'[k]) :
             \E m \in Nodes : \E j \in 1..Len(inbox[m]) :
               inbox'[k][i].frame = inbox[m][j].frame
<1>1. Reads(n) /\ TypeOK
  BY DEF HandleFrame, ReplyArp, Rebroadcast, AlreadySent, SkipFrame, ReadFails,
         Retransmittable, Inv
<1>2. /\ Consumed(n) \in [Nodes -> Seq(Entries)]
      /\ Head(inbox[n]) \in Entries
      /\ Head(inbox[n]) = inbox[n][1] /\ 1 \in 1..Len(inbox[n])
      /\ \A k \in Nodes : \A i \in 1..Len(Consumed(n)[k]) :
           \E j \in 1..Len(inbox[k]) : Consumed(n)[k][i] = inbox[k][j]
  BY <1>1, ConsumedQueue
<1>3. CASE inbox' = Consumed(n)
  BY <1>2, <1>3
<1>4. CASE Rebroadcast(n)
  <2>1. PICK via \in SUBSET Nodes : inbox' = Deliver(Consumed(n), Frame(n), via, {n})
    <3>1. Head(inbox[n]).via \cup {n} \in SUBSET Nodes
      BY <1>2 DEF Entries
    <3> QED BY <1>4, <3>1 DEF Rebroadcast
  <2>2. Frame(n) \in Frames /\ Frame(n) = inbox[n][1].frame
    BY <1>2 DEF Frame, Entries
  <2>3. Arrived(inbox', Consumed(n), Frame(n))
    <3>1. Consumed(n) \in [Nodes -> Seq(Entries)] /\ Frame(n) \in Frames
      BY <1>2, <2>2
    <3>2. Arrived(Deliver(Consumed(n), Frame(n), via, {n}), Consumed(n), Frame(n))
      BY <3>1, DeliveredFrames
    <3> QED BY <2>1, <3>2
  <2>4. ASSUME NEW k \in Nodes, NEW i \in 1..Len(inbox'[k])
        PROVE  \E m \in Nodes : \E j \in 1..Len(inbox[m]) :
                 inbox'[k][i].frame = inbox[m][j].frame
    <3>1. CASE inbox'[k][i].frame = Frame(n)
      <4>1. 1 \in 1..Len(inbox[n]) /\ inbox'[k][i].frame = inbox[n][1].frame
        BY <1>2, <2>2, <3>1
      <4> QED BY <4>1
    <3>2. CASE i \in 1..Len(Consumed(n)[k]) /\ inbox'[k][i] = Consumed(n)[k][i]
      <4>1. PICK j \in 1..Len(inbox[k]) : Consumed(n)[k][i] = inbox[k][j]
        BY <1>2, <3>2
      <4>2. inbox'[k][i].frame = inbox[k][j].frame
        BY <3>2, <4>1
      <4> QED BY <4>2
    <3> QED BY <2>3, <3>1, <3>2 DEF Arrived
  <2> QED BY <2>4
<1>5. CASE ReadFails(n)
  <2>1. \A k \in Nodes : inbox'[k] = inbox[k] \/ inbox'[k] = <<>>
    BY <1>5 DEF ReadFails, Inv, TypeOK
  <2> QED BY <2>1
<1>6. inbox' = Consumed(n) \/ Rebroadcast(n) \/ ReadFails(n)
  BY DEF HandleFrame, ReplyArp, AlreadySent, SkipFrame
<1> QED BY <1>3, <1>4, <1>5, <1>6

LEMMA FramesWait ==
    ASSUME Inv, Tick
    PROVE  \A k \in Nodes : /\ Len(inbox'[k]) = Len(inbox[k])
                            /\ \A i \in 1..Len(inbox[k]) : inbox'[k][i].frame = inbox[k][i].frame
<1> SUFFICES ASSUME NEW k \in Nodes
             PROVE  /\ Len(inbox'[k]) = Len(inbox[k])
                    /\ \A i \in 1..Len(inbox[k]) : inbox'[k][i].frame = inbox[k][i].frame
  OBVIOUS
<1> DEFINE n == Len(inbox[k])
<1>1. inbox'[k] = [i \in 1..n |-> [inbox[k][i] EXCEPT !.wait = @ + 1]]
  BY DEF Tick
<1>2. n \in Nat /\ \A i \in 1..n : inbox[k][i] \in Entries
  BY DEF Inv, TypeOK
<1> HIDE DEF n
<1>3. Len(inbox'[k]) = n /\ \A i \in 1..n : inbox'[k][i].frame = inbox[k][i].frame
  BY <1>1, <1>2 DEF Entries
<1> QED BY <1>3 DEF n

LEMMA SendingHosts ==
    ASSUME Inv, SentByHosts, NEW h \in Hosts, NEW frame \in HostFrames(h), NEW writers,
           inbox' = Deliver(inbox, frame, {}, writers)
    PROVE  SentByHosts'
<1>1. frame \in Frames /\ inbox \in [Nodes -> Seq(Entries)] /\ {} \in SUBSET Nodes
  BY HostFramesType DEF Inv, TypeOK
<1>2. Arrived(Deliver(inbox, frame, {}, writers), inbox, frame)
  BY <1>1, DeliveredFrames
<1>3. Arrived(inbox', inbox, frame)
  BY <1>2
<1> QED BY <1>3 DEF SentByHosts, Arrived

\* What is replied to is a request of a host, and the reply is made of it.
THEOREM RepliesAnswer == Spec => []RepliesAnswerRequests
<1>1. Init => SentByHosts /\ RepliesAnswerRequests
  BY DEF Init, SentByHosts, RepliesAnswerRequests
<1>2. Inv /\ SentByHosts /\ RepliesAnswerRequests /\ [Next]_vars
        => SentByHosts' /\ RepliesAnswerRequests'
  <2> SUFFICES ASSUME Inv, SentByHosts, RepliesAnswerRequests, [Next]_vars
               PROVE  SentByHosts' /\ RepliesAnswerRequests'
    OBVIOUS
  <2>1. ASSUME NEW h \in Hosts, HostSends(h) PROVE SentByHosts' /\ replies' = replies
    <3>1. PICK frame \in HostFrames(h) : inbox' = Deliver(inbox, frame, {}, {})
      BY <2>1 DEF HostSends
    <3> QED BY <2>1, <3>1, SendingHosts DEF HostSends
  <2>2. ASSUME NEW n \in Nodes, ProcessStdin(n) PROVE SentByHosts' /\ replies' = replies
    <3>1. PICK h \in Hosts : \E frame \in HostFrames(h) : inbox' = Deliver(inbox, frame, {}, {n})
      BY <2>2 DEF ProcessStdin
    <3>2. PICK frame \in HostFrames(h) : inbox' = Deliver(inbox, frame, {}, {n})
      BY <3>1
    <3> QED BY <2>2, <3>2, SendingHosts DEF ProcessStdin
  <2>3. ASSUME NEW n \in Nodes, HandleFrame(n) PROVE SentByHosts'
    <3> SUFFICES ASSUME NEW k \in Nodes, NEW i \in 1..Len(inbox'[k])
                 PROVE  \E h \in Hosts : inbox'[k][i].frame \in HostFrames(h)
      BY DEF SentByHosts
    <3>1. PICK m \in Nodes : \E j \in 1..Len(inbox[m]) :
                                inbox'[k][i].frame = inbox[m][j].frame
      BY <2>3, FramesStay
    <3> QED BY <3>1 DEF SentByHosts
  <2>4. ASSUME NEW n \in Nodes, ReplyArp(n) PROVE RepliesAnswerRequests'
    <3>1. Reads(n) /\ IsForMachine(n, Frame(n))
          /\ replies' = replies \cup {[by |-> n, frame |-> ReplyTo(n, Frame(n))]}
      BY <2>4 DEF ReplyArp
    <3>2. PICK h \in Hosts : Frame(n) \in HostFrames(h)
      BY <3>1, ConsumedQueue DEF SentByHosts, Frame, Inv
    <3>3. Frame(n) = Request(h, n)
      BY <3>1, <3>2, OnlyRequests
    <3> DEFINE r == [by |-> n, frame |-> ReplyTo(n, Request(h, n))]
    <3>4. r.by = n /\ r.frame = ReplyTo(n, Request(h, n))
      OBVIOUS
    <3> HIDE DEF r
    <3>5. replies' = replies \cup {r}
      BY <3>1, <3>3 DEF r
    <3> QED BY <3>4, <3>5 DEF RepliesAnswerRequests
  <2>5. ASSUME NEW n \in Nodes, HandleFrame(n) PROVE RepliesAnswerRequests'
    <3>1. CASE ReplyArp(n)
      BY <2>4, <3>1
    <3>2. CASE ~ReplyArp(n)
      <4>1. replies' = replies
        BY <2>5, <3>2 DEF HandleFrame, Rebroadcast, AlreadySent, SkipFrame, ReadFails
      <4> QED BY <4>1 DEF RepliesAnswerRequests
    <3> QED BY <3>1, <3>2
  <2>6. CASE Tick
    <3>1. replies' = replies
      BY <2>6 DEF Tick
    <3> QED BY <2>6, <3>1, FramesWait DEF SentByHosts, RepliesAnswerRequests
  <2>7. CASE UNCHANGED vars
    BY <2>7 DEF vars, SentByHosts, RepliesAnswerRequests
  <2> QED BY <2>1, <2>2, <2>3, <2>5, <2>6, <2>7 DEF Next, RepliesAnswerRequests
<1> QED BY <1>1, <1>2, Invariance, PTL DEF Spec

\* The sender hardware address of a reply is never that of the interface that
\* has the address, but always that of the host that asked: ReplyNamesItsSender
\* fails for each reply, not for some.
THEOREM RepliesNameTheAsker ==
    ASSUME Nodes \cap Hosts = {}
    PROVE  Spec => [](\A r \in replies : /\ r.frame.sender_mac = r.frame.dst
                                         /\ r.frame.sender_mac # r.by)
<1> DEFINE Named == \A r \in replies : /\ r.frame.sender_mac = r.frame.dst
                                       /\ r.frame.sender_mac # r.by
<1>1. TypeOK /\ RepliesAnswerRequests => Named
  <2> SUFFICES ASSUME TypeOK, RepliesAnswerRequests, NEW r \in replies
               PROVE  r.frame.sender_mac = r.frame.dst /\ r.frame.sender_mac # r.by
    OBVIOUS
  <2>1. r.by \in Nodes
    BY DEF TypeOK
  <2>2. PICK h \in Hosts : r.frame = ReplyTo(r.by, Request(h, r.by))
    BY DEF RepliesAnswerRequests
  <2>3. r.frame.sender_mac = h /\ r.frame.dst = h
    BY <2>2 DEF ReplyTo, Request
  <2> QED BY <2>1, <2>3
<1> HIDE DEF Named
<1>2. Spec => []Named
  BY <1>1, TypeCorrect, RepliesAnswer, PTL
<1> QED BY <1>2 DEF Named

-----------------------------------------------------------------------------
(* No request is lost between the queue and its reply. *)

Asks(h, n) == \E i \in 1..Len(inbox[n]) : inbox[n][i].frame = Request(h, n)

Answered(h, n) == \E r \in replies : r.by = n /\ r.frame.dst = h

\* A request that waits in the queue of the interface it is for goes on to
\* wait, is answered by the step, or the process ends.
RequestStep ==
    \A n \in Nodes : \A h \in Hosts :
        Asks(h, n) => Asks(h, n)' \/ Answered(h, n)' \/ n \in terminated'

\* The frames of one queue are also in another.
Within(queue, next) ==
    \A i \in 1..Len(queue) : \E j \in 1..Len(next) : next[j].frame = queue[i].frame

Kept(queues, next, n) == Within(queues[n], next[n])

LEMMA DeliveryKeeps ==
    ASSUME NEW queues \in [Nodes -> Seq(Entries)], NEW frame, NEW via, NEW writers, NEW n \in Nodes
    PROVE  Kept(queues, Deliver(queues, frame, via, writers), n)
<1> DEFINE entry == [frame |-> frame, via |-> via, wait |-> 0]
           next == Deliver(queues, frame, via, writers)
           queue == queues[n]
           longer == Append(queue, entry)
<1>1. next[n] = queue \/ next[n] = longer
  BY DEF Deliver
<1>2. queue \in Seq(Entries)
  OBVIOUS
<1> HIDE DEF entry, next, queue
<1>3. Within(queue, queue)
  BY DEF Within
<1>4. Within(queue, longer)
  <2>1. \A i \in 1..Len(queue) : i \in 1..Len(longer) /\ longer[i] = queue[i]
    BY <1>2
  <2> HIDE DEF longer
  <2> SUFFICES ASSUME NEW i \in 1..Len(queue)
               PROVE  \E j \in 1..Len(longer) : longer[j].frame = queue[i].frame
    BY DEF Within
  <2>2. i \in 1..Len(longer) /\ longer[i].frame = queue[i].frame
    BY <2>1
  <2> QED BY <2>2
<1> HIDE DEF longer
<1>5. Within(queue, next[n])
  BY <1>1, <1>3, <1>4
<1> QED BY <1>5 DEF Kept, queue, next

LEMMA KeptAsks ==
    ASSUME NEW n \in Nodes, NEW h \in Hosts, Asks(h, n), Kept(inbox, inbox', n)
    PROVE  Asks(h, n)'
BY DEF Asks, Kept, Within

\* Only the first frame of the interface that reads leaves its queue.
LEMMA TakenFrame ==
    ASSUME Inv, NEW m \in Nodes, Reads(m), NEW n \in Nodes, NEW i \in 1..Len(inbox[n]),
           n # m \/ i # 1
    PROVE  \E j \in 1..Len(Consumed(m)[n]) : Consumed(m)[n][j] = inbox[n][i]
<1>1. inbox[n] \in Seq(Entries) /\ inbox \in [Nodes -> Seq(Entries)]
  BY DEF Inv, TypeOK
<1>2. CASE n # m
  <2>1. Consumed(m)[n] = inbox[n]
    BY <1>1, <1>2 DEF Consumed
  <2> QED BY <2>1
<1>3. CASE n = m
  <2>1. Consumed(m)[n] = Tail(inbox[n])
    BY <1>1, <1>3 DEF Consumed
  <2> DEFINE q == inbox[n]
  <2>2. q \in Seq(Entries) /\ q # <<>> /\ i \in 1..Len(q) /\ i # 1
    BY <1>1, <1>3 DEF Reads
  <2> HIDE DEF q
  <2>3. i - 1 \in 1..Len(Tail(q)) /\ Tail(q)[i - 1] = q[i]
    BY <2>2
  <2> QED BY <2>1, <2>3 DEF q
<1> QED BY <1>2, <1>3

LEMMA TakenRequest ==
    ASSUME Inv, NEW n \in Nodes, NEW h \in Hosts, HandleFrame(n), Frame(n) = Request(h, n)
    PROVE  Answered(h, n)'
<1>1. IsForMachine(n, Frame(n)) /\ IsBroadcast(Frame(n)) /\ Frame(n).kind = "ARP"
  BY DEF IsForMachine, IsBroadcast, Request
<1>2. ReplyArp(n)
  BY <1>1 DEF HandleFrame, Rebroadcast, AlreadySent, Retransmittable, SkipFrame, ReadFails
<1> DEFINE r == [by |-> n, frame |-> ReplyTo(n, Request(h, n))]
<1>3. r.by = n /\ r.frame.dst = h
  BY DEF ReplyTo, Request
<1>4. replies' = replies \cup {r}
  BY <1>2 DEF ReplyArp
<1> HIDE DEF r
<1> QED BY <1>3, <1>4 DEF Answered

LEMMA HandledRequests ==
    ASSUME Inv, NEW m \in Nodes, HandleFrame(m), NEW n \in Nodes, NEW h \in Hosts, Asks(h, n)
    PROVE  Asks(h, n)' \/ Answered(h, n)' \/ n \in terminated'
<1>1. PICK i \in 1..Len(inbox[n]) : inbox[n][i].frame = Request(h, n)
  BY DEF Asks
<1>2. Reads(m)
  BY DEF HandleFrame, ReplyArp, Rebroadcast, AlreadySent, SkipFrame, ReadFails,
         Retransmittable
<1>3. CASE n = m /\ i = 1
  <2>1. Frame(n) = Request(h, n)
    BY <1>1, <1>2, <1>3, ConsumedQueue DEF Inv, Frame
  <2> QED BY <1>3, <2>1, TakenRequest
<1>4. CASE n # m \/ i # 1
  <2>1. PICK j \in 1..Len(Consumed(m)[n]) : Consumed(m)[n][j] = inbox[n][i]
    BY <1>2, <1>4, TakenFrame
  <2>2. CASE inbox' = Consumed(m)
    BY <1>1, <2>1, <2>2 DEF Asks
  <2>3. CASE Rebroadcast(m)
    <3>1. PICK via : inbox' = Deliver(Consumed(m), Frame(m), via, {m})
      BY <2>3 DEF Rebroadcast
    <3>2. Consumed(m) \in [Nodes -> Seq(Entries)]
      BY <1>2, ConsumedQueue DEF Inv
    <3>3. Kept(Consumed(m), Deliver(Consumed(m), Frame(m), via, {m}), n)
      BY <3>2, DeliveryKeeps
    <3>4. Kept(Consumed(m), inbox', n)
      BY <3>1, <3>3
    <3> QED BY <1>1, <2>1, <3>4 DEF Kept, Within, Asks
  <2>4. CASE ReadFails(m) /\ n = m
    BY <2>4 DEF ReadFails
  <2>5. CASE ReadFails(m) /\ n # m
    <3>1. inbox'[n] = inbox[n]
      BY <2>5 DEF ReadFails, Inv, TypeOK
    <3> QED BY <1>1, <3>1 DEF Asks
  <2>6. inbox' = Consumed(m) \/ Rebroadcast(m) \/ ReadFails(m)
    BY DEF HandleFrame, ReplyArp, AlreadySent, SkipFrame
  <2> QED BY <2>2, <2>3, <2>4, <2>5, <2>6
<1> QED BY <1>3, <1>4

\* No step of the system takes a request off a queue without answering it: not
\* that of another interface, not the timetable, not a full queue.
THEOREM RequestsWait == Spec => [][RequestStep]_vars
<1>1. Inv /\ [Next]_vars => [RequestStep]_vars
  <2> SUFFICES ASSUME Inv, Next, NEW n \in Nodes, NEW h \in Hosts, Asks(h, n)
               PROVE  Asks(h, n)' \/ Answered(h, n)' \/ n \in terminated'
    BY DEF RequestStep
  <2>1. inbox \in [Nodes -> Seq(Entries)]
    BY DEF Inv, TypeOK
  <2>2. ASSUME NEW g \in Hosts, HostSends(g) PROVE Asks(h, n)'
    <3>1. PICK frame \in HostFrames(g) : inbox' = Deliver(inbox, frame, {}, {})
      BY <2>2 DEF HostSends
    <3>2. Kept(inbox, Deliver(inbox, frame, {}, {}), n)
      BY <2>1, DeliveryKeeps
    <3>3. Kept(inbox, inbox', n)
      BY <3>1, <3>2
    <3> QED BY <3>3, KeptAsks
  <2>3. ASSUME NEW m \in Nodes, ProcessStdin(m) PROVE Asks(h, n)'
    <3>1. PICK g \in Hosts : \E frame \in HostFrames(g) : inbox' = Deliver(inbox, frame, {}, {m})
      BY <2>3 DEF ProcessStdin
    <3>2. PICK frame \in HostFrames(g) : inbox' = Deliver(inbox, frame, {}, {m})
      BY <3>1
    <3>3. Kept(inbox, Deliver(inbox, frame, {}, {m}), n)
      BY <2>1, DeliveryKeeps
    <3>4. Kept(inbox, inbox', n)
      BY <3>2, <3>3
    <3> QED BY <3>4, KeptAsks
  <2>4. CASE Tick
    BY <2>4, FramesWait DEF Asks
  <2>5. ASSUME NEW m \in Nodes, HandleFrame(m)
        PROVE  Asks(h, n)' \/ Answered(h, n)' \/ n \in terminated'
    BY <2>5, HandledRequests
  <2> QED BY <2>2, <2>3, <2>4, <2>5 DEF Next
<1> QED BY <1>1, Invariance, PTL DEF Spec
=============================================================================
