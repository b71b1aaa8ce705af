------------------------ MODULE BlockingQueue_proofs ------------------------
(***************************************************************************)
(* Proofs about BlockingQueue for any producers, consumers, items and      *)
(* size: types, no lost wakeup, no common sleep, and the refinement of     *)
(* BoundedFifo.                                                            *)
(***************************************************************************)
EXTENDS BlockingQueue, TLAPS

LEMMA InitType == Init => TypeOK
BY DEF Init, TypeOK, Threads

LEMMA HeadOfQueue ==
    ASSUME NEW q \in Seq(Items), q # <<>>
    PROVE  /\ Front(q) \in Items /\ Front(q) = Head(q)
           /\ Tail(q) \in Seq(Items) /\ Len(Tail(q)) = Len(q) - 1 /\ Len(q) \in Nat
BY DEF Front

LEMMA TypeNext == TypeOK /\ [Next]_vars => TypeOK'
<1> SUFFICES ASSUME TypeOK, [Next]_vars PROVE TypeOK'
  OBVIOUS
<1>1. ASSUME NEW t \in Threads, Call(t) PROVE TypeOK'
  <2>1. CASE t \in Producers
    <3>1. PICK i \in Items : item' = [item EXCEPT ![t] = i]
      BY <1>1, <2>1 DEF Call
    <3> QED BY <1>1, <3>1 DEF Call, TypeOK, Threads
  <2>2. CASE t \notin Producers
    BY <1>1, <2>2 DEF Call, TypeOK, Threads
  <2> QED BY <2>1, <2>2
<1>2. ASSUME NEW t \in Threads, Wait(t) PROVE TypeOK'
  BY <1>2 DEF Wait, TypeOK, Threads
<1>3. ASSUME NEW t \in Threads, Push(t) PROVE TypeOK'
  BY <1>3 DEF Push, TypeOK, Threads
<1>4. ASSUME NEW t \in Threads, Pop(t) PROVE TypeOK'
  <2>1. t \notin Producers /\ t \in Consumers
    BY <1>4, ThreadsAssumption DEF Pop
  <2>2. _queue \in Seq(Items) /\ _queue # <<>>
    BY <1>4, <2>1 DEF Pop, Ready, TypeOK
  <2>3. Front(_queue) \in Items /\ Tail(_queue) \in Seq(Items)
    BY <2>2, HeadOfQueue
  <2> QED BY <1>4, <2>1, <2>3 DEF Pop, TypeOK, Threads
<1>5. ASSUME NEW t \in Threads, NotifyAll(t) PROVE TypeOK'
  BY <1>5 DEF NotifyAll, TypeOK, Threads
<1>6. ASSUME NEW t \in Threads, SpuriousWakeup(t) PROVE TypeOK'
  BY <1>6 DEF SpuriousWakeup, TypeOK, Threads
<1>7. CASE UNCHANGED vars
  BY <1>7 DEF vars, TypeOK
<1> QED BY <1>1, <1>2, <1>3, <1>4, <1>5, <1>6, <1>7 DEF Next, Step

\* The queue keeps its types.
THEOREM TypeCorrect == Spec => []TypeOK
BY InitType, TypeNext, PTL DEF Spec

-----------------------------------------------------------------------------
LEMMA WakeupNext == TypeOK /\ NoLostWakeup /\ [Next]_vars => NoLostWakeup'
<1> SUFFICES ASSUME TypeOK, NoLostWakeup, [Next]_vars PROVE NoLostWakeup'
  OBVIOUS
<1>0. pc \in [Threads -> {"idle", "lock", "wait", "notify"}]
  BY DEF TypeOK
\* A step that leaves the queue alone, sends nobody to sleep and stops no
\* notification.
<1>1. ASSUME _queue' = _queue,
             \A u \in Threads : pc'[u] = "wait" => pc[u] = "wait",
             \A u \in Threads : pc[u] = "notify" => pc'[u] = "notify"
      PROVE  NoLostWakeup'
  BY <1>1 DEF NoLostWakeup, Ready
<1>2. ASSUME NEW t \in Threads, Call(t) PROVE NoLostWakeup'
  BY <1>0, <1>1, <1>2 DEF Call
<1>3. ASSUME NEW t \in Threads, Wait(t) PROVE NoLostWakeup'
  <2>1. /\ ~Ready(t) /\ _queue' = _queue /\ pc[t] = "lock"
        /\ \A u \in Threads \ {t} : pc'[u] = pc[u]
        /\ pc'[t] = "wait"
    BY <1>0, <1>3 DEF Wait
  <2>2. \A u \in Threads : Ready(u)' = Ready(u)
    BY <2>1 DEF Ready
  <2> QED BY <2>1, <2>2 DEF NoLostWakeup
<1>4. ASSUME NEW t \in Threads, Push(t) \/ Pop(t) PROVE NoLostWakeup'
  <2>1. pc'[t] = "notify"
    BY <1>0, <1>4 DEF Push, Pop
  <2> QED BY <2>1 DEF NoLostWakeup
<1>5. ASSUME NEW t \in Threads, NotifyAll(t) PROVE NoLostWakeup'
  <2>1. \A u \in Threads : pc'[u] # "wait"
    BY <1>0, <1>5 DEF NotifyAll
  <2> QED BY <2>1 DEF NoLostWakeup
<1>6. ASSUME NEW t \in Threads, SpuriousWakeup(t) PROVE NoLostWakeup'
  BY <1>0, <1>1, <1>6 DEF SpuriousWakeup
<1>7. CASE UNCHANGED vars
  BY <1>1, <1>7 DEF vars
<1> QED BY <1>2, <1>3, <1>4, <1>5, <1>6, <1>7 DEF Next, Step

\* push() and pop() unlock before they notify, and share one condition: still no
\* thread is left asleep that could go on.
THEOREM NoWakeupIsLost == Spec => []NoLostWakeup
<1>1. Init => NoLostWakeup
  BY DEF Init, NoLostWakeup
<1> QED BY <1>1, TypeCorrect, WakeupNext, PTL DEF Spec

\* A queue cannot be full and empty at once, so one of the sleepers could go on.
THEOREM NeverAllAsleep == Spec => []NotAllAsleep
<1>1. TypeOK /\ NoLostWakeup => NotAllAsleep
  <2> SUFFICES ASSUME TypeOK, NoLostWakeup,
                      NEW p \in Producers, pc[p] = "wait",
                      NEW c \in Consumers, pc[c] = "wait"
               PROVE  \E u \in Threads : pc[u] = "notify"
    BY DEF NotAllAsleep
  <2>1. c \notin Producers /\ c \in Threads /\ p \in Threads
    BY ThreadsAssumption DEF Threads
  <2>2. _queue \in Seq(Items) /\ Len(_queue) \in Nat
    BY DEF TypeOK
  <2>3. Ready(p) \/ Ready(c)
    <3>1. CASE _queue = <<>>
      <4>1. Len(_queue) = 0
        BY <3>1
      <4> QED BY <4>1, MaxSizeAssumption DEF Ready
    <3>2. CASE _queue # <<>>
      BY <2>1, <3>2 DEF Ready
    <3> QED BY <3>1, <3>2
  <2> QED BY <2>1, <2>3 DEF NoLostWakeup
<1> QED BY <1>1, TypeCorrect, NoWakeupIsLost, PTL

-----------------------------------------------------------------------------
LEMMA FifoStep == TypeOK /\ [Next]_vars => [Fifo!Next]_(Fifo!vars)
<1> SUFFICES ASSUME TypeOK, [Next]_vars PROVE [Fifo!Next]_(Fifo!vars)
  OBVIOUS
<1>1. ASSUME NEW t \in Threads, Push(t) PROVE Fifo!Put
  <2>1. item[t] \in Items
    BY <1>1 DEF Push, TypeOK
  <2> QED BY <1>1, <2>1 DEF Push, Ready, Fifo!Put
<1>2. ASSUME NEW t \in Threads, Pop(t) PROVE Fifo!Take
  <2>1. t \notin Producers
    BY <1>2, ThreadsAssumption DEF Pop
  <2>2. _queue \in Seq(Items) /\ _queue # <<>>
    BY <1>2, <2>1 DEF Pop, Ready, TypeOK
  <2>3. Front(_queue) = Head(_queue)
    BY <2>2, HeadOfQueue
  <2> QED BY <1>2, <2>2, <2>3 DEF Pop, Fifo!Take
<1>3. ASSUME NEW t \in Threads, Call(t) \/ Wait(t) \/ NotifyAll(t) \/ SpuriousWakeup(t)
      PROVE  UNCHANGED (Fifo!vars)
  BY <1>3 DEF Call, Wait, NotifyAll, SpuriousWakeup, Fifo!vars
<1>4. CASE UNCHANGED vars
  BY <1>4 DEF vars, Fifo!vars
<1> QED BY <1>1, <1>2, <1>3, <1>4 DEF Next, Step, Fifo!Next

\* However the threads interleave, items go in while there is room and come out
\* in order, each to one consumer.
THEOREM FifoImplemented == Spec => ImplementsFifo
<1>1. Init => Fifo!Init
  BY DEF Init, Fifo!Init
<1> QED BY <1>1, TypeCorrect, FifoStep, PTL DEF Spec, ImplementsFifo, Fifo!Spec
=============================================================================
