---------------------------- MODULE BlockingQueue ----------------------------
(***************************************************************************)
(* playback::Queue: a bounded queue for any number of producers and        *)
(* consumers, made of one mutex and one condition variable that both kinds *)
(* of thread wait on.  A critical section is one step; the notification    *)
(* comes after the unlock, so other threads run in between.                *)
(*                                                                         *)
(* (Decoder owns such a queue for decoded frames; the push is commented    *)
(* out at this commit, so this is the contract of the class.)              *)
(***************************************************************************)
EXTENDS Naturals, Sequences

CONSTANTS
    Producers,  \* threads that push
    Consumers,  \* threads that pop
    Items,      \* non-null pointers
    maxSize,
    NoItem      \* a null pointer, or no result yet

Threads == Producers \cup Consumers

\* The constructor throws for 0.
ASSUME MaxSizeAssumption == maxSize \in Nat \ {0}
ASSUME NoItemAssumption == NoItem \notin Items
ASSUME ThreadsAssumption == Producers \cap Consumers = {}

VARIABLES
    _queue,     \* the underlying queue
    pc,         \* where each thread is in push() or pop()
    item,       \* the argument of push(), the result of pop()
    taken       \* history: the item that left the queue last

vars == <<_queue, pc, item, taken>>

Init ==
    /\ _queue = <<>>
    /\ pc = [t \in Threads |-> "idle"]
    /\ item = [t \in Threads |-> NoItem]
    /\ taken = NoItem

\* Mutant: null items are not rejected.
CallUnchecked(t) ==
    /\ pc[t] = "idle"
    /\ pc' = [pc EXCEPT ![t] = "lock"]
    /\ IF t \in Producers THEN \E i \in Items \cup {NoItem} : item' = [item EXCEPT ![t] = i]
                          ELSE UNCHANGED item
    /\ UNCHANGED <<_queue, taken>>

\* A null item makes push() throw before it does anything.
Call(t) ==
    /\ pc[t] = "idle"
    /\ pc' = [pc EXCEPT ![t] = "lock"]
    /\ IF t \in Producers THEN \E i \in Items : item' = [item EXCEPT ![t] = i]
                          ELSE UNCHANGED item
    /\ UNCHANGED <<_queue, taken>>

\* Mutant: room for one more than maxSize.
ReadyOneMore(t) == IF t \in Producers THEN Len(_queue) <= maxSize ELSE _queue # <<>>

\* The predicate of the wait.
Ready(t) == IF t \in Producers THEN Len(_queue) < maxSize ELSE _queue # <<>>

\* Evaluated under the lock, again after every wakeup.
Wait(t) ==
    /\ pc[t] = "lock"
    /\ ~Ready(t)
    /\ pc' = [pc EXCEPT ![t] = "wait"]
    /\ UNCHANGED <<_queue, item, taken>>

Push(t) ==
    /\ t \in Producers
    /\ pc[t] = "lock"
    /\ Ready(t)
    /\ _queue' = Append(_queue, item[t])
    /\ pc' = [pc EXCEPT ![t] = "notify"]
    /\ UNCHANGED <<item, taken>>

Front(q) == q[1]

Pop(t) ==
    /\ t \in Consumers
    /\ pc[t] = "lock"
    /\ Ready(t)
    /\ item' = [item EXCEPT ![t] = Front(_queue)]
    /\ taken' = Front(_queue)
    /\ _queue' = Tail(_queue)
    /\ pc' = [pc EXCEPT ![t] = "notify"]

\* Mutant: notify_one().
NotifyOne(t) ==
    /\ pc[t] = "notify"
    /\ LET waiting == {u \in Threads : pc[u] = "wait"}
       IN IF waiting = {} THEN pc' = [pc EXCEPT ![t] = "idle"]
          ELSE \E u \in waiting : pc' = [pc EXCEPT ![t] = "idle", ![u] = "lock"]
    /\ UNCHANGED <<_queue, item, taken>>

\* notify_all() wakes producers and consumers; then the call returns.
NotifyAll(t) ==
    /\ pc[t] = "notify"
    /\ pc' = [u \in Threads |-> IF u = t THEN "idle"
                                ELSE IF pc[u] = "wait" THEN "lock" ELSE pc[u]]
    /\ UNCHANGED <<_queue, item, taken>>

\* A wakeup that nobody caused.
SpuriousWakeup(t) ==
    /\ pc[t] = "wait"
    /\ pc' = [pc EXCEPT ![t] = "lock"]
    /\ UNCHANGED <<_queue, item, taken>>

Step(t) == Call(t) \/ Wait(t) \/ Push(t) \/ Pop(t) \/ NotifyAll(t)

Next == \E t \in Threads : Step(t) \/ SpuriousWakeup(t)

Spec == Init /\ [][Next]_vars

\* Every thread goes on, and keeps calling; nobody counts on spurious wakeups.
FairSpec == Spec /\ \A t \in Threads : WF_vars(Step(t))

-----------------------------------------------------------------------------
(* Properties. *)

TypeOK ==
    /\ _queue \in Seq(Items)
    /\ pc \in [Threads -> {"idle", "lock", "wait", "notify"}]
    /\ item \in [Threads -> Items \cup {NoItem}]
    /\ \A t \in Producers : pc[t] # "idle" => item[t] \in Items
    /\ taken \in Items \cup {NoItem}

\* No wakeup is lost, although both kinds of thread share the condition and the
\* notification follows the unlock: when a thread sleeps although it could go
\* on, a thread that will wake it is on its way.
NoLostWakeup ==
    \A t \in Threads :
        pc[t] = "wait" /\ Ready(t) => \E u \in Threads : pc[u] = "notify"

\* Producers and consumers never sleep at the same time with nobody to wake them.
NotAllAsleep ==
    (\E t \in Producers : pc[t] = "wait") /\ (\E t \in Consumers : pc[t] = "wait")
        => \E u \in Threads : pc[u] = "notify"

\* The queue implements BoundedFifo.
Fifo == INSTANCE BoundedFifo WITH buffer <- _queue
ImplementsFifo == Fifo!Spec

\* While there are producers and consumers, items keep flowing.
ItemsFlow == []<>(\E t \in Consumers : pc[t] = "notify")
=============================================================================
