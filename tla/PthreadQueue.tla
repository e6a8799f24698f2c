---------------------------- MODULE PthreadQueue ----------------------------
(***************************************************************************)
(* src/thirdparty/c-pthread-queue/queue.c: a ring buffer shared by threads, *)
(* guarded by one mutex and two condition variables.                        *)
(*                                                                          *)
(* One action per step that another thread can observe or interrupt: the    *)
(* lock, the test of the while loop, the wait, the slot and counter update, *)
(* the index update with the unlock, and the broadcast, which the code      *)
(* issues AFTER the unlock.  POSIX allows a condition wait to return without *)
(* a broadcast (SpuriousWakeup).                                            *)
(***************************************************************************)
EXTENDS Integers, Sequences

CONSTANTS
  Producers,   \* threads that call queue_enqueue
  Consumers,   \* threads that call queue_dequeue
  Values,      \* the void * values that are passed
  Capacity,    \* queue->capacity
  NoThread     \* the mutex is free

ASSUME QueueAssumption ==
  /\ Capacity \in Nat \ {0}
  /\ Producers \cap Consumers = {}
  /\ NoThread \notin Producers \cup Consumers
  /\ Values # {}

Threads == Producers \cup Consumers
Slots   == 0 .. Capacity - 1

VARIABLES
  buffer,   \* queue->buffer: the slots
  size,     \* queue->size
  in,       \* queue->in: the slot the next enqueue writes
  out,      \* queue->out: the slot the next dequeue reads
  mutex,    \* the holder of queue->mutex, or NoThread
  pc,       \* where each thread is
  value     \* the argument of an enqueue, the result of a dequeue

vars == <<buffer, size, in, out, mutex, pc, value>>

(* Where a thread can be:                                                  *)
(*   idle       outside the queue's functions                              *)
(*   lock       about to acquire the mutex                                 *)
(*   test       holds the mutex, about to test size in the while           *)
(*   waiting    blocked in pthread_cond_wait, the mutex released:          *)
(*              a producer on cond_full, a consumer on cond_empty          *)
(*   relock     woken, about to acquire the mutex inside pthread_cond_wait *)
(*   transfer   holds the mutex and has left the while loop                *)
(*   advance    holds the mutex, has changed size but not yet in or out    *)
(*   broadcast  has released the mutex, has not broadcast yet              *)
Places ==
  {"idle", "lock", "test", "waiting", "relock", "transfer", "advance", "broadcast"}

Init ==
  /\ buffer \in [Slots -> Values]   \* uninitialised memory
  /\ size = 0
  /\ in = 0
  /\ out = 0
  /\ mutex = NoThread
  /\ pc = [t \in Threads |-> "idle"]
  /\ value \in [Threads -> Values]

Goto(t, place) == pc' = [pc EXCEPT ![t] = place]

\* Mutant: the index never wraps round.
NextSlot_NoWrap(i) == i + 1

\* ++ queue->in; queue->in %= queue->capacity; the same for out.
NextSlot(i) == (i + 1) % Capacity

-----------------------------------------------------------------------------
(* Both functions *)

\* Mutant: a mutex that does not exclude.
Lock_Ungated(t) ==
  /\ pc[t] = "lock"
  /\ mutex' = t
  /\ Goto(t, "test")
  /\ UNCHANGED <<buffer, size, in, out, value>>

\* Mutant: nobody is let in while somebody waits inside.
Lock_NotWhileWaited(t) ==
  /\ pc[t] = "lock"
  /\ mutex = NoThread /\ \A u \in Threads : pc[u] # "waiting"
  /\ mutex' = t
  /\ Goto(t, "test")
  /\ UNCHANGED <<buffer, size, in, out, value>>

\* pthread_mutex_lock
Lock(t) ==
  /\ pc[t] = "lock"
  /\ mutex = NoThread
  /\ mutex' = t
  /\ Goto(t, "test")
  /\ UNCHANGED <<buffer, size, in, out, value>>

\* Mutant: an if in place of the while, the condition is not tested again.
Relock_NoRetest(t) ==
  /\ pc[t] = "relock"
  /\ mutex = NoThread
  /\ mutex' = t
  /\ Goto(t, "transfer")
  /\ UNCHANGED <<buffer, size, in, out, value>>

\* pthread_cond_wait returns with the mutex; the while tests again.
Relock(t) ==
  /\ pc[t] = "relock"
  /\ mutex = NoThread
  /\ mutex' = t
  /\ Goto(t, "test")
  /\ UNCHANGED <<buffer, size, in, out, value>>

\* The while loop around pthread_cond_wait: while the condition holds, release
\* the mutex and sleep, in one step; otherwise go on to the transfer.
WaitWhile(t, condition) ==
  /\ pc[t] = "test"
  /\ \/ /\ condition
        /\ mutex' = NoThread
        /\ Goto(t, "waiting")
     \/ /\ ~condition
        /\ Goto(t, "transfer")
        /\ UNCHANGED mutex
  /\ UNCHANGED <<buffer, size, in, out, value>>

\* pthread_cond_broadcast on the condition the threads in S wait for, the
\* last step of the call made by t.
CondBroadcast(t, S) ==
  /\ pc[t] = "broadcast"
  /\ pc' = [u \in Threads |-> IF u = t THEN "idle"
                              ELSE IF u \in S /\ pc[u] = "waiting" THEN "relock"
                              ELSE pc[u]]
  /\ UNCHANGED <<buffer, size, in, out, mutex, value>>

\* POSIX: a condition wait may return although nobody signalled it.
SpuriousWakeup(t) ==
  /\ pc[t] = "waiting"
  /\ Goto(t, "relock")
  /\ UNCHANGED <<buffer, size, in, out, mutex, value>>

-----------------------------------------------------------------------------
(* void queue_enqueue(queue_t *queue, void *value) *)

CallEnqueue(p, v) ==
  /\ pc[p] = "idle"
  /\ value' = [value EXCEPT ![p] = v]
  /\ Goto(p, "lock")
  /\ UNCHANGED <<buffer, size, in, out, mutex>>

EnqueueTest(p) == WaitWhile(p, size = Capacity)

\* Mutant: the slot is written after the index has moved on.
EnqueuePut_NextSlot(p) ==
  /\ pc[p] = "transfer"
  /\ buffer' = [buffer EXCEPT ![NextSlot(in)] = value[p]]
  /\ size' = size + 1
  /\ Goto(p, "advance")
  /\ UNCHANGED <<in, out, mutex, value>>

EnqueuePut(p) ==
  /\ pc[p] = "transfer"
  /\ buffer' = [buffer EXCEPT ![in] = value[p]]
  /\ size' = size + 1
  /\ Goto(p, "advance")
  /\ UNCHANGED <<in, out, mutex, value>>

EnqueueAdvance(p) ==
  /\ pc[p] = "advance"
  /\ in' = NextSlot(in)
  /\ mutex' = NoThread
  /\ Goto(p, "broadcast")
  /\ UNCHANGED <<buffer, size, out, value>>

\* Mutant: the producer wakes the other producers, as in a queue with one
\* condition variable too few.
EnqueueBroadcast_WrongCondition(p) == CondBroadcast(p, Producers)

EnqueueBroadcast(p) == CondBroadcast(p, Consumers)

-----------------------------------------------------------------------------
(* void *queue_dequeue(queue_t *queue) *)

CallDequeue(c) ==
  /\ pc[c] = "idle"
  /\ Goto(c, "lock")
  /\ UNCHANGED <<buffer, size, in, out, mutex, value>>

DequeueTest(c) == WaitWhile(c, size = 0)

\* Mutant: the slot is read after the index has moved on.
DequeueTake_NextSlot(c) ==
  /\ pc[c] = "transfer"
  /\ value' = [value EXCEPT ![c] = buffer[NextSlot(out)]]
  /\ size' = size - 1
  /\ Goto(c, "advance")
  /\ UNCHANGED <<buffer, in, out, mutex>>

DequeueTake(c) ==
  /\ pc[c] = "transfer"
  /\ value' = [value EXCEPT ![c] = buffer[out]]
  /\ size' = size - 1
  /\ Goto(c, "advance")
  /\ UNCHANGED <<buffer, in, out, mutex>>

DequeueAdvance(c) ==
  /\ pc[c] = "advance"
  /\ out' = NextSlot(out)
  /\ mutex' = NoThread
  /\ Goto(c, "broadcast")
  /\ UNCHANGED <<buffer, size, in, value>>

DequeueBroadcast(c) == CondBroadcast(c, Producers)

-----------------------------------------------------------------------------
\* The steps of a call that is under way: what a scheduled thread performs.
EnqueueStep(p) ==
  \/ Lock(p) \/ EnqueueTest(p) \/ Relock(p)
  \/ EnqueuePut(p) \/ EnqueueAdvance(p) \/ EnqueueBroadcast(p)

DequeueStep(c) ==
  \/ Lock(c) \/ DequeueTest(c) \/ Relock(c)
  \/ DequeueTake(c) \/ DequeueAdvance(c) \/ DequeueBroadcast(c)

Next ==
  \/ \E p \in Producers : EnqueueStep(p) \/ \E v \in Values : CallEnqueue(p, v)
  \/ \E c \in Consumers : DequeueStep(c) \/ CallDequeue(c)
  \/ \E t \in Threads : SpuriousWakeup(t)

Spec == Init /\ [][Next]_vars

(* The operating system runs every runnable thread.  Nobody is obliged to  *)
(* call the queue, and no wait is obliged to end spuriously.               *)
Fairness ==
  /\ \A p \in Producers : WF_vars(EnqueueStep(p))
  /\ \A c \in Consumers : WF_vars(DequeueStep(c))

FairSpec == Spec /\ Fairness

-----------------------------------------------------------------------------
(* Properties *)

TypeOK ==
  /\ buffer \in [Slots -> Values]
  /\ size \in 0 .. Capacity
  /\ in \in Slots
  /\ out \in Slots
  /\ mutex \in Threads \cup {NoThread}
  /\ pc \in [Threads -> Places]
  /\ value \in [Threads -> Values]

\* The mutex is held exactly by the thread between lock and unlock.
MutexOwned ==
  \A t \in Threads : pc[t] \in {"test", "transfer", "advance"} <=> mutex = t

\* The ends of the queue as the thread in its critical section will leave them.
FirstSlot == IF \E c \in Consumers : pc[c] = "advance" THEN NextSlot(out) ELSE out
FreeSlot  == IF \E p \in Producers : pc[p] = "advance" THEN NextSlot(in) ELSE in

\* The two indices and the counter, updated one after the other and by
\* different functions, agree whenever nobody is inside: counting size slots on
\* from out ends at in (queue.c:10-12, 24-26).
RingConsistent == mutex = NoThread => (out + size) % Capacity = in

\* The test of the while loop still holds when the slot is used: nobody fills
\* or empties the queue between queue.c:6 and 9, or between queue.c:20 and 22,
\* although a waiter has given up the mutex in between.
TestStillHolds ==
  /\ \A p \in Producers : pc[p] = "transfer" => size < Capacity
  /\ \A c \in Consumers : pc[c] = "transfer" => size > 0

\* No lost wake-up, although the broadcast is sent after the unlock: a
\* consumer sleeps on a non-empty queue, or a producer on one with room, only
\* while some thread of the other side still owes its broadcast
\* (queue.c:13-14, 27-28).
OwesBroadcast(t) == pc[t] \in {"advance", "broadcast"}
NoLostWakeup ==
  /\ size > 0 /\ (\E c \in Consumers : pc[c] = "waiting")
       => \E p \in Producers : OwesBroadcast(p)
  /\ size < Capacity /\ (\E p \in Producers : pc[p] = "waiting")
       => \E c \in Consumers : OwesBroadcast(c)

\* The queue's content, oldest value first, read off the ring.
Contents == [k \in 1 .. size |-> buffer[(FirstSlot + (k - 1)) % Capacity]]

\* Every step of the ring buffer, whatever the interleaving, is an atomic
\* enqueue, an atomic dequeue or invisible: queue.c implements BoundedQueue.
Abstract == INSTANCE BoundedQueue WITH queue <- Contents
ImplementsBoundedQueue == Abstract!Spec

\* What queue_dequeue returns is the oldest value of the queue, which leaves the
\* queue at that moment, and nobody else touches a returned result (queue.c:22,
\* 29).
DequeueReturnsOldest ==
  [][\A c \in Consumers : value'[c] # value[c] =>
        /\ Contents # << >>
        /\ value'[c] = Head(Contents)
        /\ Contents' = Tail(Contents)]_vars

\* Once spurious wake-ups stop, a producer and a consumer that are both inside
\* a call do not block each other for ever: some call gets through
\* (the while loops of queue.c:6-7 and 20-21).
InCall(t) == pc[t] # "idle"
SomeCallCompletes ==
  <>[][\A t \in Threads : ~SpuriousWakeup(t)]_vars =>
     ((\E p \in Producers, c \in Consumers : InCall(p) /\ InCall(c))
        ~> \E t \in Threads : pc[t] = "broadcast")
=============================================================================
