------------------------- MODULE PthreadQueueProofs -------------------------
(***************************************************************************)
(* Proofs about PthreadQueue for any number of threads, any set of values   *)
(* and any positive capacity.                                               *)
(*                                                                          *)
(* None of the safety properties is inductive alone.  IndInv adds who holds *)
(* the mutex (MutexOwned) and how the indices and the counter are related   *)
(* while a thread is halfway through an update (RingInv).                   *)
(***************************************************************************)
EXTENDS PthreadQueue, SequenceTheorems, TLAPS

\* Counting size slots on from the first used one ends at the first free one,
\* the half-done update of the thread inside the critical section included.
RingInv == (FirstSlot + size) % Capacity = FreeSlot

IndInv ==
  /\ TypeOK
  /\ MutexOwned
  /\ RingInv
  /\ TestStillHolds
  /\ NoLostWakeup

-----------------------------------------------------------------------------
(* Arithmetic of the ring *)

\* Adding at most one lap to a slot wraps round at most once.
LEMMA WrapOnce ==
  ASSUME NEW C \in Nat \ {0}, NEW a \in 0 .. C - 1, NEW b \in 0 .. C
  PROVE  /\ (a + b) % C = IF a + b < C THEN a + b ELSE a + b - C
         /\ (a + b) % C \in 0 .. C - 1
  OBVIOUS

\* The same for the slots of the queue.
LEMMA SlotPlus ==
  ASSUME NEW i \in Slots, NEW k \in 0 .. Capacity
  PROVE  /\ (i + k) % Capacity = IF i + k < Capacity THEN i + k ELSE i + k - Capacity
         /\ (i + k) % Capacity \in Slots
  <1>1. Capacity \in Nat \ {0}
    BY QueueAssumption
  <1>2. i \in 0 .. Capacity - 1
    BY DEF Slots
  <1>3. /\ (i + k) % Capacity = IF i + k < Capacity THEN i + k ELSE i + k - Capacity
        /\ (i + k) % Capacity \in 0 .. Capacity - 1
    BY <1>1, <1>2, WrapOnce
  <1> QED
    BY <1>3 DEF Slots

\* The next slot of the ring, without the remainder: NextSlot stays in the ring.
LEMMA NextSlotValue ==
  ASSUME NEW i \in Slots
  PROVE  /\ NextSlot(i) \in Slots
         /\ NextSlot(i) = IF i + 1 < Capacity THEN i + 1 ELSE 0
  <1>1. Capacity \in Nat \ {0} /\ 1 \in 0 .. Capacity /\ i \in 0 .. Capacity - 1
    BY QueueAssumption DEF Slots
  <1>2. /\ (i + 1) % Capacity = IF i + 1 < Capacity THEN i + 1 ELSE i + 1 - Capacity
        /\ (i + 1) % Capacity \in Slots
    BY <1>1, SlotPlus
  <1> QED
    BY <1>1, <1>2 DEF NextSlot

\* The k-th slot after the next one is the (k+1)-th after this one.
LEMMA NextSlotShift ==
  ASSUME NEW i \in Slots, NEW k \in 0 .. Capacity - 1
  PROVE  (NextSlot(i) + k) % Capacity = (i + (k + 1)) % Capacity
  <1>1. Capacity \in Nat \ {0} /\ k \in 0 .. Capacity /\ k + 1 \in 0 .. Capacity
    BY QueueAssumption
  <1>2. NextSlot(i) \in Slots /\ NextSlot(i) = IF i + 1 < Capacity THEN i + 1 ELSE 0
    BY NextSlotValue
  <1>3. (NextSlot(i) + k) % Capacity
          = IF NextSlot(i) + k < Capacity THEN NextSlot(i) + k ELSE NextSlot(i) + k - Capacity
    BY <1>1, <1>2, SlotPlus
  <1>4. (i + (k + 1)) % Capacity
          = IF i + (k + 1) < Capacity THEN i + (k + 1) ELSE i + (k + 1) - Capacity
    BY <1>1, SlotPlus
  <1>5. i \in 0 .. Capacity - 1
    BY DEF Slots
  <1> QED
    BY <1>1, <1>2, <1>3, <1>4, <1>5

\* Fewer than Capacity slots that follow each other are different slots.
LEMMA SlotsDiffer ==
  ASSUME NEW i \in Slots, NEW j \in 0 .. Capacity - 1, NEW k \in 0 .. Capacity - 1,
         j # k
  PROVE  (i + j) % Capacity # (i + k) % Capacity
  <1>1. Capacity \in Nat \ {0} /\ j \in 0 .. Capacity /\ k \in 0 .. Capacity
    BY QueueAssumption
  <1>2. (i + j) % Capacity = IF i + j < Capacity THEN i + j ELSE i + j - Capacity
    BY <1>1, SlotPlus
  <1>3. (i + k) % Capacity = IF i + k < Capacity THEN i + k ELSE i + k - Capacity
    BY <1>1, SlotPlus
  <1>4. i \in 0 .. Capacity - 1
    BY DEF Slots
  <1> QED
    BY <1>1, <1>2, <1>3, <1>4

-----------------------------------------------------------------------------
(* The inductive invariant *)

\* queue_t as QUEUE_INITIALIZER leaves it, with every thread outside.
LEMMA InitIndInv == Init => IndInv
  <1> SUFFICES ASSUME Init PROVE IndInv
    OBVIOUS
  <1>0. Capacity \in Nat \ {0}
    BY QueueAssumption
  <1>1. TypeOK
    BY <1>0 DEF Init, TypeOK, Slots, Places
  <1>2. MutexOwned
    BY QueueAssumption DEF Init, MutexOwned, Threads
  <1>3. RingInv
    <2>1. FirstSlot = 0 /\ FreeSlot = 0 /\ size = 0
      BY DEF Init, FirstSlot, FreeSlot, Threads
    <2>2. (0 + 0) % Capacity = 0
      BY <1>0
    <2> QED
      BY <2>1, <2>2 DEF RingInv
  <1>4. TestStillHolds
    BY DEF Init, TestStillHolds, Threads
  <1>5. NoLostWakeup
    BY DEF Init, NoLostWakeup, Threads
  <1> QED
    BY <1>1, <1>2, <1>3, <1>4, <1>5 DEF IndInv

\* A thread in its critical section is alone there.
LEMMA AloneInside ==
  ASSUME TypeOK, MutexOwned,
         NEW t \in Threads, pc[t] \in {"test", "transfer", "advance"}
  PROVE  /\ mutex = t
         /\ \A u \in Threads : u # t => pc[u] \notin {"test", "transfer", "advance"}
  BY DEF MutexOwned

\* A step that changes neither an index nor the counter, and moves no thread to
\* or from the place between them, keeps the ring as it is.
LEMMA RingInvKept ==
  ASSUME RingInv, size' = size, in' = in, out' = out,
         \A t \in Threads : pc'[t] = "advance" <=> pc[t] = "advance"
  PROVE  RingInv'
  <1>1. FirstSlot' = FirstSlot
    BY DEF FirstSlot, NextSlot, Threads
  <1>2. FreeSlot' = FreeSlot
    BY DEF FreeSlot, NextSlot, Threads
  <1> QED
    BY <1>1, <1>2 DEF RingInv

\* Both ways of acquiring the mutex.
LEMMA AcquireIndInv ==
  ASSUME IndInv, NEW t \in Threads, Lock(t) \/ Relock(t)
  PROVE  IndInv'
  <1> USE DEF IndInv
  <1>1. /\ pc' = [pc EXCEPT ![t] = "test"] /\ mutex = NoThread /\ mutex' = t
        /\ pc[t] \in {"lock", "relock"}
        /\ UNCHANGED <<buffer, size, in, out, value>>
    BY DEF Lock, Relock, Goto
  <1>2. TypeOK'
    BY <1>1 DEF TypeOK, Places
  <1>3. MutexOwned'
    BY <1>1, QueueAssumption DEF TypeOK, MutexOwned, Threads
  <1>4. RingInv'
    BY <1>1, RingInvKept DEF TypeOK
  <1>5. TestStillHolds'
    BY <1>1 DEF TypeOK, TestStillHolds, Threads
  <1>6. NoLostWakeup'
    BY <1>1 DEF TypeOK, NoLostWakeup, OwesBroadcast, Threads
  <1> QED
    BY <1>2, <1>3, <1>4, <1>5, <1>6

\* The while loop: a producer sleeps only on a full queue, a consumer only on
\* an empty one, and each leaves the loop with its condition false.
LEMMA TestIndInv ==
  ASSUME IndInv, NEW t \in Threads,
         \/ t \in Producers /\ EnqueueTest(t)
         \/ t \in Consumers /\ DequeueTest(t)
  PROVE  IndInv'
  <1> USE DEF IndInv
  <1> DEFINE mustWait == IF t \in Producers THEN size = Capacity ELSE size = 0
  <1>1. /\ pc[t] = "test"
        /\ \/ mustWait /\ mutex' = NoThread /\ pc' = [pc EXCEPT ![t] = "waiting"]
           \/ ~mustWait /\ mutex' = mutex /\ pc' = [pc EXCEPT ![t] = "transfer"]
        /\ UNCHANGED <<buffer, size, in, out, value>>
    BY QueueAssumption DEF EnqueueTest, DequeueTest, WaitWhile, Goto
  <1>2. mutex = t /\ \A u \in Threads : u # t => pc[u] \notin {"test", "transfer", "advance"}
    BY <1>1, AloneInside
  <1>3. TypeOK'
    BY <1>1 DEF TypeOK, Places
  <1>4. MutexOwned'
    BY <1>1, <1>2, QueueAssumption DEF TypeOK, MutexOwned, Threads
  <1>5. RingInv'
    BY <1>1, RingInvKept DEF TypeOK
  <1>6. TestStillHolds'
    BY <1>1, QueueAssumption DEF TypeOK, TestStillHolds, Threads
  <1>7. NoLostWakeup'
    BY <1>1, QueueAssumption DEF TypeOK, NoLostWakeup, OwesBroadcast, Threads
  <1> QED
    BY <1>3, <1>4, <1>5, <1>6, <1>7

\* Filling the slot: from here on the producer owes a broadcast.
LEMMA PutIndInv ==
  ASSUME IndInv, NEW p \in Producers, EnqueuePut(p)
  PROVE  IndInv'
  <1> USE DEF IndInv
  <1>1. /\ pc[p] = "transfer" /\ pc' = [pc EXCEPT ![p] = "advance"]
        /\ buffer' = [buffer EXCEPT ![in] = value[p]] /\ size' = size + 1
        /\ UNCHANGED <<in, out, mutex, value>>
    BY DEF EnqueuePut, Goto
  <1>2. p \in Threads /\ p \notin Consumers /\ size < Capacity
    BY <1>1, QueueAssumption DEF Threads, TestStillHolds
  <1>3. mutex = p /\ \A u \in Threads : u # p => pc[u] \notin {"test", "transfer", "advance"}
    BY <1>1, <1>2, AloneInside
  <1>4. size \in Nat /\ Capacity \in Nat \ {0} /\ in \in Slots /\ out \in Slots
    BY QueueAssumption DEF TypeOK
  <1>5. TypeOK'
    <2>1. size' \in 0 .. Capacity
      BY <1>1, <1>2, <1>4
    <2> QED
      BY <1>1, <1>2, <2>1 DEF TypeOK, Places
  <1>6. MutexOwned'
    BY <1>1, <1>2, <1>3 DEF TypeOK, MutexOwned
  <1>7. RingInv'
    <2>1. FirstSlot = out /\ FirstSlot' = out /\ FreeSlot = in /\ FreeSlot' = NextSlot(in)
      BY <1>1, <1>2, <1>3 DEF FirstSlot, FreeSlot, NextSlot, TypeOK, Threads
    <2>2. (out + size) % Capacity = in
      BY <2>1 DEF RingInv
    <2>3. (out + (size + 1)) % Capacity = NextSlot(in)
      <3>1. size \in 0 .. Capacity /\ size + 1 \in 0 .. Capacity
        BY <1>2, <1>4
      <3>2. in = IF out + size < Capacity THEN out + size ELSE out + size - Capacity
        BY <1>4, <2>2, <3>1, SlotPlus
      <3>3. (out + (size + 1)) % Capacity
              = IF out + (size + 1) < Capacity THEN out + (size + 1)
                                               ELSE out + (size + 1) - Capacity
        BY <1>4, <3>1, SlotPlus
      <3>4. NextSlot(in) = IF in + 1 < Capacity THEN in + 1 ELSE 0
        BY <1>4, NextSlotValue
      <3>5. in \in 0 .. Capacity - 1 /\ out \in 0 .. Capacity - 1
        BY <1>4 DEF Slots
      <3> QED
        BY <1>2, <1>4, <3>2, <3>3, <3>4, <3>5
    <2> QED
      BY <1>1, <2>1, <2>3 DEF RingInv
  <1>8. TestStillHolds'
    BY <1>1, <1>2, <1>3 DEF TypeOK, TestStillHolds, Threads
  <1>9. NoLostWakeup'
    BY <1>1, <1>2, <1>4 DEF TypeOK, NoLostWakeup, OwesBroadcast, Threads
  <1> QED
    BY <1>5, <1>6, <1>7, <1>8, <1>9

\* Emptying the slot: from here on the consumer owes a broadcast.
LEMMA TakeIndInv ==
  ASSUME IndInv, NEW c \in Consumers, DequeueTake(c)
  PROVE  IndInv'
  <1> USE DEF IndInv
  <1>1. /\ pc[c] = "transfer" /\ pc' = [pc EXCEPT ![c] = "advance"]
        /\ value' = [value EXCEPT ![c] = buffer[out]] /\ size' = size - 1
        /\ UNCHANGED <<buffer, in, out, mutex>>
    BY DEF DequeueTake, Goto
  <1>2. c \in Threads /\ c \notin Producers /\ size > 0
    BY <1>1, QueueAssumption DEF Threads, TestStillHolds
  <1>3. mutex = c /\ \A u \in Threads : u # c => pc[u] \notin {"test", "transfer", "advance"}
    BY <1>1, <1>2, AloneInside
  <1>4. /\ size \in Nat /\ size <= Capacity /\ Capacity \in Nat \ {0}
        /\ in \in Slots /\ out \in Slots
    BY QueueAssumption DEF TypeOK
  <1>5. TypeOK'
    <2>1. size' \in 0 .. Capacity
      BY <1>1, <1>2, <1>4
    <2>2. value' \in [Threads -> Values]
      BY <1>1, <1>2, <1>4 DEF TypeOK
    <2> QED
      BY <1>1, <1>2, <2>1, <2>2 DEF TypeOK, Places
  <1>6. MutexOwned'
    BY <1>1, <1>2, <1>3 DEF TypeOK, MutexOwned
  <1>7. RingInv'
    <2>1. FirstSlot = out /\ FirstSlot' = NextSlot(out) /\ FreeSlot = in /\ FreeSlot' = in
      BY <1>1, <1>2, <1>3 DEF FirstSlot, FreeSlot, NextSlot, TypeOK, Threads
    <2>2. size - 1 \in 0 .. Capacity - 1 /\ (size - 1) + 1 = size
      BY <1>2, <1>4
    <2>3. (NextSlot(out) + (size - 1)) % Capacity = (out + ((size - 1) + 1)) % Capacity
      BY <1>4, <2>2, NextSlotShift
    <2> QED
      BY <1>1, <2>1, <2>2, <2>3 DEF RingInv
  <1>8. TestStillHolds'
    BY <1>1, <1>2, <1>3 DEF TypeOK, TestStillHolds, Threads
  <1>9. NoLostWakeup'
    BY <1>1, <1>2, <1>4 DEF TypeOK, NoLostWakeup, OwesBroadcast, Threads
  <1> QED
    BY <1>5, <1>6, <1>7, <1>8, <1>9

\* Moving the index and releasing the mutex.
LEMMA AdvanceIndInv ==
  ASSUME IndInv, NEW t \in Threads,
         \/ t \in Producers /\ EnqueueAdvance(t)
         \/ t \in Consumers /\ DequeueAdvance(t)
  PROVE  IndInv'
  <1> USE DEF IndInv
  <1>1. /\ pc[t] = "advance" /\ pc' = [pc EXCEPT ![t] = "broadcast"]
        /\ mutex' = NoThread
        /\ UNCHANGED <<buffer, size, value>>
        /\ \/ t \in Producers /\ t \notin Consumers /\ in' = NextSlot(in) /\ out' = out
           \/ t \in Consumers /\ t \notin Producers /\ out' = NextSlot(out) /\ in' = in
    BY QueueAssumption DEF EnqueueAdvance, DequeueAdvance, Goto
  <1>2. mutex = t /\ \A u \in Threads : u # t => pc[u] \notin {"test", "transfer", "advance"}
    BY <1>1, AloneInside
  <1>3. TypeOK'
    <2>1. NextSlot(in) \in Slots /\ NextSlot(out) \in Slots
      BY NextSlotValue DEF TypeOK
    <2> QED
      BY <1>1, <2>1 DEF TypeOK, Places
  <1>4. MutexOwned'
    BY <1>1, <1>2, QueueAssumption DEF TypeOK, MutexOwned, Threads
  <1>5. RingInv'
    <2>1. FirstSlot' = FirstSlot /\ FreeSlot' = FreeSlot
      BY <1>1, <1>2 DEF FirstSlot, FreeSlot, NextSlot, TypeOK, Threads
    <2> QED
      BY <1>1, <2>1 DEF RingInv
  <1>6. TestStillHolds'
    BY <1>1 DEF TypeOK, TestStillHolds, Threads
  <1>7. NoLostWakeup'
    BY <1>1 DEF TypeOK, NoLostWakeup, OwesBroadcast, Threads
  <1> QED
    BY <1>3, <1>4, <1>5, <1>6, <1>7

\* The broadcast pays the debt: nobody of the other side is left waiting.
LEMMA BroadcastIndInv ==
  ASSUME IndInv, NEW t \in Threads,
         \/ t \in Producers /\ EnqueueBroadcast(t)
         \/ t \in Consumers /\ DequeueBroadcast(t)
  PROVE  IndInv'
  <1> USE DEF IndInv
  <1> DEFINE Woken == IF t \in Producers THEN Consumers ELSE Producers
  <1>1. /\ pc[t] = "broadcast"
        /\ pc' = [u \in Threads |-> IF u = t THEN "idle"
                                    ELSE IF u \in Woken /\ pc[u] = "waiting" THEN "relock"
                                    ELSE pc[u]]
        /\ UNCHANGED <<buffer, size, in, out, mutex, value>>
    BY QueueAssumption DEF EnqueueBroadcast, DequeueBroadcast, CondBroadcast
  <1>2. TypeOK'
    <2>1. pc' \in [Threads -> Places]
      BY <1>1 DEF TypeOK, Places
    <2> QED
      BY <1>1, <2>1 DEF TypeOK
  <1>3. MutexOwned'
    BY <1>1 DEF TypeOK, MutexOwned
  <1>4. RingInv'
    BY <1>1, RingInvKept
  <1>5. TestStillHolds'
    BY <1>1 DEF TestStillHolds, Threads
  <1>6. NoLostWakeup'
    BY <1>1, QueueAssumption DEF NoLostWakeup, OwesBroadcast, Threads
  <1> QED
    BY <1>2, <1>3, <1>4, <1>5, <1>6

\* Entering a function, and a wait that ends by itself, touch no shared state.
LEMMA CallIndInv ==
  ASSUME IndInv, NEW t \in Threads,
         \/ SpuriousWakeup(t) \/ CallDequeue(t)
         \/ \E v \in Values : CallEnqueue(t, v)
  PROVE  IndInv'
  <1> USE DEF IndInv
  <1>1. /\ \/ pc[t] = "waiting" /\ pc' = [pc EXCEPT ![t] = "relock"]
           \/ pc[t] = "idle" /\ pc' = [pc EXCEPT ![t] = "lock"]
        /\ \/ value' = value
           \/ \E v \in Values : value' = [value EXCEPT ![t] = v]
        /\ UNCHANGED <<buffer, size, in, out, mutex>>
    BY DEF SpuriousWakeup, CallDequeue, CallEnqueue, Goto
  <1>2. TypeOK'
    BY <1>1 DEF TypeOK, Places
  <1>3. MutexOwned'
    BY <1>1 DEF TypeOK, MutexOwned
  <1>4. RingInv'
    BY <1>1, RingInvKept DEF TypeOK
  <1>5. TestStillHolds'
    BY <1>1 DEF TypeOK, TestStillHolds, Threads
  <1>6. NoLostWakeup'
    BY <1>1 DEF TypeOK, NoLostWakeup, OwesBroadcast, Threads
  <1> QED
    BY <1>2, <1>3, <1>4, <1>5, <1>6

\* Every step of queue_enqueue and queue_dequeue preserves IndInv.
LEMMA NextIndInv == IndInv /\ [Next]_vars => IndInv'
  <1> SUFFICES ASSUME IndInv, [Next]_vars PROVE IndInv'
    OBVIOUS
  <1>1. ASSUME NEW p \in Producers, EnqueueStep(p) PROVE IndInv'
    <2>1. p \in Threads
      BY DEF Threads
    <2>2. CASE Lock(p) \/ Relock(p)
      BY <2>1, <2>2, AcquireIndInv
    <2>3. CASE EnqueueTest(p)
      BY <2>1, <2>3, TestIndInv
    <2>4. CASE EnqueuePut(p)
      BY <2>4, PutIndInv
    <2>5. CASE EnqueueAdvance(p)
      BY <2>1, <2>5, AdvanceIndInv
    <2>6. CASE EnqueueBroadcast(p)
      BY <2>1, <2>6, BroadcastIndInv
    <2> QED
      BY <1>1, <2>2, <2>3, <2>4, <2>5, <2>6 DEF EnqueueStep
  <1>2. ASSUME NEW c \in Consumers, DequeueStep(c) PROVE IndInv'
    <2>1. c \in Threads
      BY DEF Threads
    <2>2. CASE Lock(c) \/ Relock(c)
      BY <2>1, <2>2, AcquireIndInv
    <2>3. CASE DequeueTest(c)
      BY <2>1, <2>3, TestIndInv
    <2>4. CASE DequeueTake(c)
      BY <2>4, TakeIndInv
    <2>5. CASE DequeueAdvance(c)
      BY <2>1, <2>5, AdvanceIndInv
    <2>6. CASE DequeueBroadcast(c)
      BY <2>1, <2>6, BroadcastIndInv
    <2> QED
      BY <1>2, <2>2, <2>3, <2>4, <2>5, <2>6 DEF DequeueStep
  <1>3. ASSUME NEW t \in Threads,
               SpuriousWakeup(t) \/ CallDequeue(t) \/ \E v \in Values : CallEnqueue(t, v)
        PROVE  IndInv'
    BY <1>3, CallIndInv
  <1>4. CASE UNCHANGED vars
    BY <1>4 DEF IndInv, TypeOK, MutexOwned, RingInv, FirstSlot, FreeSlot, NextSlot,
                TestStillHolds, NoLostWakeup, OwesBroadcast, vars
  <1> QED
    BY <1>1, <1>2, <1>3, <1>4 DEF Next, Threads

\* The conjunction holds in every reachable state.
LEMMA Inductive == Spec => []IndInv
  BY InitIndInv, NextIndInv, PTL DEF Spec

-----------------------------------------------------------------------------
(* The safety properties *)

\* Every variable keeps its type: in particular queue->size stays within the
\* capacity, and both indices within the buffer.
THEOREM TypeCorrect == Spec => []TypeOK
  <1>1. IndInv => TypeOK
    BY DEF IndInv
  <1> QED
    BY <1>1, Inductive, PTL

\* No thread uses a slot on a test that has become stale while it slept.
THEOREM TestHoldsAtUse == Spec => []TestStillHolds
  <1>1. IndInv => TestStillHolds
    BY DEF IndInv
  <1> QED
    BY <1>1, Inductive, PTL

\* Broadcasting after the unlock loses no wake-up.
THEOREM WakeupsNotLost == Spec => []NoLostWakeup
  <1>1. IndInv => NoLostWakeup
    BY DEF IndInv
  <1> QED
    BY <1>1, Inductive, PTL

\* in, out and size agree whenever the mutex is free.
THEOREM RingAgrees == Spec => []RingConsistent
  <1>1. IndInv => RingConsistent
    <2> SUFFICES ASSUME IndInv, mutex = NoThread
                 PROVE  (out + size) % Capacity = in
      BY DEF RingConsistent
    <2>1. \A t \in Threads : pc[t] # "advance"
      BY QueueAssumption DEF IndInv, MutexOwned, Threads
    <2>2. FirstSlot = out /\ FreeSlot = in
      BY <2>1 DEF FirstSlot, FreeSlot, Threads
    <2> QED
      BY <2>2 DEF IndInv, RingInv
  <1> QED
    BY <1>1, Inductive, PTL

-----------------------------------------------------------------------------
(* queue.c implements BoundedQueue *)

\* The first used slot, half-done update included, is a slot.
LEMMA FirstSlotInRing == ASSUME IndInv PROVE FirstSlot \in Slots
  BY NextSlotValue DEF IndInv, TypeOK, FirstSlot

\* The content is a sequence of size values, read off the ring.
LEMMA ContentsSeq ==
  ASSUME IndInv
  PROVE  /\ Contents \in Seq(Values)
         /\ Len(Contents) = size
         /\ \A k \in 1 .. size : Contents[k] = buffer[(FirstSlot + (k - 1)) % Capacity]
  <1>1. size \in Nat /\ size <= Capacity /\ Capacity \in Nat \ {0}
    BY QueueAssumption DEF IndInv, TypeOK
  <1>2. \A k \in 1 .. size : buffer[(FirstSlot + (k - 1)) % Capacity] \in Values
    <2> TAKE k \in 1 .. size
    <2>1. k - 1 \in 0 .. Capacity
      BY <1>1
    <2>2. (FirstSlot + (k - 1)) % Capacity \in Slots
      BY <2>1, FirstSlotInRing, SlotPlus
    <2> QED
      BY <2>2 DEF IndInv, TypeOK
  <1>3. Contents \in [1 .. size -> Values]
    BY <1>2 DEF Contents
  <1>4. Contents \in Seq(Values)
    BY <1>1, <1>3, SeqDef
  <1>5. Len(Contents) = size
    BY <1>1, <1>3, <1>4, LenProperties
  <1> QED
    BY <1>4, <1>5 DEF Contents

\* A step that leaves the used slots and their values alone is invisible.
LEMMA ContentsKept ==
  ASSUME size' = size, FirstSlot' = FirstSlot, buffer' = buffer
  PROVE  Contents' = Contents
  BY DEF Contents

\* queue.c:9-10 appends the value.
LEMMA PutAppends ==
  ASSUME IndInv, IndInv', NEW p \in Producers, EnqueuePut(p)
  PROVE  Contents' = Append(Contents, value[p]) /\ Len(Contents) < Capacity
  <1>1. /\ pc[p] = "transfer" /\ pc' = [pc EXCEPT ![p] = "advance"]
        /\ buffer' = [buffer EXCEPT ![in] = value[p]] /\ size' = size + 1
        /\ UNCHANGED <<in, out, mutex, value>>
    BY DEF EnqueuePut, Goto
  <1>2. p \in Threads /\ p \notin Consumers /\ size < Capacity
    BY <1>1, QueueAssumption DEF Threads, TestStillHolds, IndInv
  <1>3. \A u \in Threads : u # p => pc[u] \notin {"test", "transfer", "advance"}
    BY <1>1, <1>2, AloneInside DEF IndInv
  <1>4. FirstSlot = out /\ FirstSlot' = out /\ FreeSlot = in
    BY <1>1, <1>2, <1>3 DEF FirstSlot, FreeSlot, IndInv, TypeOK, Threads
  <1>5. /\ size \in Nat /\ Capacity \in Nat \ {0} /\ in \in Slots /\ out \in Slots
        /\ value[p] \in Values /\ buffer \in [Slots -> Values]
    BY <1>2, QueueAssumption DEF IndInv, TypeOK
  <1>6. in = (out + size) % Capacity
    BY <1>4 DEF IndInv, RingInv
  <1>7. /\ Contents \in Seq(Values) /\ Len(Contents) = size
        /\ \A k \in 1 .. size : Contents[k] = buffer[(out + (k - 1)) % Capacity]
    BY <1>4, ContentsSeq
  <1>8. Contents' = [k \in 1 .. size + 1 |-> buffer'[(out + (k - 1)) % Capacity]]
    BY <1>1, <1>4 DEF Contents
  <1>9. /\ Append(Contents, value[p]) \in Seq(Values)
        /\ Len(Append(Contents, value[p])) = size + 1
        /\ \A k \in 1 .. size : Append(Contents, value[p])[k] = Contents[k]
        /\ Append(Contents, value[p])[size + 1] = value[p]
    BY <1>5, <1>7, AppendProperties
  <1>10. Append(Contents, value[p]) \in [1 .. size + 1 -> Values]
    BY <1>9, LenProperties
  <1>11. ASSUME NEW k \in 1 .. size + 1
         PROVE  buffer'[(out + (k - 1)) % Capacity] = Append(Contents, value[p])[k]
    <2>1. k - 1 \in 0 .. Capacity - 1 /\ size \in 0 .. Capacity - 1 /\ k - 1 \in 0 .. Capacity
      BY <1>2, <1>5
    <2>2. (out + (k - 1)) % Capacity \in Slots
      BY <1>5, <2>1, SlotPlus
    <2>3. CASE k = size + 1
      BY <1>1, <1>5, <1>6, <1>9, <2>2, <2>3
    <2>4. CASE k # size + 1
      <3>1. k \in 1 .. size /\ k - 1 # size
        BY <1>5, <2>4
      <3>2. (out + (k - 1)) % Capacity # in
        BY <1>5, <1>6, <2>1, <3>1, SlotsDiffer
      <3> QED
        BY <1>1, <1>5, <1>7, <1>9, <2>2, <3>1, <3>2
    <2> QED
      BY <2>3, <2>4
  <1> QED
    BY <1>2, <1>7, <1>8, <1>10, <1>11

\* queue.c:22-24 removes the first value and returns it.
LEMMA TakeRemovesHead ==
  ASSUME IndInv, IndInv', NEW c \in Consumers, DequeueTake(c)
  PROVE  /\ Contents # << >>
         /\ Contents' = Tail(Contents)
         /\ value' = [value EXCEPT ![c] = Head(Contents)]
         /\ Head(Contents) \in Values
  <1>1. /\ pc[c] = "transfer" /\ pc' = [pc EXCEPT ![c] = "advance"]
        /\ value' = [value EXCEPT ![c] = buffer[out]] /\ size' = size - 1
        /\ UNCHANGED <<buffer, in, out, mutex>>
    BY DEF DequeueTake, Goto
  <1>2. c \in Threads /\ c \notin Producers /\ size > 0
    BY <1>1, QueueAssumption DEF Threads, TestStillHolds, IndInv
  <1>3. \A u \in Threads : u # c => pc[u] \notin {"test", "transfer", "advance"}
    BY <1>1, <1>2, AloneInside DEF IndInv
  <1>4. FirstSlot = out /\ FirstSlot' = NextSlot(out)
    BY <1>1, <1>2, <1>3 DEF FirstSlot, NextSlot, IndInv, TypeOK, Threads
  <1>5. size \in Nat /\ size <= Capacity /\ Capacity \in Nat \ {0} /\ out \in Slots
    BY QueueAssumption DEF IndInv, TypeOK
  <1>6. /\ Contents \in Seq(Values) /\ Len(Contents) = size
        /\ \A k \in 1 .. size : Contents[k] = buffer[(out + (k - 1)) % Capacity]
    BY <1>4, ContentsSeq
  <1>7. Contents # << >>
    BY <1>2, <1>6, EmptySeq
  <1>8. Head(Contents) = buffer[out]
    <2>1. Head(Contents) = Contents[1]
      BY <1>6, <1>7
    <2>2. 1 \in 1 .. size /\ 0 \in 0 .. Capacity /\ 1 - 1 = 0
      BY <1>2, <1>5
    <2>3. (out + 0) % Capacity = out
      <3>1. out \in 0 .. Capacity - 1
        BY <1>5 DEF Slots
      <3> QED
        BY <1>5, <2>2, <3>1, SlotPlus
    <2> QED
      BY <1>6, <2>1, <2>2, <2>3
  <1>9. /\ Head(Contents) \in Values
        /\ Tail(Contents) \in Seq(Values)
        /\ Len(Tail(Contents)) = size - 1
        /\ \A k \in 1 .. size - 1 : Tail(Contents)[k] = Contents[k + 1]
    BY <1>6, <1>7, HeadTailProperties
  <1>10. Tail(Contents) \in [1 .. size - 1 -> Values]
    BY <1>9, LenProperties
  <1>11. Contents' = [k \in 1 .. size - 1 |-> buffer[(NextSlot(out) + (k - 1)) % Capacity]]
    BY <1>1, <1>4 DEF Contents
  <1>12. ASSUME NEW k \in 1 .. size - 1
         PROVE  buffer[(NextSlot(out) + (k - 1)) % Capacity] = Tail(Contents)[k]
    <2>1. /\ k - 1 \in 0 .. Capacity - 1 /\ (k - 1) + 1 = k
          /\ k + 1 \in 1 .. size /\ (k + 1) - 1 = k
      BY <1>5
    <2>2. (NextSlot(out) + (k - 1)) % Capacity = (out + ((k - 1) + 1)) % Capacity
      BY <1>5, <2>1, NextSlotShift
    <2> QED
      BY <1>6, <1>9, <2>1, <2>2
  <1> QED
    BY <1>1, <1>7, <1>8, <1>9, <1>10, <1>11, <1>12

\* Every other step leaves the content, and the result of every dequeue, alone.
LEMMA OtherStepsInvisible ==
  ASSUME IndInv, [Next]_vars,
         \A p \in Producers : ~EnqueuePut(p),
         \A c \in Consumers : ~DequeueTake(c)
  PROVE  /\ Contents' = Contents
         /\ \A c \in Consumers : value'[c] = value[c]
  <1>0. TypeOK
    BY DEF IndInv
  <1>1. ASSUME NEW t \in Threads,
               \/ Lock(t) \/ Relock(t) \/ EnqueueTest(t) \/ DequeueTest(t)
               \/ SpuriousWakeup(t) \/ CallDequeue(t)
        PROVE  /\ Contents' = Contents
               /\ value' = value
    <2>1. /\ UNCHANGED <<buffer, size, in, out, value>>
          /\ \E place \in Places \ {"advance"} : pc' = [pc EXCEPT ![t] = place]
          /\ pc[t] # "advance"
      BY <1>1 DEF Lock, Relock, EnqueueTest, DequeueTest, WaitWhile, SpuriousWakeup,
                  CallDequeue, Goto, Places
    <2>2. FirstSlot' = FirstSlot
      BY <1>0, <2>1 DEF FirstSlot, NextSlot, TypeOK, Threads
    <2> QED
      BY <2>1, <2>2, ContentsKept
  <1>2. ASSUME NEW p \in Producers, NEW v \in Values, CallEnqueue(p, v)
        PROVE  /\ Contents' = Contents
               /\ \A c \in Consumers : value'[c] = value[c]
    <2>1. /\ UNCHANGED <<buffer, size, in, out>> /\ p \in Threads /\ p \notin Consumers
          /\ pc[p] = "idle" /\ pc' = [pc EXCEPT ![p] = "lock"]
          /\ value' = [value EXCEPT ![p] = v]
      BY <1>2, QueueAssumption DEF CallEnqueue, Goto, Threads
    <2>2. FirstSlot' = FirstSlot
      BY <1>0, <2>1 DEF FirstSlot, NextSlot, TypeOK, Threads
    <2> QED
      BY <1>0, <2>1, <2>2, ContentsKept DEF TypeOK, Threads
  <1>3. ASSUME NEW t \in Threads,
               \/ t \in Producers /\ EnqueueAdvance(t)
               \/ t \in Consumers /\ DequeueAdvance(t)
        PROVE  /\ Contents' = Contents
               /\ value' = value
    <2>1. /\ pc[t] = "advance" /\ pc' = [pc EXCEPT ![t] = "broadcast"]
          /\ UNCHANGED <<buffer, size, value>>
          /\ \/ t \in Producers /\ t \notin Consumers /\ out' = out
             \/ t \in Consumers /\ out' = NextSlot(out)
      BY <1>3, QueueAssumption DEF EnqueueAdvance, DequeueAdvance, Goto
    <2>2. \A u \in Threads : u # t => pc[u] \notin {"test", "transfer", "advance"}
      BY <2>1, AloneInside DEF IndInv
    <2>3. FirstSlot' = FirstSlot
      BY <1>0, <2>1, <2>2 DEF FirstSlot, NextSlot, TypeOK, Threads
    <2> QED
      BY <2>1, <2>3, ContentsKept
  <1>4. ASSUME NEW t \in Threads, EnqueueBroadcast(t) \/ DequeueBroadcast(t)
        PROVE  /\ Contents' = Contents
               /\ value' = value
    <2>1. /\ UNCHANGED <<buffer, size, in, out, value>>
          /\ \A u \in Threads : pc'[u] = "advance" <=> pc[u] = "advance"
      BY <1>4 DEF EnqueueBroadcast, DequeueBroadcast, CondBroadcast
    <2>2. FirstSlot' = FirstSlot
      BY <2>1 DEF FirstSlot, NextSlot, Threads
    <2> QED
      BY <2>1, <2>2, ContentsKept
  <1>5. CASE UNCHANGED vars
    BY <1>5 DEF vars, Contents, FirstSlot, NextSlot
  <1> QED
    BY <1>1, <1>2, <1>3, <1>4, <1>5 DEF Next, EnqueueStep, DequeueStep, Threads

\* queue.c implements the bounded queue its callers rely on, for any number of
\* threads and any capacity: no value is lost, duplicated or reordered.
THEOREM Refinement == Spec => ImplementsBoundedQueue
  <1>1. Init => Abstract!Init
    <2> SUFFICES ASSUME Init PROVE Contents = << >>
      BY DEF Abstract!Init
    <2>1. IndInv /\ size = 0
      BY InitIndInv DEF Init
    <2> QED
      BY <2>1, ContentsSeq, EmptySeq
  <1>2. ASSUME IndInv, IndInv', [Next]_vars PROVE [Abstract!Next]_Contents
    <2>1. ASSUME NEW p \in Producers, EnqueuePut(p) PROVE Abstract!Next
      <3>1. value[p] \in Values
        BY <1>2 DEF IndInv, TypeOK, Threads
      <3>2. Contents' = Append(Contents, value[p]) /\ Len(Contents) < Capacity
        BY <1>2, <2>1, PutAppends
      <3> QED
        BY <3>1, <3>2 DEF Abstract!Next, Abstract!Enqueue
    <2>2. ASSUME NEW c \in Consumers, DequeueTake(c) PROVE Abstract!Next
      <3>1. Contents # << >> /\ Contents' = Tail(Contents) /\ Head(Contents) \in Values
        BY <1>2, <2>2, TakeRemovesHead
      <3> QED
        BY <3>1 DEF Abstract!Next, Abstract!Dequeue
    <2>3. CASE /\ \A p \in Producers : ~EnqueuePut(p)
               /\ \A c \in Consumers : ~DequeueTake(c)
      BY <1>2, <2>3, OtherStepsInvisible
    <2> QED
      BY <2>1, <2>2, <2>3
  <1> QED
    BY <1>1, <1>2, Inductive, PTL DEF Spec, ImplementsBoundedQueue, Abstract!Spec

\* queue_dequeue returns the oldest value, and nobody changes it afterwards.
THEOREM DequeuedIsOldest == Spec => DequeueReturnsOldest
  <1> DEFINE Returns(c) == value'[c] # value[c] =>
                             /\ Contents # << >>
                             /\ value'[c] = Head(Contents)
                             /\ Contents' = Tail(Contents)
  <1>1. ASSUME IndInv, IndInv', [Next]_vars PROVE \A c \in Consumers : Returns(c)
    <2>1. ASSUME NEW p \in Producers, EnqueuePut(p) PROVE \A c \in Consumers : Returns(c)
      BY <2>1 DEF EnqueuePut
    <2>2. ASSUME NEW d \in Consumers, DequeueTake(d) PROVE \A c \in Consumers : Returns(c)
      <3>1. /\ Contents # << >> /\ Contents' = Tail(Contents)
            /\ value' = [value EXCEPT ![d] = Head(Contents)]
        BY <1>1, <2>2, TakeRemovesHead
      <3> QED
        BY <1>1, <3>1 DEF IndInv, TypeOK, Threads
    <2>3. CASE /\ \A p \in Producers : ~EnqueuePut(p)
               /\ \A c \in Consumers : ~DequeueTake(c)
      BY <1>1, <2>3, OtherStepsInvisible
    <2> QED
      BY <2>1, <2>2, <2>3
  <1>2. IndInv /\ IndInv' /\ [Next]_vars
          => [\A c \in Consumers : Returns(c)]_vars
    BY <1>1
  <1> QED
    BY <1>2, Inductive, PTL DEF Spec, DequeueReturnsOldest
=============================================================================
