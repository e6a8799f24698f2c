---------------------------- MODULE BoundedQueue ----------------------------
(***************************************************************************)
(* What queue.c promises its callers: a first-in first-out queue that holds *)
(* at most Capacity values.  An enqueue blocks while the queue is full, a   *)
(* dequeue blocks while it is empty, and each takes effect in one instant.  *)
(*                                                                          *)
(* PthreadQueue, the model of the mutex and condition-variable code, is     *)
(* shown to implement this specification; the modules that use a queue      *)
(* (Webcontrol) instantiate it and work with its two atomic actions.        *)
(***************************************************************************)
EXTENDS Naturals, Sequences

CONSTANTS
  Values,     \* what may be put into the queue (void *)
  Capacity    \* queue->capacity, the number of slots of queue->buffer

VARIABLE queue \* the values in the queue, oldest first

Init == queue = << >>

\* queue_enqueue(queue, v), from the caller's point of view.
Enqueue(v) ==
  /\ Len(queue) < Capacity
  /\ queue' = Append(queue, v)

\* v == queue_dequeue(queue), from the caller's point of view.
Dequeue(v) ==
  /\ queue # << >>
  /\ v = Head(queue)
  /\ queue' = Tail(queue)

Next == \E v \in Values : Enqueue(v) \/ Dequeue(v)

Spec == Init /\ [][Next]_queue
=============================================================================
