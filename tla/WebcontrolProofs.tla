-------------------------- MODULE WebcontrolProofs --------------------------
(***************************************************************************)
(* Proofs about Webcontrol for any number of threads, any capacities of the  *)
(* two queues and any set of lines.                                         *)
(***************************************************************************)
EXTENDS Webcontrol, FiniteSetTheorems, SequenceTheorems, TLAPS

-----------------------------------------------------------------------------
(* The inductive invariant *)

\* TypeOK in parts, so that a proof can cite what it needs.
PipeType ==
  /\ stdin \in Seq(Lines) /\ sent \subseteq Lines /\ eof \in BOOLEAN
  /\ replies \in Seq(Lines)
LibevType ==
  /\ sig \in BOOLEAN /\ asyncSent \in BOOLEAN
  /\ pending \subseteq {"stdin", "signal", "async"}
  /\ stdinWatched \in BOOLEAN /\ loop_done \in BOOLEAN
QueueType ==
  /\ job_queue \in Seq(Lines \cup {NULL}) /\ Len(job_queue) <= JobCapacity
  /\ thread_signal_queue \in Seq(Workers) /\ Len(thread_signal_queue) <= SignalCapacity
MainType ==
  /\ mpc \in MainPlaces /\ mi \in 1 .. NumThreads + 1
ChunkType ==
  /\ chunk \in Seq(Lines) /\ remainder \in BOOLEAN
  /\ mpc = "enqueue" <=> chunk # << >>
WorkerType ==
  /\ wpc \in [Workers -> WorkerPlaces]
  /\ line \in [Workers -> Lines \cup {NULL}]
  /\ post \in [Workers -> BOOLEAN]

\* Which workers are not created yet, and which are joined.
JoinInv ==
  /\ mpc = "create" => \A w \in Workers : w >= mi => wpc[w] = "none"
  /\ mpc = "join" => \A w \in Workers : w < mi => wpc[w] = "exited"
  /\ mpc \in {"unload", "exited"} => \A w \in Workers : wpc[w] = "exited"

\* A worker that handles a request has its line.
HoldInv == \A w \in Workers : wpc[w] \in {"handle", "respond"} => line[w] \in Lines

\* The number of workers, known to main or still to be recorded.
CountInv ==
  /\ mpc = "create" =>
       NumThreads = Cardinality(Alive) + Len(thread_signal_queue) /\ active_workers = 0
  /\ mpc # "create" => active_workers = Cardinality(Alive) + Len(thread_signal_queue)
  /\ active_workers \in 0 .. NumThreads

\* Every call of ev_async_send that is to come, is noted, or has made a callback
\* pending has a message of its own in the queue.
Notifying == {w \in Workers : wpc[w] = "notify"}
One(flag) == IF flag THEN 1 ELSE 0
SignalInv ==
  Cardinality(Notifying) + One(asyncSent) + One("async" \in pending)
    <= Len(thread_signal_queue)

\* The NULLs are behind the lines, so once a NULL is taken no line is left.
NullInv ==
  /\ mpc \in {"create", "loop", "read", "enqueue"} =>
       \A p \in 1 .. Len(job_queue) : job_queue[p] # NULL
  /\ \A p, q \in 1 .. Len(job_queue) : p < q /\ job_queue[p] = NULL => job_queue[q] = NULL
  /\ Occurrences(NULL, job_queue) < NullsSent =>
       \A p \in 1 .. Len(job_queue) : job_queue[p] = NULL

\* A worker that was created does something.
CreatedInv == \A w \in Workers : (mpc = "create" => w < mi) => wpc[w] # "none"

\* The workers that have left their loop.  Each has taken a NULL or failed to
\* initialise, and whoever took a NULL is one of them.
Gone == {w \in Workers : wpc[w] \in {"signal", "notify", "cleanup", "exited"}}
TakenInv ==
  /\ Cardinality(Gone \ MayFail) + Occurrences(NULL, job_queue) <= NullsSent
  /\ NullsSent <= Occurrences(NULL, job_queue) + Cardinality(Gone)

\* A worker that has answered goes on until it takes its NULL.
ServedInv == replies # << >> => Ready

Types  == PipeType /\ LibevType /\ QueueType /\ MainType /\ ChunkType /\ WorkerType
IndInv == /\ Types /\ JoinInv /\ HoldInv /\ CountInv /\ SignalInv /\ NullInv
          /\ EachLineOnce /\ CreatedInv /\ TakenInv /\ ServedInv

-----------------------------------------------------------------------------
(* Facts about cardinalities and occurrences *)

\* Adding a worker to a set of workers, and removing one.
LEMMA WorkerSets ==
  ASSUME NEW S \in SUBSET Workers
  PROVE  /\ IsFiniteSet(S) /\ Cardinality(S) \in Nat
         /\ \A w : w \notin S => Cardinality(S \cup {w}) = Cardinality(S) + 1
         /\ \A w : w \in S => Cardinality(S \ {w}) = Cardinality(S) - 1 /\ Cardinality(S) > 0
  <1>1. IsFiniteSet(Workers)
    BY WebcontrolAssumption, FS_Interval DEF Workers
  <1>2. IsFiniteSet(S) /\ Cardinality(S) \in Nat
    BY <1>1, FS_Subset, FS_CardinalityType
  <1>3. ASSUME NEW w, w \notin S PROVE Cardinality(S \cup {w}) = Cardinality(S) + 1
    BY <1>2, <1>3, FS_AddElement
  <1>4. ASSUME NEW w, w \in S
        PROVE  Cardinality(S \ {w}) = Cardinality(S) - 1 /\ Cardinality(S) > 0
    BY <1>2, <1>4, FS_RemoveElement, FS_EmptySet
  <1> QED
    BY <1>2, <1>3, <1>4

\* A value occurs in two sequences put together as often as in both.
LEMMA OccConcat ==
  ASSUME NEW S, NEW s \in Seq(S), NEW t \in Seq(S), NEW x
  PROVE  /\ Occurrences(x, s \o t) = Occurrences(x, s) + Occurrences(x, t)
         /\ Occurrences(x, s) \in Nat
  <1> DEFINE A == {k \in 1 .. Len(s) : s[k] = x}
             B == {k \in 1 .. Len(t) : t[k] = x}
             C == {k \in 1 .. Len(s) + Len(t) : (s \o t)[k] = x}
             D == {k \in C : k > Len(s)}
             f == [k \in B |-> k + Len(s)]
  <1>1. /\ Len(s) \in Nat /\ DOMAIN s = 1 .. Len(s)
        /\ Len(t) \in Nat /\ DOMAIN t = 1 .. Len(t)
        /\ DOMAIN (s \o t) = 1 .. Len(s) + Len(t)
        /\ \A k \in 1 .. Len(s) + Len(t) :
             (s \o t)[k] = IF k <= Len(s) THEN s[k] ELSE t[k - Len(s)]
    BY ConcatProperties, LenProperties
  <1>2. Occurrences(x, s) = Cardinality(A) /\ Occurrences(x, t) = Cardinality(B)
        /\ Occurrences(x, s \o t) = Cardinality(C)
    BY <1>1 DEF Occurrences
  <1>3. IsFiniteSet(1 .. Len(s)) /\ IsFiniteSet(1 .. Len(t))
    BY <1>1, FS_Interval
  <1>4. IsFiniteSet(A) /\ IsFiniteSet(B)
    BY <1>3, FS_Subset
  <1>5. f \in Bijection(B, D)
    <2>1. f \in [B -> D]
      BY <1>1
    <2>2. \A a, b \in B : f[a] = f[b] => a = b
      BY <1>1
    <2>3. ASSUME NEW d \in D PROVE \E b \in B : f[b] = d
      <3>1. d - Len(s) \in B /\ f[d - Len(s)] = d
        BY <1>1
      <3> QED
        BY <3>1
    <2> QED
      BY <2>1, <2>2, <2>3 DEF Bijection, Injection, Surjection, IsInjective
  <1>6. IsFiniteSet(D) /\ Cardinality(D) = Cardinality(B)
    BY <1>4, <1>5, FS_Bijection DEF ExistsBijection
  <1>7. C = A \cup D /\ A \cap D = {}
    BY <1>1
  <1> HIDE DEF A, B, C, D, f
  <1>8. Cardinality(A \cup D) = Cardinality(A) + Cardinality(D) - Cardinality(A \cap D)
    BY <1>4, <1>6, FS_Union
  <1>9. Cardinality(A) \in Nat /\ Cardinality(B) \in Nat /\ Cardinality({}) = 0
    BY <1>4, FS_CardinalityType, FS_EmptySet
  <1>10. Cardinality(C) = Cardinality(A \cup D) /\ Cardinality(A \cap D) = 0
    BY <1>7, <1>9
  <1>11. Cardinality(C) = Cardinality(A) + Cardinality(B)
    BY <1>6, <1>8, <1>9, <1>10
  <1> QED
    BY <1>2, <1>9, <1>11

\* A number of occurrences is a number.
LEMMA OccType ==
  ASSUME NEW S, NEW s \in Seq(S), NEW x
  PROVE  Occurrences(x, s) \in Nat
  BY OccConcat

\* How often a value occurs in a sequence of one element, and in none.
LEMMA OccSingle ==
  ASSUME NEW x, NEW e
  PROVE  /\ Occurrences(x, <<e>>) = IF e = x THEN 1 ELSE 0
         /\ Occurrences(x, << >>) = 0
  <1>1. {k \in DOMAIN <<e>> : <<e>>[k] = x} = IF e = x THEN {1} ELSE {}
    OBVIOUS
  <1>2. {k \in DOMAIN << >> : << >>[k] = x} = {}
    OBVIOUS
  <1> QED
    BY <1>1, <1>2, FS_Singleton, FS_EmptySet DEF Occurrences

\* Appending a value.
LEMMA OccAppend ==
  ASSUME NEW S, NEW s \in Seq(S), NEW e \in S, NEW x
  PROVE  Occurrences(x, Append(s, e)) = Occurrences(x, s) + (IF e = x THEN 1 ELSE 0)
  <1>1. Append(s, e) = s \o <<e>> /\ <<e>> \in Seq(S)
    OBVIOUS
  <1>2. Occurrences(x, s \o <<e>>) = Occurrences(x, s) + Occurrences(x, <<e>>)
    BY <1>1, OccConcat
  <1>3. Occurrences(x, <<e>>) = IF e = x THEN 1 ELSE 0
    BY OccSingle
  <1> QED
    BY <1>1, <1>2, <1>3

\* Taking the first value.
LEMMA OccTail ==
  ASSUME NEW S, NEW s \in Seq(S), s # << >>, NEW x
  PROVE  Occurrences(x, s) = (IF Head(s) = x THEN 1 ELSE 0) + Occurrences(x, Tail(s))
  <1>1. s = <<Head(s)>> \o Tail(s) /\ <<Head(s)>> \in Seq(S) /\ Tail(s) \in Seq(S)
    OBVIOUS
  <1>2. Occurrences(x, s) = Occurrences(x, <<Head(s)>>) + Occurrences(x, Tail(s))
    BY <1>1, OccConcat
  <1>3. Occurrences(x, <<Head(s)>>) = IF Head(s) = x THEN 1 ELSE 0
    BY OccSingle
  <1> QED
    BY <1>2, <1>3

\* Cutting a sequence in two.
LEMMA OccCut ==
  ASSUME NEW S, NEW s \in Seq(S), NEW n \in 1 .. Len(s), NEW x
  PROVE  Occurrences(x, s)
           = Occurrences(x, SubSeq(s, 1, n)) + Occurrences(x, SubSeq(s, n + 1, Len(s)))
  <1>1. SubSeq(s, 1, n) \in Seq(S) /\ SubSeq(s, n + 1, Len(s)) \in Seq(S)
    OBVIOUS
  <1>2. s = SubSeq(s, 1, n) \o SubSeq(s, n + 1, Len(s))
    OBVIOUS
  <1> QED
    BY <1>1, <1>2, OccConcat

\* A value that does not occur is nowhere in the sequence.
LEMMA OccZero ==
  ASSUME NEW S, NEW s \in Seq(S), NEW x, \A k \in 1 .. Len(s) : s[k] # x
  PROVE  Occurrences(x, s) = 0
  <1>1. {k \in DOMAIN s : s[k] = x} = {}
    BY LenProperties
  <1> QED
    BY <1>1, FS_EmptySet DEF Occurrences

\* The first n numbers are n.
LEMMA Interval ==
  ASSUME NEW n \in Nat
  PROVE  IsFiniteSet(1 .. n) /\ Cardinality(1 .. n) = n
  <1>1. IsFiniteSet(1 .. n) /\ Cardinality(1 .. n) = IF 1 > n THEN 0 ELSE n - 1 + 1
    BY FS_Interval
  <1> QED
    BY <1>1

\* A value that is everywhere in the sequence occurs as often as it is long.
LEMMA OccAll ==
  ASSUME NEW S, NEW s \in Seq(S), NEW x, \A k \in 1 .. Len(s) : s[k] = x
  PROVE  Occurrences(x, s) = Len(s)
  <1>1. {k \in DOMAIN s : s[k] = x} = 1 .. Len(s)
    BY LenProperties
  <1>2. Cardinality(1 .. Len(s)) = Len(s)
    BY LenProperties, Interval
  <1> QED
    BY <1>1, <1>2 DEF Occurrences

\* A value occurs in a sequence if and only if it is an element of it.
LEMMA OccElement ==
  ASSUME NEW S, NEW s \in Seq(S), NEW x
  PROVE  x \in {s[k] : k \in DOMAIN s} <=> Occurrences(x, s) > 0
  <1> DEFINE At == {k \in DOMAIN s : s[k] = x}
  <1>1. IsFiniteSet(At)
    <2>1. At \subseteq 1 .. Len(s) /\ Len(s) \in Nat
      BY LenProperties
    <2> QED
      BY <2>1, FS_Interval, FS_Subset
  <1>2. x \in {s[k] : k \in DOMAIN s} <=> At # {}
    OBVIOUS
  <1> HIDE DEF At
  <1>3. Cardinality(At) \in Nat /\ (Cardinality(At) = 0 <=> At = {})
    BY <1>1, FS_CardinalityType, FS_EmptySet
  <1>4. Occurrences(x, s) = Cardinality(At)
    BY DEF Occurrences, At
  <1> QED
    BY <1>2, <1>3, <1>4

\* What a worker's step to another place does to the sets of workers.
LEMMA Moves ==
  ASSUME WorkerType, NEW w \in Workers, NEW place, wpc' = [wpc EXCEPT ![w] = place]
  PROVE  /\ Alive' = IF place \in {"notify", "cleanup", "exited"} THEN Alive \ {w}
                     ELSE Alive \cup {w}
         /\ Notifying' = IF place = "notify" THEN Notifying \cup {w} ELSE Notifying \ {w}
         /\ w \in Alive <=> wpc[w] \notin {"notify", "cleanup", "exited"}
         /\ w \in Notifying <=> wpc[w] = "notify"
         /\ Alive \in SUBSET Workers /\ Notifying \in SUBSET Workers
  BY DEF WorkerType, Alive, Notifying

-----------------------------------------------------------------------------
(* One lemma per part of the invariant *)

\* Lines go from Squid to the pipe and from the workers to the replies.
LEMMA PipeTypeKept ==
  ASSUME IndInv, [Next]_vars
  PROVE  PipeType'
  <1> USE DEF IndInv, Types
  <1>1. ASSUME UNCHANGED <<stdin, sent, eof, replies>> PROVE PipeType'
    BY <1>1 DEF PipeType
  <1>2. ASSUME NEW l \in Lines, SquidSends(l) PROVE PipeType'
    BY <1>2 DEF PipeType, SquidSends, environment, libev, main, workers
  <1>3. CASE SquidCloses
    BY <1>3 DEF PipeType, SquidCloses, environment, libev, main, workers
  <1>4. CASE ReadChunk
    BY <1>4 DEF PipeType, ReadChunk, environment, libev, main, workers
  <1>5. ASSUME NEW w \in Workers, RespondInvalid(w) PROVE PipeType'
    <2>1. line[w] \in Lines
      BY <1>5 DEF HoldInv, RespondInvalid
    <2> QED
      BY <1>5, <2>1 DEF PipeType, RespondInvalid, environment
  <1>6. ASSUME NEW w \in Workers, Respond(w) PROVE PipeType'
    <2>1. line[w] \in Lines
      BY <1>6 DEF HoldInv, Respond
    <2> QED
      BY <1>6, <2>1 DEF PipeType, Respond, environment
  <1>7. CASE \/ SignalArrives \/ CreateWorker \/ EnterLoop \/ EvPoll \/ sigint_cb
             \/ thread_sig_cb \/ LeaveLoop \/ StdinReadable \/ EnqueueLine
             \/ ReadAgainLater \/ ReadEof \/ CancelWorker \/ StartJoining \/ JoinWorker
             \/ UnloadPlugins \/ Return
             \/ (\E w \in Workers : \/ ThreadInit(w) \/ DequeueJob(w) \/ HandleRequest(w)
                                    \/ PostHandleRequest(w) \/ EndRequest(w)
                                    \/ SignalTermination(w) \/ NotifyLoop(w) \/ ThreadExit(w))
             \/ UNCHANGED vars
    BY <1>1, <1>7 DEF vars, SignalArrives, CreateWorker, EnterLoop, EvPoll, sigint_cb,
                      thread_sig_cb, LeaveLoop, StdinReadable, EnqueueLine, ReadAgainLater,
                      ReadEof, CancelWorker, StartJoining, JoinWorker, UnloadPlugins,
                      Return, ThreadInit, DequeueJob, HandleRequest, PostHandleRequest,
                      EndRequest, SignalTermination, NotifyLoop, ThreadExit, Goto, Invoke,
                      environment, libev, main, workers
  <1> QED
    BY <1>2, <1>3, <1>4, <1>5, <1>6, <1>7 DEF Next, EnvironmentStep, MainStep, WorkerStep,
       Terminated

\* The event loop's flags.
LEMMA LibevTypeKept ==
  ASSUME IndInv, [Next]_vars
  PROVE  LibevType'
  <1> USE DEF IndInv, Types
  <1>1. ASSUME UNCHANGED <<sig, asyncSent, pending, stdinWatched, loop_done>> PROVE LibevType'
    BY <1>1 DEF LibevType
  <1>2. CASE SignalArrives
    BY <1>2 DEF LibevType, SignalArrives, environment, libev, main, workers
  <1>3. CASE EvPoll
    BY <1>3 DEF LibevType, EvPoll, environment, libev, main, workers
  <1>4. CASE sigint_cb
    BY <1>4 DEF LibevType, sigint_cb, Invoke, environment, libev, main, workers
  <1>5. CASE thread_sig_cb
    BY <1>5 DEF LibevType, thread_sig_cb, Invoke, Signals!Dequeue, environment, libev, main,
                workers
  <1>6. CASE StdinReadable
    BY <1>6 DEF LibevType, StdinReadable, Invoke, environment, libev, main, workers
  <1>7. CASE ReadEof
    BY <1>7 DEF LibevType, ReadEof, environment, libev, main, workers
  <1>8. ASSUME NEW w \in Workers, NotifyLoop(w) PROVE LibevType'
    BY <1>8 DEF LibevType, NotifyLoop, Goto, environment, libev, main, workers
  <1>9. CASE \/ (\E l \in Lines : SquidSends(l)) \/ SquidCloses \/ CreateWorker
             \/ EnterLoop \/ LeaveLoop \/ ReadChunk \/ EnqueueLine \/ ReadAgainLater
             \/ CancelWorker \/ StartJoining \/ JoinWorker \/ UnloadPlugins \/ Return
             \/ (\E w \in Workers : \/ ThreadInit(w) \/ DequeueJob(w) \/ RespondInvalid(w)
                                    \/ HandleRequest(w) \/ Respond(w) \/ PostHandleRequest(w)
                                    \/ EndRequest(w) \/ SignalTermination(w) \/ ThreadExit(w))
             \/ UNCHANGED vars
    BY <1>1, <1>9 DEF vars, SquidSends, SquidCloses, CreateWorker, EnterLoop, LeaveLoop,
                      ReadChunk, EnqueueLine, ReadAgainLater, CancelWorker, StartJoining,
                      JoinWorker, UnloadPlugins, Return, ThreadInit, DequeueJob,
                      RespondInvalid, HandleRequest, Respond, PostHandleRequest, EndRequest,
                      SignalTermination, ThreadExit, Goto, environment, libev, main, workers
  <1> QED
    BY <1>2, <1>3, <1>4, <1>5, <1>6, <1>7, <1>8, <1>9 DEF Next, EnvironmentStep, MainStep,
       WorkerStep, Terminated

\* An enqueue waits for a free slot.
LEMMA QueueTypeKept ==
  ASSUME IndInv, [Next]_vars
  PROVE  QueueType'
  <1> USE DEF IndInv, Types
  <1>1. ASSUME UNCHANGED <<job_queue, thread_signal_queue>> PROVE QueueType'
    BY <1>1 DEF QueueType
  <1>2. CASE thread_sig_cb
    BY <1>2, WebcontrolAssumption DEF QueueType, thread_sig_cb, Signals!Dequeue
  <1>3. CASE EnqueueLine
    <2>1. Head(chunk) \in Lines
      BY <1>3 DEF ChunkType, EnqueueLine
    <2> QED
      BY <1>3, <2>1, WebcontrolAssumption DEF QueueType, EnqueueLine, Jobs!Enqueue
  <1>4. CASE CancelWorker
    BY <1>4, WebcontrolAssumption DEF QueueType, CancelWorker, Jobs!Enqueue
  <1>5. ASSUME NEW w \in Workers, DequeueJob(w) PROVE QueueType'
    BY <1>5, WebcontrolAssumption DEF QueueType, DequeueJob, Jobs!Dequeue
  <1>6. ASSUME NEW w \in Workers, SignalTermination(w) PROVE QueueType'
    BY <1>6, WebcontrolAssumption DEF QueueType, SignalTermination, Signals!Enqueue
  <1>7. CASE \/ (\E l \in Lines : SquidSends(l)) \/ SquidCloses \/ SignalArrives
             \/ CreateWorker \/ EnterLoop \/ EvPoll \/ sigint_cb \/ LeaveLoop
             \/ StdinReadable \/ ReadChunk \/ ReadAgainLater \/ ReadEof \/ StartJoining
             \/ JoinWorker \/ UnloadPlugins \/ Return
             \/ (\E w \in Workers : \/ ThreadInit(w) \/ RespondInvalid(w) \/ HandleRequest(w)
                                    \/ Respond(w) \/ PostHandleRequest(w) \/ EndRequest(w)
                                    \/ NotifyLoop(w) \/ ThreadExit(w))
             \/ UNCHANGED vars
    BY <1>1, <1>7 DEF vars, SquidSends, SquidCloses, SignalArrives, CreateWorker, EnterLoop,
                      EvPoll, sigint_cb, LeaveLoop, StdinReadable, ReadChunk,
                      ReadAgainLater, ReadEof, StartJoining, JoinWorker, UnloadPlugins,
                      Return, ThreadInit, RespondInvalid, HandleRequest, Respond,
                      PostHandleRequest, EndRequest, NotifyLoop, ThreadExit, Goto, Invoke,
                      environment, libev, main, workers
  <1> QED
    BY <1>2, <1>3, <1>4, <1>5, <1>6, <1>7 DEF Next, EnvironmentStep, MainStep, WorkerStep,
       Terminated

\* Main's loops over the threads.
LEMMA MainTypeKept ==
  ASSUME IndInv, [Next]_vars
  PROVE  MainType'
  <1> USE DEF IndInv, Types
  <1>1. ASSUME UNCHANGED <<mpc, mi>> PROVE MainType'
    BY <1>1 DEF MainType, MainPlaces
  <1>2. CASE CreateWorker
    BY <1>2, WebcontrolAssumption DEF MainType, MainPlaces, Workers, CreateWorker,
                                      environment, libev, main, workers
  <1>3. CASE EnterLoop
    BY <1>3, WebcontrolAssumption DEF MainType, MainPlaces, Workers, EnterLoop, environment,
                                      libev, main, workers
  <1>4. CASE LeaveLoop
    BY <1>4, WebcontrolAssumption DEF MainType, MainPlaces, Workers, LeaveLoop, environment,
                                      libev, main, workers
  <1>5. CASE StdinReadable
    BY <1>5, WebcontrolAssumption DEF MainType, MainPlaces, Workers, StdinReadable, Invoke,
                                      environment, libev, main, workers
  <1>6. CASE ReadChunk
    BY <1>6, WebcontrolAssumption DEF MainType, MainPlaces, Workers, ReadChunk, environment,
                                      libev, main, workers
  <1>7. CASE EnqueueLine
    BY <1>7, WebcontrolAssumption DEF MainType, MainPlaces, Workers, EnqueueLine,
                                      Jobs!Enqueue, environment, libev, main, workers
  <1>8. CASE ReadAgainLater
    BY <1>8, WebcontrolAssumption DEF MainType, MainPlaces, Workers, ReadAgainLater,
                                      environment, libev, main, workers
  <1>9. CASE ReadEof
    BY <1>9, WebcontrolAssumption DEF MainType, MainPlaces, Workers, ReadEof, environment,
                                      libev, main, workers
  <1>10. CASE CancelWorker
    BY <1>10, WebcontrolAssumption DEF MainType, MainPlaces, Workers, CancelWorker,
                                       Jobs!Enqueue, environment, libev, main, workers
  <1>11. CASE StartJoining
    BY <1>11, WebcontrolAssumption DEF MainType, MainPlaces, Workers, StartJoining,
                                       environment, libev, main, workers
  <1>12. CASE JoinWorker
    BY <1>12, WebcontrolAssumption DEF MainType, MainPlaces, Workers, JoinWorker,
                                       environment, libev, main, workers
  <1>13. CASE UnloadPlugins
    BY <1>13, WebcontrolAssumption DEF MainType, MainPlaces, Workers, UnloadPlugins,
                                       environment, libev, main, workers
  <1>14. CASE Return
    BY <1>14, WebcontrolAssumption DEF MainType, MainPlaces, Workers, Return, environment,
                                       libev, main, workers
  <1>15. CASE \/ (\E l \in Lines : SquidSends(l)) \/ SquidCloses \/ SignalArrives \/ EvPoll
              \/ sigint_cb \/ thread_sig_cb
              \/ (\E w \in Workers : \/ ThreadInit(w) \/ DequeueJob(w) \/ RespondInvalid(w)
                                     \/ HandleRequest(w) \/ Respond(w) \/ PostHandleRequest(w)
                                     \/ EndRequest(w) \/ SignalTermination(w) \/ NotifyLoop(w)
                                     \/ ThreadExit(w))
              \/ UNCHANGED vars
    BY <1>1, <1>15 DEF vars, SquidSends, SquidCloses, SignalArrives, EvPoll, sigint_cb,
                       thread_sig_cb, ThreadInit, DequeueJob, RespondInvalid, HandleRequest,
                       Respond, PostHandleRequest, EndRequest, SignalTermination,
                       NotifyLoop, ThreadExit, Goto, Invoke, environment, libev, main,
                       workers
  <1> QED
    BY <1>2, <1>3, <1>4, <1>5, <1>6, <1>7, <1>8, <1>9, <1>10, <1>11, <1>12, <1>13, <1>14,
       <1>15 DEF Next, EnvironmentStep, MainStep, WorkerStep, Terminated

\* A chunk is enqueued to its end.
LEMMA ChunkTypeKept ==
  ASSUME IndInv, [Next]_vars
  PROVE  ChunkType'
  <1> USE DEF IndInv, Types
  <1>1. ASSUME UNCHANGED <<mpc, chunk, remainder>> PROVE ChunkType'
    BY <1>1 DEF ChunkType
  <1>2. CASE EnterLoop
    BY <1>2 DEF ChunkType, EnterLoop, environment, libev, main, workers
  <1>3. CASE LeaveLoop
    BY <1>3 DEF ChunkType, LeaveLoop, environment, libev, main, workers
  <1>4. CASE StdinReadable
    BY <1>4 DEF ChunkType, StdinReadable, Invoke, environment, libev, main, workers
  <1>5. CASE ReadChunk
    <2>1. PICK n \in 1 .. Len(stdin) : chunk' = SubSeq(stdin, 1, n)
      BY <1>5 DEF ReadChunk
    <2>2. SubSeq(stdin, 1, n) \in Seq(Lines) /\ Len(SubSeq(stdin, 1, n)) = n
      BY DEF PipeType
    <2>3. chunk' \in Seq(Lines) /\ chunk' # << >>
      BY <2>1, <2>2
    <2> QED
      BY <1>5, <2>3 DEF ChunkType, ReadChunk
  <1>6. CASE EnqueueLine
    BY <1>6 DEF ChunkType, EnqueueLine, Jobs!Enqueue, environment, libev, main, workers
  <1>7. CASE ReadAgainLater
    BY <1>7 DEF ChunkType, ReadAgainLater, environment, libev, main, workers
  <1>8. CASE ReadEof
    BY <1>8 DEF ChunkType, ReadEof, environment, libev, main, workers
  <1>9. CASE StartJoining
    BY <1>9 DEF ChunkType, StartJoining, environment, libev, main, workers
  <1>10. CASE UnloadPlugins
    BY <1>10 DEF ChunkType, UnloadPlugins, environment, libev, main, workers
  <1>11. CASE Return
    BY <1>11 DEF ChunkType, Return, environment, libev, main, workers
  <1>12. CASE \/ (\E l \in Lines : SquidSends(l)) \/ SquidCloses \/ SignalArrives
              \/ CreateWorker \/ EvPoll \/ sigint_cb \/ thread_sig_cb \/ CancelWorker
              \/ JoinWorker
              \/ (\E w \in Workers : \/ ThreadInit(w) \/ DequeueJob(w) \/ RespondInvalid(w)
                                     \/ HandleRequest(w) \/ Respond(w) \/ PostHandleRequest(w)
                                     \/ EndRequest(w) \/ SignalTermination(w) \/ NotifyLoop(w)
                                     \/ ThreadExit(w))
              \/ UNCHANGED vars
    BY <1>1, <1>12 DEF vars, SquidSends, SquidCloses, SignalArrives, CreateWorker, EvPoll,
                       sigint_cb, thread_sig_cb, CancelWorker, JoinWorker, ThreadInit,
                       DequeueJob, RespondInvalid, HandleRequest, Respond,
                       PostHandleRequest, EndRequest, SignalTermination, NotifyLoop,
                       ThreadExit, Goto, Invoke, environment, libev, main, workers
  <1> QED
    BY <1>2, <1>3, <1>4, <1>5, <1>6, <1>7, <1>8, <1>9, <1>10, <1>11, <1>12 DEF Next,
       EnvironmentStep, MainStep, WorkerStep, Terminated

\* The workers.
LEMMA WorkerTypeKept ==
  ASSUME IndInv, [Next]_vars
  PROVE  WorkerType'
  <1> USE DEF IndInv, Types
  <1>1. ASSUME UNCHANGED <<wpc, line, post>> PROVE WorkerType'
    BY <1>1 DEF WorkerType, WorkerPlaces
  <1>2. CASE CreateWorker
    BY <1>2 DEF WorkerType, WorkerPlaces, CreateWorker, environment, libev, main, workers
  <1>3. ASSUME NEW w \in Workers, ThreadInit(w) PROVE WorkerType'
    BY <1>3 DEF WorkerType, WorkerPlaces, ThreadInit, Goto, environment, libev, main,
                workers
  <1>4. ASSUME NEW w \in Workers, DequeueJob(w) PROVE WorkerType'
    BY <1>4 DEF WorkerType, WorkerPlaces, DequeueJob, Goto, Jobs!Dequeue, environment,
                libev, main, workers
  <1>5. ASSUME NEW w \in Workers, RespondInvalid(w) PROVE WorkerType'
    BY <1>5 DEF WorkerType, WorkerPlaces, RespondInvalid, Goto, environment, libev, main,
                workers
  <1>6. ASSUME NEW w \in Workers, HandleRequest(w) PROVE WorkerType'
    BY <1>6 DEF WorkerType, WorkerPlaces, HandleRequest, Goto, environment, libev, main,
                workers
  <1>7. ASSUME NEW w \in Workers, Respond(w) PROVE WorkerType'
    BY <1>7 DEF WorkerType, WorkerPlaces, Respond, Goto, environment, libev, main, workers
  <1>8. ASSUME NEW w \in Workers, PostHandleRequest(w) PROVE WorkerType'
    BY <1>8 DEF WorkerType, WorkerPlaces, PostHandleRequest, Goto, environment, libev, main,
                workers
  <1>9. ASSUME NEW w \in Workers, EndRequest(w) PROVE WorkerType'
    BY <1>9 DEF WorkerType, WorkerPlaces, EndRequest, Goto, environment, libev, main,
                workers
  <1>10. ASSUME NEW w \in Workers, SignalTermination(w) PROVE WorkerType'
    BY <1>10 DEF WorkerType, WorkerPlaces, SignalTermination, Goto, Signals!Enqueue,
                 environment, libev, main, workers
  <1>11. ASSUME NEW w \in Workers, NotifyLoop(w) PROVE WorkerType'
    BY <1>11 DEF WorkerType, WorkerPlaces, NotifyLoop, Goto, environment, libev, main,
                 workers
  <1>12. ASSUME NEW w \in Workers, ThreadExit(w) PROVE WorkerType'
    BY <1>12 DEF WorkerType, WorkerPlaces, ThreadExit, Goto, environment, libev, main,
                 workers
  <1>13. CASE \/ (\E l \in Lines : SquidSends(l)) \/ SquidCloses \/ SignalArrives
              \/ EnterLoop \/ EvPoll \/ sigint_cb \/ thread_sig_cb \/ LeaveLoop
              \/ StdinReadable \/ ReadChunk \/ EnqueueLine \/ ReadAgainLater \/ ReadEof
              \/ CancelWorker \/ StartJoining \/ JoinWorker \/ UnloadPlugins \/ Return
              \/ UNCHANGED vars
    BY <1>1, <1>13 DEF vars, SquidSends, SquidCloses, SignalArrives, EnterLoop, EvPoll,
                       sigint_cb, thread_sig_cb, LeaveLoop, StdinReadable, ReadChunk,
                       EnqueueLine, ReadAgainLater, ReadEof, CancelWorker, StartJoining,
                       JoinWorker, UnloadPlugins, Return, Invoke, environment, libev, main,
                       workers
  <1> QED
    BY <1>2, <1>3, <1>4, <1>5, <1>6, <1>7, <1>8, <1>9, <1>10, <1>11, <1>12, <1>13 DEF Next,
       EnvironmentStep, MainStep, WorkerStep, Terminated

\* Main goes on when it has joined every worker.
LEMMA JoinInvKept ==
  ASSUME IndInv, [Next]_vars
  PROVE  JoinInv'
  <1> USE DEF IndInv, Types
  <1>1. ASSUME UNCHANGED <<mpc, mi, wpc>> PROVE JoinInv'
    BY <1>1 DEF JoinInv
  <1>2. CASE CreateWorker
    <2>1. mi \in Workers /\ mi' = mi + 1
          /\ UNCHANGED mpc /\ mpc = "create" /\ Workers \subseteq Nat
      BY <1>2, WebcontrolAssumption DEF MainType, CreateWorker, Workers
    <2>2. \A w \in Workers : w # mi => wpc'[w] = wpc[w]
      BY <1>2 DEF WorkerType, CreateWorker
    <2> QED
      BY <2>1, <2>2 DEF JoinInv
  <1>3. CASE EnterLoop
    BY <1>3, WebcontrolAssumption DEF JoinInv, MainType, WorkerType, Workers, EnterLoop,
                                      environment, libev, main, workers
  <1>4. CASE LeaveLoop
    BY <1>4, WebcontrolAssumption DEF JoinInv, MainType, WorkerType, Workers, LeaveLoop,
                                      environment, libev, main, workers
  <1>5. CASE StdinReadable
    BY <1>5, WebcontrolAssumption DEF JoinInv, MainType, WorkerType, Workers, StdinReadable,
                                      Invoke, environment, libev, main, workers
  <1>6. CASE ReadChunk
    BY <1>6, WebcontrolAssumption DEF JoinInv, MainType, WorkerType, Workers, ReadChunk,
                                      environment, libev, main, workers
  <1>7. CASE EnqueueLine
    BY <1>7, WebcontrolAssumption DEF JoinInv, MainType, WorkerType, Workers, EnqueueLine,
                                      Jobs!Enqueue, environment, libev, main, workers
  <1>8. CASE ReadAgainLater
    BY <1>8, WebcontrolAssumption DEF JoinInv, MainType, WorkerType, Workers,
                                      ReadAgainLater, environment, libev, main, workers
  <1>9. CASE ReadEof
    BY <1>9, WebcontrolAssumption DEF JoinInv, MainType, WorkerType, Workers, ReadEof,
                                      environment, libev, main, workers
  <1>10. CASE CancelWorker
    BY <1>10, WebcontrolAssumption DEF JoinInv, MainType, WorkerType, Workers, CancelWorker,
                                       Jobs!Enqueue, environment, libev, main, workers
  <1>11. CASE StartJoining
    BY <1>11, WebcontrolAssumption DEF JoinInv, MainType, WorkerType, Workers, StartJoining,
                                       environment, libev, main, workers
  <1>12. CASE JoinWorker
    BY <1>12, WebcontrolAssumption DEF JoinInv, MainType, WorkerType, Workers, JoinWorker,
                                       environment, libev, main, workers
  <1>13. CASE UnloadPlugins
    BY <1>13, WebcontrolAssumption DEF JoinInv, MainType, WorkerType, Workers,
                                       UnloadPlugins, environment, libev, main, workers
  <1>14. CASE Return
    BY <1>14, WebcontrolAssumption DEF JoinInv, MainType, WorkerType, Workers, Return,
                                       environment, libev, main, workers
  <1>15. ASSUME NEW w \in Workers, ThreadInit(w) PROVE JoinInv'
    BY <1>15, WebcontrolAssumption DEF JoinInv, MainType, WorkerType, Workers, ThreadInit,
                                       Goto, environment, libev, main, workers
  <1>16. ASSUME NEW w \in Workers, DequeueJob(w) PROVE JoinInv'
    BY <1>16, WebcontrolAssumption DEF JoinInv, MainType, WorkerType, Workers, DequeueJob,
                                       Goto, Jobs!Dequeue, environment, libev, main, workers
  <1>17. ASSUME NEW w \in Workers, RespondInvalid(w) PROVE JoinInv'
    BY <1>17, WebcontrolAssumption DEF JoinInv, MainType, WorkerType, Workers,
                                       RespondInvalid, Goto, environment, libev, main,
                                       workers
  <1>18. ASSUME NEW w \in Workers, HandleRequest(w) PROVE JoinInv'
    BY <1>18, WebcontrolAssumption DEF JoinInv, MainType, WorkerType, Workers,
                                       HandleRequest, Goto, environment, libev, main,
                                       workers
  <1>19. ASSUME NEW w \in Workers, Respond(w) PROVE JoinInv'
    BY <1>19, WebcontrolAssumption DEF JoinInv, MainType, WorkerType, Workers, Respond,
                                       Goto, environment, libev, main, workers
  <1>20. ASSUME NEW w \in Workers, PostHandleRequest(w) PROVE JoinInv'
    BY <1>20, WebcontrolAssumption DEF JoinInv, MainType, WorkerType, Workers,
                                       PostHandleRequest, Goto, environment, libev, main,
                                       workers
  <1>21. ASSUME NEW w \in Workers, EndRequest(w) PROVE JoinInv'
    BY <1>21, WebcontrolAssumption DEF JoinInv, MainType, WorkerType, Workers, EndRequest,
                                       Goto, environment, libev, main, workers
  <1>22. ASSUME NEW w \in Workers, SignalTermination(w) PROVE JoinInv'
    BY <1>22, WebcontrolAssumption DEF JoinInv, MainType, WorkerType, Workers,
                                       SignalTermination, Goto, Signals!Enqueue,
                                       environment, libev, main, workers
  <1>23. ASSUME NEW w \in Workers, NotifyLoop(w) PROVE JoinInv'
    BY <1>23, WebcontrolAssumption DEF JoinInv, MainType, WorkerType, Workers, NotifyLoop,
                                       Goto, environment, libev, main, workers
  <1>24. ASSUME NEW w \in Workers, ThreadExit(w) PROVE JoinInv'
    BY <1>24, WebcontrolAssumption DEF JoinInv, MainType, WorkerType, Workers, ThreadExit,
                                       Goto, environment, libev, main, workers
  <1>25. CASE \/ (\E l \in Lines : SquidSends(l)) \/ SquidCloses \/ SignalArrives \/ EvPoll
              \/ sigint_cb \/ thread_sig_cb \/ UNCHANGED vars
    BY <1>1, <1>25 DEF vars, SquidSends, SquidCloses, SignalArrives, EvPoll, sigint_cb,
                       thread_sig_cb, Invoke, environment, libev, main, workers
  <1> QED
    BY <1>2, <1>3, <1>4, <1>5, <1>6, <1>7, <1>8, <1>9, <1>10, <1>11, <1>12, <1>13, <1>14,
       <1>15, <1>16, <1>17, <1>18, <1>19, <1>20, <1>21, <1>22, <1>23, <1>24, <1>25 DEF Next,
       EnvironmentStep, MainStep, WorkerStep, Terminated

\* A worker keeps its line until it has answered.
LEMMA HoldInvKept ==
  ASSUME IndInv, [Next]_vars
  PROVE  HoldInv'
  <1> USE DEF IndInv, Types
  <1>1. ASSUME UNCHANGED <<wpc, line>> PROVE HoldInv'
    BY <1>1 DEF HoldInv
  <1>2. CASE CreateWorker
    BY <1>2 DEF HoldInv, WorkerType, CreateWorker, environment, libev, main, workers
  <1>3. ASSUME NEW w \in Workers, ThreadInit(w) PROVE HoldInv'
    BY <1>3 DEF HoldInv, WorkerType, ThreadInit, Goto, environment, libev, main, workers
  <1>4. ASSUME NEW w \in Workers, DequeueJob(w) PROVE HoldInv'
    BY <1>4 DEF HoldInv, WorkerType, DequeueJob, Goto, Jobs!Dequeue, environment, libev,
                main, workers
  <1>5. ASSUME NEW w \in Workers, RespondInvalid(w) PROVE HoldInv'
    BY <1>5 DEF HoldInv, WorkerType, RespondInvalid, Goto, environment, libev, main, workers
  <1>6. ASSUME NEW w \in Workers, HandleRequest(w) PROVE HoldInv'
    BY <1>6 DEF HoldInv, WorkerType, HandleRequest, Goto, environment, libev, main, workers
  <1>7. ASSUME NEW w \in Workers, Respond(w) PROVE HoldInv'
    BY <1>7 DEF HoldInv, WorkerType, Respond, Goto, environment, libev, main, workers
  <1>8. ASSUME NEW w \in Workers, PostHandleRequest(w) PROVE HoldInv'
    BY <1>8 DEF HoldInv, WorkerType, PostHandleRequest, Goto, environment, libev, main,
                workers
  <1>9. ASSUME NEW w \in Workers, EndRequest(w) PROVE HoldInv'
    BY <1>9 DEF HoldInv, WorkerType, EndRequest, Goto, environment, libev, main, workers
  <1>10. ASSUME NEW w \in Workers, SignalTermination(w) PROVE HoldInv'
    BY <1>10 DEF HoldInv, WorkerType, SignalTermination, Goto, Signals!Enqueue, environment,
                 libev, main, workers
  <1>11. ASSUME NEW w \in Workers, NotifyLoop(w) PROVE HoldInv'
    BY <1>11 DEF HoldInv, WorkerType, NotifyLoop, Goto, environment, libev, main, workers
  <1>12. ASSUME NEW w \in Workers, ThreadExit(w) PROVE HoldInv'
    BY <1>12 DEF HoldInv, WorkerType, ThreadExit, Goto, environment, libev, main, workers
  <1>13. CASE \/ (\E l \in Lines : SquidSends(l)) \/ SquidCloses \/ SignalArrives
              \/ EnterLoop \/ EvPoll \/ sigint_cb \/ thread_sig_cb \/ LeaveLoop
              \/ StdinReadable \/ ReadChunk \/ EnqueueLine \/ ReadAgainLater \/ ReadEof
              \/ CancelWorker \/ StartJoining \/ JoinWorker \/ UnloadPlugins \/ Return
              \/ UNCHANGED vars
    BY <1>1, <1>13 DEF vars, SquidSends, SquidCloses, SignalArrives, EnterLoop, EvPoll,
                       sigint_cb, thread_sig_cb, LeaveLoop, StdinReadable, ReadChunk,
                       EnqueueLine, ReadAgainLater, ReadEof, CancelWorker, StartJoining,
                       JoinWorker, UnloadPlugins, Return, Invoke, environment, libev, main,
                       workers
  <1> QED
    BY <1>2, <1>3, <1>4, <1>5, <1>6, <1>7, <1>8, <1>9, <1>10, <1>11, <1>12, <1>13 DEF Next,
       EnvironmentStep, MainStep, WorkerStep, Terminated

\* No line is enqueued after a NULL.
LEMMA NullInvKept ==
  ASSUME IndInv, [Next]_vars
  PROVE  NullInv'
  <1> USE DEF IndInv, Types
  <1>1. ASSUME UNCHANGED <<mpc, mi, job_queue>> PROVE NullInv'
    BY <1>1 DEF NullInv, NullsSent
  <1>2. CASE CreateWorker
    BY <1>2 DEF NullInv, NullsSent, QueueType, MainType, CreateWorker, environment, libev,
                main, workers
  <1>3. CASE EnterLoop
    BY <1>3 DEF NullInv, NullsSent, QueueType, MainType, EnterLoop, environment, libev,
                main, workers
  <1>4. CASE LeaveLoop
    BY <1>4 DEF NullInv, NullsSent, QueueType, MainType, LeaveLoop, environment, libev,
                main, workers
  <1>5. CASE StdinReadable
    BY <1>5 DEF NullInv, NullsSent, QueueType, MainType, StdinReadable, Invoke, environment,
                libev, main, workers
  <1>6. CASE ReadChunk
    BY <1>6 DEF NullInv, NullsSent, QueueType, MainType, ReadChunk, environment, libev,
                main, workers
  <1>7. CASE EnqueueLine
    <2>1. /\ Head(chunk) \in Lines /\ Head(chunk) # NULL
          /\ Len(job_queue) \in Nat /\ Len(job_queue)' = Len(job_queue) + 1
          /\ \A p \in 1 .. Len(job_queue) : job_queue'[p] = job_queue[p]
          /\ job_queue'[Len(job_queue) + 1] = Head(chunk)
      BY <1>7, WebcontrolAssumption DEF ChunkType, QueueType, EnqueueLine, Jobs!Enqueue
    <2>2. mpc = "enqueue" /\ mpc' \in {"enqueue", "read", "loop"}
      BY <1>7 DEF EnqueueLine
    <2>3. \A p \in 1 .. Len(job_queue') : job_queue'[p] # NULL
      BY <2>1, <2>2 DEF NullInv
    <2>4. NullsSent' = 0 /\ Occurrences(NULL, job_queue') \in Nat
      BY <1>7, <2>2, QueueTypeKept, OccType DEF NullsSent, QueueType
    <2> QED
      BY <2>3, <2>4 DEF NullInv
  <1>8. CASE ReadAgainLater
    BY <1>8 DEF NullInv, NullsSent, QueueType, MainType, ReadAgainLater, environment, libev,
                main, workers
  <1>9. CASE ReadEof
    BY <1>9 DEF NullInv, NullsSent, QueueType, MainType, ReadEof, environment, libev, main,
                workers
  <1>10. CASE CancelWorker
    <2>1. /\ Len(job_queue) \in Nat /\ Len(job_queue)' = Len(job_queue) + 1
          /\ \A p \in 1 .. Len(job_queue) : job_queue'[p] = job_queue[p]
          /\ job_queue'[Len(job_queue) + 1] = NULL
      BY <1>10 DEF QueueType, CancelWorker, Jobs!Enqueue
    <2>2. mpc = "cancel" /\ mpc' = "cancel" /\ mi' = mi + 1 /\ mi \in Nat
      BY <1>10, WebcontrolAssumption DEF MainType, CancelWorker
    <2>3. Occurrences(NULL, job_queue') = Occurrences(NULL, job_queue) + 1
      BY <1>10, OccAppend DEF QueueType, CancelWorker, Jobs!Enqueue
    <2>4. Occurrences(NULL, job_queue) \in Nat
      BY OccType DEF QueueType
    <2>5. NullsSent = mi - 1 /\ NullsSent' = mi
      BY <2>2 DEF NullsSent
    <2>6. Occurrences(NULL, job_queue') < NullsSent' => Occurrences(NULL, job_queue) < NullsSent
      BY <2>2, <2>3, <2>4, <2>5
    <2>7. Occurrences(NULL, job_queue') < NullsSent' =>
            \A p \in 1 .. Len(job_queue') : job_queue'[p] = NULL
      BY <2>1, <2>6 DEF NullInv
    <2>8. ASSUME NEW p \in 1 .. Len(job_queue'), NEW q \in 1 .. Len(job_queue'),
                 p < q, job_queue'[p] = NULL
          PROVE  job_queue'[q] = NULL
      BY <2>1, <2>8 DEF NullInv
    <2> QED
      BY <2>2, <2>7, <2>8 DEF NullInv
  <1>11. CASE StartJoining
    <2>1. NullsSent = mi - 1 /\ NullsSent' = NumThreads
      BY <1>11 DEF StartJoining, NullsSent
    <2>2. mi - 1 = NumThreads
      BY <1>11, WebcontrolAssumption DEF StartJoining, MainType
    <2> QED
      BY <1>11, <2>1, <2>2 DEF StartJoining, NullInv
  <1>12. CASE JoinWorker
    BY <1>12 DEF NullInv, NullsSent, QueueType, MainType, JoinWorker, environment, libev,
                 main, workers
  <1>13. CASE UnloadPlugins
    BY <1>13 DEF NullInv, NullsSent, QueueType, MainType, UnloadPlugins, environment, libev,
                 main, workers
  <1>14. CASE Return
    BY <1>14 DEF NullInv, NullsSent, QueueType, MainType, Return, environment, libev, main,
                 workers
  <1>15. ASSUME NEW w \in Workers, DequeueJob(w) PROVE NullInv'
    <2>1. /\ job_queue # << >> /\ job_queue \in Seq(Lines \cup {NULL}) /\ Len(job_queue) \in Nat
          /\ job_queue' = Tail(job_queue) /\ UNCHANGED <<mpc, mi>>
      BY <1>15 DEF QueueType, DequeueJob, Jobs!Dequeue, main
    <2>2. /\ Len(job_queue)' = Len(job_queue) - 1 /\ Len(job_queue) > 0
          /\ \A p \in 1 .. Len(job_queue') : job_queue'[p] = job_queue[p + 1]
          /\ Head(job_queue) = job_queue[1]
      BY <2>1
    <2>3. NullsSent' = NullsSent
      BY <2>1 DEF NullsSent
    <2>4. ASSUME Occurrences(NULL, job_queue') < NullsSent,
                 NEW p \in 1 .. Len(job_queue')
          PROVE  job_queue'[p] = NULL
      <3>1. CASE Head(job_queue) = NULL
        BY <2>2, <3>1 DEF NullInv
      <3>2. CASE Head(job_queue) # NULL
        <4>1. Occurrences(NULL, job_queue) = 0 + Occurrences(NULL, job_queue')
          BY <2>1, <3>2, OccTail
        <4>2. job_queue' \in Seq(Lines \cup {NULL})
          BY <2>1
        <4>3. Occurrences(NULL, job_queue') \in Nat
          BY <4>2, OccType
        <4>4. Occurrences(NULL, job_queue) < NullsSent
          BY <2>4, <4>1, <4>3
        <4> QED
          BY <2>2, <4>4 DEF NullInv
      <3> QED
        BY <3>1, <3>2
    <2>5. ASSUME NEW p \in 1 .. Len(job_queue'), NEW q \in 1 .. Len(job_queue'),
                 p < q, job_queue'[p] = NULL
          PROVE  job_queue'[q] = NULL
      BY <2>2, <2>5 DEF NullInv
    <2>6. mpc' \in {"create", "loop", "read", "enqueue"} =>
            \A p \in 1 .. Len(job_queue') : job_queue'[p] # NULL
      BY <2>1, <2>2 DEF NullInv
    <2> QED
      BY <2>3, <2>4, <2>5, <2>6 DEF NullInv
  <1>16. CASE \/ (\E l \in Lines : SquidSends(l)) \/ SquidCloses \/ SignalArrives \/ EvPoll
              \/ sigint_cb \/ thread_sig_cb
              \/ (\E w \in Workers : \/ ThreadInit(w) \/ RespondInvalid(w) \/ HandleRequest(w)
                                     \/ Respond(w) \/ PostHandleRequest(w) \/ EndRequest(w)
                                     \/ SignalTermination(w) \/ NotifyLoop(w) \/ ThreadExit(w))
              \/ UNCHANGED vars
    BY <1>1, <1>16 DEF vars, SquidSends, SquidCloses, SignalArrives, EvPoll, sigint_cb,
                       thread_sig_cb, ThreadInit, RespondInvalid, HandleRequest, Respond,
                       PostHandleRequest, EndRequest, SignalTermination, NotifyLoop,
                       ThreadExit, Goto, Invoke, environment, libev, main, workers
  <1> QED
    BY <1>2, <1>3, <1>4, <1>5, <1>6, <1>7, <1>8, <1>9, <1>10, <1>11, <1>12, <1>13, <1>14,
       <1>15, <1>16 DEF Next, EnvironmentStep, MainStep, WorkerStep, Terminated

\* One message for each worker that terminates.
LEMMA CountInvKept ==
  ASSUME IndInv, [Next]_vars
  PROVE  CountInv'
  <1> USE DEF IndInv, Types
  <1>1. /\ Len(thread_signal_queue) \in Nat /\ NumThreads \in Nat
        /\ Alive \in SUBSET Workers /\ Cardinality(Alive) \in Nat
    BY WorkerSets, WebcontrolAssumption DEF QueueType, Alive
  <1>2. ASSUME UNCHANGED <<thread_signal_queue, active_workers, Alive>>,
               mpc = "create" <=> mpc' = "create"
        PROVE  CountInv'
    BY <1>2 DEF CountInv
  <1>3. CASE CreateWorker
    <2>1. mi \in Workers /\ wpc[mi] = "none" /\ wpc' = [wpc EXCEPT ![mi] = "init"]
      BY <1>3, WebcontrolAssumption DEF CreateWorker, MainType, JoinInv, Workers
    <2>2. Alive' = Alive
      BY <2>1 DEF WorkerType, Alive
    <2> QED
      BY <1>2, <1>3, <2>2 DEF CreateWorker
  <1>4. CASE EnterLoop
    <2>1. Alive' = Alive
      BY <1>4 DEF EnterLoop, workers, Alive
    <2>2. NumThreads = Cardinality(Alive) + Len(thread_signal_queue)
      BY <1>4 DEF EnterLoop, CountInv
    <2> QED
      BY <1>1, <1>4, <2>1, <2>2 DEF EnterLoop, CountInv
  <1>5. CASE thread_sig_cb
    <2>1. Alive' = Alive
      BY <1>5 DEF thread_sig_cb, workers, Alive
    <2>2. /\ Len(thread_signal_queue) > 0
          /\ Len(thread_signal_queue') = Len(thread_signal_queue) - 1
      BY <1>5 DEF QueueType, thread_sig_cb, Signals!Dequeue
    <2>3. mpc = "loop" /\ mpc' = "loop" /\ active_workers' = active_workers - 1
      BY <1>5 DEF thread_sig_cb, Invoke, main
    <2>4. /\ active_workers = Cardinality(Alive) + Len(thread_signal_queue)
          /\ active_workers \in 0 .. NumThreads
      BY <2>3 DEF CountInv
    <2>5. /\ active_workers' = Cardinality(Alive') + Len(thread_signal_queue')
          /\ active_workers' \in 0 .. NumThreads
      BY <1>1, <2>1, <2>2, <2>3, <2>4
    <2> QED
      BY <2>3, <2>5 DEF CountInv
  <1>6. ASSUME NEW w \in Workers, SignalTermination(w) PROVE CountInv'
    <2>1. Alive' = Alive \ {w} /\ w \in Alive
      BY <1>6, Moves DEF SignalTermination, Goto
    <2>2. Cardinality(Alive') = Cardinality(Alive) - 1
      BY <1>1, <2>1, WorkerSets
    <2>3. Len(thread_signal_queue') = Len(thread_signal_queue) + 1
      BY <1>6 DEF QueueType, SignalTermination, Signals!Enqueue
    <2>4. Cardinality(Alive') + Len(thread_signal_queue')
            = Cardinality(Alive) + Len(thread_signal_queue)
      BY <1>1, <2>2, <2>3
    <2>5. UNCHANGED <<mpc, active_workers>>
      BY <1>6 DEF SignalTermination, main
    <2> QED
      BY <2>4, <2>5 DEF CountInv
  <1>7. ASSUME NEW w \in Workers,
               \/ ThreadInit(w) \/ DequeueJob(w) \/ RespondInvalid(w) \/ HandleRequest(w)
               \/ Respond(w) \/ PostHandleRequest(w) \/ EndRequest(w)
        PROVE  CountInv'
    <2>1. PICK place \in {"dequeue", "signal", "handle", "respond", "post", "end"} :
            /\ wpc[w] \in {"init", "dequeue", "handle", "respond", "post", "end"}
            /\ wpc' = [wpc EXCEPT ![w] = place]
      BY <1>7 DEF ThreadInit, DequeueJob, RespondInvalid, HandleRequest, Respond,
                  PostHandleRequest, EndRequest, Goto
    <2>2. Alive' = Alive
      BY <2>1 DEF WorkerType, Alive
    <2>3. UNCHANGED <<thread_signal_queue, active_workers, mpc>>
      BY <1>7 DEF ThreadInit, DequeueJob, RespondInvalid, HandleRequest, Respond,
                  PostHandleRequest, EndRequest, main
    <2> QED
      BY <1>2, <2>2, <2>3
  <1>8. ASSUME NEW w \in Workers, NotifyLoop(w) \/ ThreadExit(w) PROVE CountInv'
    <2>1. Alive' = Alive
      BY <1>8, Moves DEF NotifyLoop, ThreadExit, Goto
    <2> QED
      BY <1>2, <1>8, <2>1 DEF NotifyLoop, ThreadExit, main
  <1>9. CASE \/ EnvironmentStep \/ EvPoll \/ LeaveLoop \/ sigint_cb \/ StdinReadable \/ ReadChunk
             \/ EnqueueLine \/ ReadAgainLater \/ ReadEof \/ CancelWorker \/ StartJoining
             \/ JoinWorker \/ UnloadPlugins \/ Return \/ UNCHANGED vars
    <2>1. UNCHANGED <<thread_signal_queue, active_workers, wpc>>
      BY <1>9 DEF EnvironmentStep, SquidSends, SquidCloses, SignalArrives, EvPoll,
                  LeaveLoop,
                  sigint_cb, StdinReadable, ReadChunk, EnqueueLine, ReadAgainLater, ReadEof,
                  CancelWorker, StartJoining, JoinWorker, UnloadPlugins, Return, vars, workers
    <2>2. mpc = "create" <=> mpc' = "create"
      BY <1>9 DEF EnvironmentStep, SquidSends, SquidCloses, SignalArrives, EvPoll,
                  LeaveLoop,
                  sigint_cb, Invoke, StdinReadable, ReadChunk, EnqueueLine, ReadAgainLater,
                  ReadEof, CancelWorker, StartJoining, JoinWorker, UnloadPlugins, Return,
                  vars, main
    <2> QED
      BY <1>2, <2>1, <2>2 DEF Alive
  <1> QED
    BY <1>3, <1>4, <1>5, <1>6, <1>7, <1>8, <1>9 DEF Next, MainStep, WorkerStep, Terminated

\* One message for each callback.
LEMMA SignalInvKept ==
  ASSUME IndInv, [Next]_vars
  PROVE  SignalInv'
  <1> USE DEF IndInv, Types
  <1>1. /\ Len(thread_signal_queue) \in Nat
        /\ Notifying \in SUBSET Workers /\ Cardinality(Notifying) \in Nat
    BY WorkerSets DEF QueueType, Notifying
  <1>2. ASSUME UNCHANGED <<thread_signal_queue, Notifying, asyncSent>>,
               "async" \in pending' => "async" \in pending
        PROVE  SignalInv'
    BY <1>1, <1>2 DEF SignalInv, One
  <1>3. CASE CreateWorker
    <2>1. mi \in Workers /\ wpc[mi] = "none" /\ wpc' = [wpc EXCEPT ![mi] = "init"]
      BY <1>3, WebcontrolAssumption DEF CreateWorker, MainType, JoinInv, Workers
    <2>2. Notifying' = Notifying
      BY <2>1 DEF WorkerType, Notifying
    <2> QED
      BY <1>2, <1>3, <2>2 DEF CreateWorker, libev
  <1>4. CASE EvPoll
    <2>1. Notifying' = Notifying /\ UNCHANGED thread_signal_queue /\ "async" \notin pending
      BY <1>4 DEF EvPoll, workers, Notifying
    <2>2. \/ asyncSent' = asyncSent /\ "async" \notin pending'
          \/ asyncSent /\ asyncSent' = FALSE
          \/ ~asyncSent /\ asyncSent' = FALSE /\ "async" \notin pending'
      BY <1>4 DEF EvPoll, LibevType
    <2>3. One(asyncSent') + One("async" \in pending') <= One(asyncSent)
      BY <2>2 DEF One
    <2>4. Cardinality(Notifying) + One(asyncSent) <= Len(thread_signal_queue)
      BY <1>1, <2>1 DEF SignalInv, One
    <2>5. One(asyncSent') \in Nat /\ One("async" \in pending') \in Nat /\ One(asyncSent) \in Nat
      BY DEF One
    <2> HIDE DEF One
    <2>6. Cardinality(Notifying) + One(asyncSent') + One("async" \in pending')
            <= Len(thread_signal_queue)
      BY <1>1, <2>3, <2>4, <2>5
    <2> QED
      BY <2>1, <2>6 DEF SignalInv
  <1>5. CASE thread_sig_cb
    <2>1. Notifying' = Notifying /\ UNCHANGED asyncSent
      BY <1>5 DEF thread_sig_cb, workers, Notifying
    <2>2. "async" \in pending /\ "async" \notin pending'
      BY <1>5 DEF thread_sig_cb, Invoke
    <2>3. Len(thread_signal_queue') = Len(thread_signal_queue) - 1
      BY <1>5 DEF QueueType, thread_sig_cb, Signals!Dequeue
    <2> QED
      BY <1>1, <2>1, <2>2, <2>3 DEF SignalInv, One
  <1>6. ASSUME NEW w \in Workers, SignalTermination(w) PROVE SignalInv'
    <2>1. Notifying' = Notifying \cup {w} /\ w \notin Notifying
      BY <1>6, Moves DEF SignalTermination, Goto
    <2>2. Cardinality(Notifying') = Cardinality(Notifying) + 1
      BY <1>1, <2>1, WorkerSets
    <2>3. Len(thread_signal_queue') = Len(thread_signal_queue) + 1
      BY <1>6 DEF QueueType, SignalTermination, Signals!Enqueue
    <2>4. UNCHANGED <<asyncSent, pending>>
      BY <1>6 DEF SignalTermination, libev
    <2> QED
      BY <1>1, <2>2, <2>3, <2>4 DEF SignalInv, One
  <1>7. ASSUME NEW w \in Workers, NotifyLoop(w) PROVE SignalInv'
    <2>1. Notifying' = Notifying \ {w} /\ w \in Notifying
      BY <1>7 DEF NotifyLoop, Goto, WorkerType, Notifying
    <2>2. Cardinality(Notifying') = Cardinality(Notifying) - 1
      BY <1>1, <2>1, WorkerSets
    <2>3. UNCHANGED <<thread_signal_queue, pending>>
      BY <1>7 DEF NotifyLoop
    <2> QED
      BY <1>1, <2>2, <2>3 DEF SignalInv, One
  <1>8. ASSUME NEW w \in Workers,
               \/ ThreadInit(w) \/ DequeueJob(w) \/ RespondInvalid(w) \/ HandleRequest(w)
               \/ Respond(w) \/ PostHandleRequest(w) \/ EndRequest(w) \/ ThreadExit(w)
        PROVE  SignalInv'
    <2>1. PICK place \in {"dequeue", "signal", "handle", "respond", "post", "end", "exited"} :
            wpc[w] # "notify" /\ wpc' = [wpc EXCEPT ![w] = place]
      BY <1>8 DEF ThreadInit, DequeueJob, RespondInvalid, HandleRequest, Respond,
                  PostHandleRequest, EndRequest, ThreadExit, Goto
    <2>2. Notifying' = Notifying
      BY <2>1 DEF WorkerType, Notifying
    <2>3. UNCHANGED <<thread_signal_queue, asyncSent, pending>>
      BY <1>8 DEF ThreadInit, DequeueJob, RespondInvalid, HandleRequest, Respond,
                  PostHandleRequest, EndRequest, ThreadExit, libev
    <2> QED
      BY <1>2, <2>2, <2>3
  <1>9. CASE \/ EnvironmentStep \/ EnterLoop \/ LeaveLoop \/ sigint_cb \/ StdinReadable \/ ReadChunk
             \/ EnqueueLine \/ ReadAgainLater \/ ReadEof \/ CancelWorker \/ StartJoining
             \/ JoinWorker \/ UnloadPlugins \/ Return \/ UNCHANGED vars
    <2>1. /\ UNCHANGED <<thread_signal_queue, asyncSent, wpc>>
          /\ "async" \in pending' => "async" \in pending
      BY <1>9 DEF EnvironmentStep, SquidSends, SquidCloses, SignalArrives, EnterLoop,
                  LeaveLoop,
                  sigint_cb, Invoke, StdinReadable, ReadChunk, EnqueueLine, ReadAgainLater,
                  ReadEof, CancelWorker, StartJoining, JoinWorker, UnloadPlugins, Return,
                  vars, libev, workers
    <2> QED
      BY <1>2, <2>1 DEF Notifying
  <1> QED
    BY <1>3, <1>4, <1>5, <1>6, <1>7, <1>8, <1>9 DEF Next, MainStep, WorkerStep, Terminated

\* A step that moves worker w changes no other worker's part in Holding.
LEMMA HoldingMoves ==
  ASSUME WorkerType, NEW w \in Workers, NEW place, wpc' = [wpc EXCEPT ![w] = place],
         NEW l \in Lines
  PROVE  /\ Holding(l) \in SUBSET Workers
         /\ UNCHANGED line =>
              Holding(l)' = IF place \in {"handle", "respond"} /\ line[w] = l
                            THEN Holding(l) \cup {w}
                            ELSE Holding(l) \ {w}
         /\ \A job : line' = [line EXCEPT ![w] = job] =>
              Holding(l)' = IF place \in {"handle", "respond"} /\ job = l THEN Holding(l) \cup {w}
                            ELSE Holding(l) \ {w}
         /\ w \in Holding(l) <=> line[w] = l /\ wpc[w] \in {"handle", "respond"}
  BY DEF WorkerType, Holding

\* A line moves from one place to the next.
LEMMA EachLineOnceKept ==
  ASSUME IndInv, [Next]_vars
  PROVE  EachLineOnce'
  <1> USE DEF IndInv, Types
  <1> DEFINE Once(l) ==
        Occurrences(l, stdin) + Occurrences(l, chunk) + Occurrences(l, job_queue)
          + Cardinality(Holding(l)) + Occurrences(l, replies)
        = IF l \in sent THEN 1 ELSE 0
  <1> SUFFICES ASSUME NEW l \in Lines PROVE Once(l)'
    BY DEF EachLineOnce
  <1>1. /\ Occurrences(l, stdin) \in Nat /\ Occurrences(l, chunk) \in Nat
        /\ Occurrences(l, job_queue) \in Nat /\ Occurrences(l, replies) \in Nat
    BY OccType DEF PipeType, ChunkType, QueueType
  <1>2. Holding(l) \in SUBSET Workers /\ Cardinality(Holding(l)) \in Nat
    BY WorkerSets DEF Holding
  <1>3. Once(l)
    BY DEF EachLineOnce
  <1>4. ASSUME UNCHANGED <<stdin, chunk, job_queue, replies, sent>>, Holding(l)' = Holding(l)
        PROVE  Once(l)'
    BY <1>3, <1>4
  <1>5. ASSUME NEW m \in Lines, SquidSends(m)
        PROVE  Once(l)'
    <2>1. Occurrences(l, stdin') = Occurrences(l, stdin) + (IF m = l THEN 1 ELSE 0)
      BY <1>5, OccAppend DEF SquidSends, PipeType
    <2>2. Holding(l)' = Holding(l) /\ UNCHANGED <<chunk, job_queue, replies>>
      BY <1>5 DEF SquidSends, Holding, workers, main
    <2>3. m \notin sent /\ sent' = sent \cup {m}
      BY <1>5 DEF SquidSends
    <2>4. CASE m = l
      BY <1>1, <1>2, <1>3, <2>1, <2>2, <2>3, <2>4
    <2>5. CASE m # l
      BY <1>1, <1>2, <1>3, <2>1, <2>2, <2>3, <2>5
    <2> QED
      BY <2>4, <2>5
  <1>6. CASE ReadChunk
    <2>1. PICK n \in 1 .. Len(stdin) : /\ chunk' = SubSeq(stdin, 1, n)
                                      /\ stdin' = SubSeq(stdin, n + 1, Len(stdin))
      BY <1>6 DEF ReadChunk
    <2>2. Occurrences(l, stdin) = Occurrences(l, chunk') + Occurrences(l, stdin')
      BY <2>1, OccCut DEF PipeType
    <2>3. Occurrences(l, chunk) = 0
      BY <1>6, OccSingle DEF ReadChunk, ChunkType
    <2>4. Holding(l)' = Holding(l) /\ UNCHANGED <<job_queue, replies, sent>>
      BY <1>6 DEF ReadChunk, Holding, workers
    <2>5. Occurrences(l, stdin') \in Nat /\ Occurrences(l, chunk') \in Nat
      BY <1>6, PipeTypeKept, ChunkTypeKept, OccType DEF PipeType, ChunkType
    <2> QED
      BY <1>1, <1>2, <1>3, <2>2, <2>3, <2>4, <2>5
  <1>7. CASE EnqueueLine
    <2>1. chunk # << >> /\ chunk' = Tail(chunk) /\ job_queue' = Append(job_queue, Head(chunk))
      BY <1>7 DEF EnqueueLine, Jobs!Enqueue, ChunkType
    <2>2. Head(chunk) \in Lines
      BY <2>1 DEF ChunkType
    <2>3. Occurrences(l, chunk) = (IF Head(chunk) = l THEN 1 ELSE 0) + Occurrences(l, chunk')
      BY <2>1, OccTail DEF ChunkType
    <2>4. Occurrences(l, job_queue')
            = Occurrences(l, job_queue) + (IF Head(chunk) = l THEN 1 ELSE 0)
      <3>1. Head(chunk) \in Lines \cup {NULL} /\ job_queue \in Seq(Lines \cup {NULL})
        BY <2>2 DEF QueueType
      <3> QED
        BY <2>1, <3>1, OccAppend
    <2>5. Holding(l)' = Holding(l) /\ UNCHANGED <<stdin, replies, sent>>
      BY <1>7 DEF EnqueueLine, Holding, workers, environment
    <2>6. Occurrences(l, chunk') \in Nat
      BY <1>7, ChunkTypeKept, OccType DEF ChunkType
    <2>7. Occurrences(l, chunk') + Occurrences(l, job_queue')
            = Occurrences(l, chunk) + Occurrences(l, job_queue)
      BY <1>1, <2>3, <2>4, <2>6
    <2>8. Occurrences(l, job_queue') \in Nat
      BY <1>1, <2>4
    <2> QED
      BY <1>1, <1>2, <1>3, <2>5, <2>6, <2>7, <2>8
  <1>8. CASE CancelWorker
    <2>1. Occurrences(l, job_queue') = Occurrences(l, job_queue) + (IF NULL = l THEN 1 ELSE 0)
      BY <1>8, OccAppend DEF CancelWorker, Jobs!Enqueue, QueueType
    <2>2. Occurrences(l, job_queue') = Occurrences(l, job_queue)
      BY <1>1, <2>1, WebcontrolAssumption
    <2>3. Holding(l)' = Holding(l) /\ UNCHANGED <<stdin, chunk, replies, sent>>
      BY <1>8 DEF CancelWorker, Holding, workers, environment
    <2> QED
      BY <1>3, <2>2, <2>3
  <1>9. ASSUME NEW w \in Workers, DequeueJob(w)
        PROVE  Once(l)'
    <2>1. PICK job \in Lines \cup {NULL} :
            /\ job_queue # << >> /\ job = Head(job_queue) /\ job_queue' = Tail(job_queue)
            /\ line' = [line EXCEPT ![w] = job]
            /\ wpc' = [wpc EXCEPT ![w] = IF job = NULL THEN "signal" ELSE "handle"]
      BY <1>9 DEF DequeueJob, Goto, Jobs!Dequeue
    <2>2. w \notin Holding(l)
      BY <1>9 DEF DequeueJob, Holding
    <2>3. Holding(l)' = IF job = l THEN Holding(l) \cup {w} ELSE Holding(l)
      BY <2>1, <2>2, WebcontrolAssumption DEF WorkerType, Holding
    <2>4. Cardinality(Holding(l)') = Cardinality(Holding(l)) + (IF job = l THEN 1 ELSE 0)
      BY <1>2, <2>2, <2>3, WorkerSets
    <2>5. Occurrences(l, job_queue) = (IF job = l THEN 1 ELSE 0) + Occurrences(l, job_queue')
      BY <2>1, OccTail DEF QueueType
    <2>6. UNCHANGED <<stdin, chunk, replies, sent>>
      BY <1>9 DEF DequeueJob, environment, main
    <2>7. Occurrences(l, job_queue') \in Nat
      BY <1>9, QueueTypeKept, OccType DEF QueueType
    <2>8. Occurrences(l, job_queue') + Cardinality(Holding(l)')
            = Occurrences(l, job_queue) + Cardinality(Holding(l))
      BY <1>1, <1>2, <2>4, <2>5, <2>7
    <2>9. Cardinality(Holding(l)') \in Nat
      BY <1>2, <2>4
    <2> QED
      BY <1>1, <1>2, <1>3, <2>6, <2>7, <2>8, <2>9
  <1>10. ASSUME NEW w \in Workers, RespondInvalid(w) \/ Respond(w)
        PROVE  Once(l)'
    <2>1. PICK place \in {"post", "end"} :
            /\ wpc[w] \in {"handle", "respond"} /\ wpc' = [wpc EXCEPT ![w] = place]
            /\ replies' = Append(replies, line[w]) /\ UNCHANGED line
      BY <1>10 DEF RespondInvalid, Respond, Goto
    <2>2. line[w] \in Lines
      BY <2>1 DEF HoldInv
    <2>3. Holding(l)' = Holding(l) \ {w} /\ (w \in Holding(l) <=> line[w] = l)
      BY <2>1, HoldingMoves
    <2>4. CASE line[w] = l
      <3>1. Cardinality(Holding(l)') = Cardinality(Holding(l)) - 1
        BY <1>2, <2>3, <2>4, WorkerSets
      <3>2. Occurrences(l, replies') = Occurrences(l, replies) + 1
        BY <2>1, <2>2, <2>4, OccAppend DEF PipeType
      <3>3. UNCHANGED <<stdin, chunk, job_queue, sent>>
        BY <1>10 DEF RespondInvalid, Respond, environment, main
      <3> QED
        BY <1>1, <1>2, <1>3, <3>1, <3>2, <3>3
    <2>5. CASE line[w] # l
      <3>1. Holding(l)' = Holding(l)
        BY <2>3, <2>5
      <3>2. Occurrences(l, replies') = Occurrences(l, replies) + 0
        BY <2>1, <2>2, <2>5, OccAppend DEF PipeType
      <3>3. UNCHANGED <<stdin, chunk, job_queue, sent>>
        BY <1>10 DEF RespondInvalid, Respond, environment, main
      <3> QED
        BY <1>1, <1>2, <1>3, <3>1, <3>2, <3>3
    <2> QED
      BY <2>4, <2>5
  <1>11. ASSUME NEW w \in Workers,
                \/ ThreadInit(w) \/ HandleRequest(w) \/ PostHandleRequest(w) \/ EndRequest(w)
                \/ SignalTermination(w) \/ NotifyLoop(w) \/ ThreadExit(w)
         PROVE  Once(l)'
    <2>1. UNCHANGED <<stdin, chunk, job_queue, replies, sent>>
      BY <1>11 DEF ThreadInit, HandleRequest, PostHandleRequest, EndRequest,
                   SignalTermination,
                   NotifyLoop, ThreadExit, environment, main
    <2>2. CASE HandleRequest(w)
      <3>1. Holding(l)' = Holding(l)
        BY <2>2 DEF HandleRequest, Goto, WorkerType, Holding
      <3> QED
        BY <1>4, <2>1, <3>1
    <2>3. CASE EndRequest(w)
      <3>1. Holding(l)' = Holding(l)
        BY <2>3, WebcontrolAssumption DEF EndRequest, Goto, WorkerType, Holding
      <3> QED
        BY <1>4, <2>1, <3>1
    <2>4. CASE \/ ThreadInit(w) \/ PostHandleRequest(w) \/ SignalTermination(w)
               \/ NotifyLoop(w) \/ ThreadExit(w)
      <3>1. PICK place \in {"dequeue", "signal", "end", "notify", "cleanup", "exited"} :
              /\ wpc[w] \notin {"handle", "respond"} /\ wpc' = [wpc EXCEPT ![w] = place]
              /\ UNCHANGED line
        BY <2>4 DEF ThreadInit, PostHandleRequest, SignalTermination, NotifyLoop,
                    ThreadExit, Goto
      <3>2. Holding(l)' = Holding(l)
        BY <3>1 DEF WorkerType, Holding
      <3> QED
        BY <1>4, <2>1, <3>2
    <2> QED
      BY <1>11, <2>2, <2>3, <2>4
  <1>12. CASE CreateWorker
    <2>1. mi \in Workers /\ wpc[mi] = "none" /\ wpc' = [wpc EXCEPT ![mi] = "init"]
          /\ UNCHANGED line
      BY <1>12, WebcontrolAssumption DEF CreateWorker, MainType, JoinInv, Workers
    <2>2. Holding(l)' = Holding(l)
      BY <2>1 DEF WorkerType, Holding
    <2> QED
      BY <1>4, <1>12, <2>2 DEF CreateWorker, environment
  <1>13. CASE \/ SquidCloses \/ SignalArrives \/ EnterLoop \/ EvPoll \/ sigint_cb \/ thread_sig_cb
              \/ LeaveLoop \/ StdinReadable \/ ReadAgainLater \/ ReadEof \/ StartJoining
              \/ JoinWorker \/ UnloadPlugins \/ Return \/ UNCHANGED vars
    <2>1. UNCHANGED <<stdin, chunk, job_queue, replies, sent, wpc, line>>
      BY <1>13 DEF SquidCloses, SignalArrives, EnterLoop, EvPoll, sigint_cb, thread_sig_cb,
                   LeaveLoop, StdinReadable, ReadAgainLater, ReadEof, StartJoining, JoinWorker,
                   UnloadPlugins, Return, vars, environment, main, workers
    <2> QED
      BY <1>4, <2>1 DEF Holding
  <1> QED
    BY <1>5, <1>6, <1>7, <1>8, <1>9, <1>10, <1>11, <1>12, <1>13
       DEF Next, EnvironmentStep, MainStep, WorkerStep, Terminated

\* Main creates every worker before it enters the loop.
LEMMA CreatedInvKept ==
  ASSUME IndInv, [Next]_vars
  PROVE  CreatedInv'
  <1> USE DEF IndInv, Types
  <1>1. ASSUME UNCHANGED <<mi, wpc>>, mpc = "create" <=> mpc' = "create" PROVE CreatedInv'
    BY <1>1 DEF CreatedInv
  <1>2. CASE CreateWorker
    <2>1. mi \in Workers /\ mi' = mi + 1 /\ wpc' = [wpc EXCEPT ![mi] = "init"]
          /\ mpc = "create" /\ mpc' = "create" /\ Workers \subseteq Nat
      BY <1>2, WebcontrolAssumption DEF MainType, CreateWorker, Workers
    <2>2. \A w \in Workers : w < mi' => w < mi \/ w = mi
      BY <2>1
    <2> QED
      BY <2>1, <2>2 DEF CreatedInv, WorkerType
  <1>3. CASE EnterLoop
    <2>1. \A w \in Workers : w < mi
      BY <1>3, WebcontrolAssumption DEF EnterLoop, MainType, Workers
    <2> QED
      BY <1>3, <2>1 DEF EnterLoop, CreatedInv, workers
  <1>4. CASE LeaveLoop \/ CancelWorker \/ StartJoining \/ JoinWorker
    <2>1. mpc # "create" /\ mpc' # "create" /\ wpc' = wpc
      BY <1>4 DEF LeaveLoop, CancelWorker, StartJoining, JoinWorker, workers
    <2> QED
      BY <2>1 DEF CreatedInv
  <1>5. ASSUME NEW w \in Workers, WorkerStep(w) PROVE CreatedInv'
    <2>1. PICK place \in WorkerPlaces \ {"none"} : wpc' = [wpc EXCEPT ![w] = place]
      BY <1>5 DEF WorkerStep, WorkerPlaces, ThreadInit, DequeueJob, RespondInvalid,
                  HandleRequest, Respond, PostHandleRequest, EndRequest, SignalTermination,
                  NotifyLoop, ThreadExit, Goto
    <2>2. UNCHANGED <<mpc, mi>>
      BY <1>5 DEF WorkerStep, ThreadInit, DequeueJob, RespondInvalid, HandleRequest, Respond,
                  PostHandleRequest, EndRequest, SignalTermination, NotifyLoop, ThreadExit,
                  main
    <2> QED
      BY <2>1, <2>2 DEF CreatedInv, WorkerType
  <1>6. CASE \/ EnvironmentStep \/ EvPoll \/ sigint_cb \/ thread_sig_cb \/ StdinReadable
             \/ ReadChunk \/ EnqueueLine \/ ReadAgainLater \/ ReadEof \/ UnloadPlugins
             \/ Return \/ UNCHANGED vars
    <2>1. UNCHANGED <<mi, wpc>> /\ (mpc = "create" <=> mpc' = "create")
      BY <1>6 DEF EnvironmentStep, SquidSends, SquidCloses, SignalArrives, EvPoll,
                  sigint_cb, thread_sig_cb, Invoke, StdinReadable, ReadChunk, EnqueueLine,
                  ReadAgainLater, ReadEof, UnloadPlugins, Return, vars, main, workers
    <2> QED
      BY <1>1, <2>1
  <1> QED
    BY <1>2, <1>3, <1>4, <1>5, <1>6 DEF Next, MainStep, Terminated

\* The NULLs that were sent and those that are in the queue, as a step changes
\* them: main sends one, a worker that leaves its loop takes one, and nothing else
\* does.
LEMMA NullsChange ==
  ASSUME IndInv, [Next]_vars
  PROVE  LET Queued == Occurrences(NULL, job_queue)
         IN  /\ Queued \in Nat /\ Queued' \in Nat /\ NullsSent \in Nat
             /\ \/ Queued' = Queued /\ NullsSent' = NullsSent
                   /\ \A w \in Workers : DequeueJob(w) => wpc' = [wpc EXCEPT ![w] = "handle"]
                \/ Queued' = Queued + 1 /\ NullsSent' = NullsSent + 1
                   /\ UNCHANGED <<wpc, replies>>
                \/ Queued' = Queued - 1 /\ NullsSent' = NullsSent
                   /\ \E w \in Workers : wpc[w] = "dequeue"
                                        /\ wpc' = [wpc EXCEPT ![w] = "signal"]
  <1> USE DEF IndInv, Types
  <1> DEFINE Queued == Occurrences(NULL, job_queue)
             Same == /\ Queued' = Queued /\ NullsSent' = NullsSent
                     /\ \A w \in Workers :
                          DequeueJob(w) => wpc' = [wpc EXCEPT ![w] = "handle"]
             Sent == /\ Queued' = Queued + 1 /\ NullsSent' = NullsSent + 1
                     /\ UNCHANGED <<wpc, replies>>
             Taken == /\ Queued' = Queued - 1 /\ NullsSent' = NullsSent
                      /\ \E w \in Workers : /\ wpc[w] = "dequeue"
                                            /\ wpc' = [wpc EXCEPT ![w] = "signal"]
  <1>1. Queued \in Nat /\ Queued' \in Nat
    BY QueueTypeKept, OccType DEF QueueType
  <1>2. NullsSent \in Nat
    BY WebcontrolAssumption DEF NullsSent, MainType
  <1>3. ASSUME NEW w \in Workers, DequeueJob(w) PROVE Same \/ Taken
    <2>1. PICK job \in Lines \cup {NULL} :
            /\ job_queue # << >> /\ job = Head(job_queue) /\ job_queue' = Tail(job_queue)
            /\ line' = [line EXCEPT ![w] = job]
            /\ wpc' = [wpc EXCEPT ![w] = IF job = NULL THEN "signal" ELSE "handle"]
      BY <1>3 DEF DequeueJob, Goto, Jobs!Dequeue
    <2>2. Queued = (IF job = NULL THEN 1 ELSE 0) + Queued'
      BY <2>1, OccTail DEF QueueType
    <2>3. NullsSent' = NullsSent /\ wpc[w] = "dequeue"
      BY <1>3 DEF DequeueJob, NullsSent, main
    <2>4. CASE job = NULL
      <3>1. Queued' = Queued - 1
        BY <1>1, <2>2, <2>4
      <3>2. wpc' = [wpc EXCEPT ![w] = "signal"]
        BY <2>1, <2>4
      <3> QED
        BY <2>3, <3>1, <3>2
    <2>5. CASE job # NULL
      <3>1. Queued' = Queued
        BY <1>1, <2>2, <2>5
      <3>2. wpc' = [wpc EXCEPT ![w] = "handle"]
        BY <2>1, <2>5
      <3>3. ASSUME NEW v \in Workers, DequeueJob(v) PROVE wpc' = [wpc EXCEPT ![v] = "handle"]
        <4>1. v = w
          <5>1. wpc[v] = "dequeue" /\ wpc'[v] # "dequeue"
            BY <3>3 DEF DequeueJob, Goto, WorkerType
          <5> QED
            BY <3>2, <5>1 DEF WorkerType
        <4> QED
          BY <3>2, <4>1
      <3> QED
        BY <2>3, <3>1, <3>3
    <2> QED
      BY <2>4, <2>5
  <1>4. ASSUME CancelWorker PROVE Sent
    <2>1. Queued' = Queued + 1
      BY <1>4, OccAppend DEF QueueType, CancelWorker, Jobs!Enqueue
    <2>2. NullsSent = mi - 1 /\ NullsSent' = mi /\ mi \in Nat
      BY <1>4, WebcontrolAssumption DEF CancelWorker, MainType, NullsSent
    <2>3. NullsSent' = NullsSent + 1
      BY <2>2
    <2> QED
      BY <1>4, <2>1, <2>3 DEF CancelWorker, workers
  <1>5. ASSUME ~(\E w \in Workers : DequeueJob(w)), ~CancelWorker
        PROVE  Same
    <2>1. Queued' = Queued
      <3>1. CASE EnqueueLine
        <4>1. job_queue' = Append(job_queue, Head(chunk)) /\ Head(chunk) \in Lines
          BY <3>1 DEF EnqueueLine, Jobs!Enqueue, ChunkType
        <4>2. Queued' = Queued + (IF Head(chunk) = NULL THEN 1 ELSE 0)
          BY <4>1, OccAppend DEF QueueType
        <4> QED
          BY <1>1, <4>1, <4>2, WebcontrolAssumption
      <3>2. CASE UNCHANGED job_queue
        BY <3>2
      <3> QED
        BY <1>5, <3>1, <3>2
           DEF Next, EnvironmentStep, MainStep, WorkerStep, Terminated, vars, SquidSends,
               SquidCloses, SignalArrives, CreateWorker, EnterLoop, EvPoll, LeaveLoop,
               sigint_cb, thread_sig_cb, StdinReadable, ReadChunk, ReadAgainLater, ReadEof,
               StartJoining, JoinWorker, UnloadPlugins, Return, ThreadInit, RespondInvalid,
               HandleRequest, Respond, PostHandleRequest, EndRequest, SignalTermination,
               NotifyLoop, ThreadExit
    <2>2. NullsSent' = NullsSent
      <3>1. CASE UNCHANGED <<mpc, mi>>
        BY <3>1 DEF NullsSent
      <3>2. CASE StartJoining
        <4>1. mi - 1 = NumThreads
          BY <3>2, WebcontrolAssumption DEF StartJoining, MainType
        <4> QED
          BY <3>2, <4>1 DEF StartJoining, NullsSent
      <3>3. CASE CreateWorker \/ EnterLoop \/ LeaveLoop \/ StdinReadable \/ ReadChunk
                 \/ EnqueueLine \/ ReadAgainLater \/ ReadEof \/ JoinWorker
                 \/ UnloadPlugins \/ Return
        BY <3>3 DEF NullsSent, CreateWorker, EnterLoop, LeaveLoop, StdinReadable, Invoke,
                    ReadChunk, EnqueueLine, ReadAgainLater, ReadEof, JoinWorker,
                    UnloadPlugins, Return
      <3> QED
        BY <1>5, <3>1, <3>2, <3>3
           DEF Next, EnvironmentStep, MainStep, WorkerStep, Terminated, vars, SquidSends,
               SquidCloses, SignalArrives, EvPoll, sigint_cb, thread_sig_cb, ThreadInit,
               RespondInvalid, HandleRequest, Respond, PostHandleRequest, EndRequest,
               SignalTermination, NotifyLoop, ThreadExit, main
    <2> QED
      BY <1>5, <2>1, <2>2
  <1>6. Same \/ Sent \/ Taken
    BY <1>3, <1>4, <1>5
  <1> QED
    BY <1>1, <1>2, <1>6

\* Only a worker that takes a NULL or fails to initialise leaves its loop.
LEMMA GoneChange ==
  ASSUME IndInv, [Next]_vars,
         \A w \in Workers : DequeueJob(w) => wpc' = [wpc EXCEPT ![w] = "handle"]
  PROVE  \/ Gone' = Gone
         \/ \E w \in MayFail : w \notin Gone /\ Gone' = Gone \cup {w}
  <1> USE DEF IndInv, Types
  <1>1. CASE UNCHANGED wpc
    BY <1>1 DEF Gone
  <1>2. CASE CreateWorker
    <2>1. mi \in Workers /\ wpc[mi] = "none" /\ wpc' = [wpc EXCEPT ![mi] = "init"]
      BY <1>2, WebcontrolAssumption DEF CreateWorker, MainType, JoinInv, Workers
    <2> QED
      BY <2>1 DEF WorkerType, Gone
  <1>3. ASSUME NEW w \in Workers, ThreadInit(w)
        PROVE  Gone' = Gone \/ (w \in MayFail /\ w \notin Gone /\ Gone' = Gone \cup {w})
    <2>1. wpc[w] = "init"
      BY <1>3 DEF ThreadInit
    <2>2. CASE wpc' = [wpc EXCEPT ![w] = "dequeue"]
      BY <2>1, <2>2 DEF WorkerType, Gone
    <2>3. CASE w \in MayFail /\ wpc' = [wpc EXCEPT ![w] = "signal"]
      BY <2>1, <2>3 DEF WorkerType, Gone
    <2> QED
      BY <1>3, <2>2, <2>3 DEF ThreadInit, Goto
  <1>4. ASSUME NEW w \in Workers,
               \/ DequeueJob(w) \/ RespondInvalid(w) \/ HandleRequest(w) \/ Respond(w)
               \/ PostHandleRequest(w) \/ EndRequest(w)
        PROVE  Gone' = Gone
    <2>1. PICK place \in {"dequeue", "handle", "respond", "post", "end"} :
            /\ wpc[w] \in {"dequeue", "handle", "respond", "post", "end"}
            /\ wpc' = [wpc EXCEPT ![w] = place]
      BY <1>4 DEF DequeueJob, RespondInvalid, HandleRequest, Respond, PostHandleRequest,
                  EndRequest, Goto
    <2> QED
      BY <2>1 DEF WorkerType, Gone
  <1>5. ASSUME NEW w \in Workers, SignalTermination(w) \/ NotifyLoop(w) \/ ThreadExit(w)
        PROVE  Gone' = Gone
    <2>1. PICK place \in {"notify", "cleanup", "exited"} :
            /\ wpc[w] \in {"signal", "notify", "cleanup"}
            /\ wpc' = [wpc EXCEPT ![w] = place]
      BY <1>5 DEF SignalTermination, NotifyLoop, ThreadExit, Goto
    <2> QED
      BY <2>1 DEF WorkerType, Gone
  <1>6. CASE \/ EnvironmentStep \/ EnterLoop \/ EvPoll \/ sigint_cb \/ thread_sig_cb
             \/ LeaveLoop \/ StdinReadable \/ ReadChunk \/ EnqueueLine \/ ReadAgainLater
             \/ ReadEof \/ CancelWorker \/ StartJoining \/ JoinWorker \/ UnloadPlugins
             \/ Return \/ UNCHANGED vars
    <2>1. UNCHANGED wpc
      BY <1>6 DEF EnvironmentStep, SquidSends, SquidCloses, SignalArrives, EnterLoop, EvPoll,
                  sigint_cb, thread_sig_cb, LeaveLoop, StdinReadable, ReadChunk, EnqueueLine,
                  ReadAgainLater, ReadEof, CancelWorker, StartJoining, JoinWorker,
                  UnloadPlugins, Return, vars, workers
    <2> QED
      BY <1>1, <2>1
  <1> QED
    BY <1>2, <1>3, <1>4, <1>5, <1>6 DEF Next, MainStep, WorkerStep, Terminated

\* Who has left has taken a NULL, or is one of those that may fail.
LEMMA TakenInvKept ==
  ASSUME IndInv, [Next]_vars
  PROVE  TakenInv'
  <1> USE DEF IndInv, Types
  <1> DEFINE Queued == Occurrences(NULL, job_queue)
             Came == Gone \ MayFail
  <1>1. Queued \in Nat /\ Queued' \in Nat /\ NullsSent \in Nat
    BY NullsChange
  <1>2. /\ Gone \in SUBSET Workers /\ Came \in SUBSET Workers
        /\ Cardinality(Gone) \in Nat /\ Cardinality(Came) \in Nat
    BY WorkerSets DEF Gone
  <1>3. Cardinality(Came) + Queued <= NullsSent /\ NullsSent <= Queued + Cardinality(Gone)
    BY DEF TakenInv
  <1>4. ASSUME Queued' = Queued, NullsSent' = NullsSent,
               \A w \in Workers : DequeueJob(w) => wpc' = [wpc EXCEPT ![w] = "handle"]
        PROVE  TakenInv'
    <2>1. CASE Gone' = Gone
      BY <1>3, <1>4, <2>1 DEF TakenInv
    <2>2. ASSUME NEW w \in MayFail, w \notin Gone, Gone' = Gone \cup {w}
          PROVE  TakenInv'
      <3>1. Came' = Came
        BY <2>2
      <3>2. Cardinality(Gone') = Cardinality(Gone) + 1
        BY <1>2, <2>2, WorkerSets
      <3>3. NullsSent' <= Queued' + Cardinality(Gone')
        BY <1>1, <1>2, <1>3, <1>4, <3>2
      <3> QED
        BY <1>3, <1>4, <3>1, <3>3 DEF TakenInv
    <2> QED
      BY <1>4, <2>1, <2>2, GoneChange
  <1>5. ASSUME Queued' = Queued + 1, NullsSent' = NullsSent + 1, UNCHANGED <<wpc, replies>>
        PROVE  TakenInv'
    <2>1. Gone' = Gone
      BY <1>5 DEF Gone
    <2>2. Cardinality(Came) + Queued' <= NullsSent'
          /\ NullsSent' <= Queued' + Cardinality(Gone)
      BY <1>1, <1>2, <1>3, <1>5
    <2> QED
      BY <2>1, <2>2 DEF TakenInv
  <1>6. ASSUME Queued' = Queued - 1, NullsSent' = NullsSent,
               NEW w \in Workers, wpc[w] = "dequeue", wpc' = [wpc EXCEPT ![w] = "signal"]
        PROVE  TakenInv'
    <2>1. w \notin Gone /\ Gone' = Gone \cup {w}
      BY <1>6 DEF WorkerType, Gone
    <2>2. Cardinality(Gone') = Cardinality(Gone) + 1
      BY <1>2, <2>1, WorkerSets
    <2>3. Came' = Came \/ (Came' = Came \cup {w} /\ w \notin Came)
      BY <2>1
    <2>4. Cardinality(Came') = Cardinality(Came) \/ Cardinality(Came') = Cardinality(Came) + 1
      BY <1>2, <2>3, WorkerSets
    <2>5. Cardinality(Came') + Queued' <= NullsSent'
          /\ NullsSent' <= Queued' + Cardinality(Gone')
      BY <1>1, <1>2, <1>3, <1>6, <2>2, <2>4
    <2> QED
      BY <2>5 DEF TakenInv
  <1> QED
    BY <1>4, <1>5, <1>6, NullsChange

\* A worker that has come up is still there, or has taken a NULL.
LEMMA ReadyKept ==
  ASSUME IndInv, Ready, [Next]_vars
  PROVE  Ready'
  <1> USE DEF IndInv, Types
  <1> DEFINE Queued == Occurrences(NULL, job_queue)
  <1>1. /\ Queued \in Nat /\ Queued' \in Nat /\ NullsSent \in Nat
        /\ Cardinality(Gone \ MayFail) \in Nat
    BY NullsChange, WorkerSets DEF Gone
  <1>2. Queued <= NullsSent
    BY <1>1 DEF TakenInv
  <1>3. ASSUME Queued' = Queued - 1, NullsSent' = NullsSent PROVE Ready'
    BY <1>1, <1>2, <1>3 DEF Ready
  <1>4. ASSUME Queued' = Queued + 1, NullsSent' = NullsSent + 1, UNCHANGED <<wpc, replies>>
        PROVE  Ready'
    <2>1. Up' = Up /\ (Queued < NullsSent => Queued' < NullsSent')
      BY <1>1, <1>4 DEF Up
    <2> QED
      BY <1>4, <2>1 DEF Ready
  <1>5. ASSUME Queued' = Queued, NullsSent' = NullsSent,
               \A w \in Workers : DequeueJob(w) => wpc' = [wpc EXCEPT ![w] = "handle"]
        PROVE  Ready'
    <2>1. ASSUME Up \subseteq Up' PROVE Ready'
      BY <1>5, <2>1 DEF Ready
    <2>2. ASSUME NEW w \in Up' PROVE Ready'
      BY <2>2 DEF Ready
    <2>3. ASSUME NEW w \in Workers,
                 \/ DequeueJob(w) \/ RespondInvalid(w) \/ HandleRequest(w) \/ Respond(w)
                 \/ PostHandleRequest(w) \/ EndRequest(w)
          PROVE  w \in Up'
      <3>1. PICK place \in {"dequeue", "handle", "respond", "post", "end"} :
              wpc' = [wpc EXCEPT ![w] = place]
        BY <1>5, <2>3 DEF RespondInvalid, HandleRequest, Respond, PostHandleRequest,
                          EndRequest, Goto
      <3> QED
        BY <3>1 DEF WorkerType, Up
    <2>4. ASSUME NEW w \in Workers,
                 \/ ThreadInit(w) \/ SignalTermination(w) \/ NotifyLoop(w) \/ ThreadExit(w)
          PROVE  Up \subseteq Up'
      <3>1. PICK place : /\ wpc[w] \in {"init", "signal", "notify", "cleanup"}
                         /\ wpc' = [wpc EXCEPT ![w] = place]
        BY <2>4 DEF ThreadInit, SignalTermination, NotifyLoop, ThreadExit, Goto
      <3>2. Up \subseteq Up'
        BY <3>1 DEF WorkerType, Up
      <3> QED
        BY <2>4, <3>2 DEF ThreadInit, SignalTermination, NotifyLoop, ThreadExit
    <2>5. CASE CreateWorker
      <3>1. mi \in Workers /\ wpc[mi] = "none" /\ wpc' = [wpc EXCEPT ![mi] = "init"]
        BY <2>5, WebcontrolAssumption DEF CreateWorker, MainType, JoinInv, Workers
      <3>2. Up \subseteq Up'
        BY <3>1 DEF WorkerType, Up
      <3> QED
        BY <2>1, <2>5, <3>2 DEF CreateWorker
    <2>6. CASE \/ EnvironmentStep \/ EnterLoop \/ EvPoll \/ sigint_cb \/ thread_sig_cb
               \/ LeaveLoop \/ StdinReadable \/ ReadChunk \/ EnqueueLine \/ ReadAgainLater
               \/ ReadEof \/ CancelWorker \/ StartJoining \/ JoinWorker \/ UnloadPlugins
               \/ Return \/ UNCHANGED vars
      <3>1. UNCHANGED <<wpc, replies>>
        BY <2>6 DEF EnvironmentStep, SquidSends, SquidCloses, SignalArrives, EnterLoop,
                    EvPoll, sigint_cb, thread_sig_cb, LeaveLoop, StdinReadable, ReadChunk,
                    EnqueueLine, ReadAgainLater, ReadEof, CancelWorker, StartJoining,
                    JoinWorker, UnloadPlugins, Return, vars, workers
      <3> QED
        BY <2>1, <3>1 DEF Up
    <2> QED
      BY <2>1, <2>2, <2>3, <2>4, <2>5, <2>6 DEF Next, MainStep, WorkerStep, Terminated
  <1> QED
    BY <1>3, <1>4, <1>5, NullsChange

\* Nobody has come up, and somebody has after the step: it is the end of a worker's
\* initialisation.
LEMMA ReadyOnce ==
  ASSUME IndInv, [Next]_vars, ~Ready, Ready'
  PROVE  \E w \in Workers : ThreadInit(w)
  <1> USE DEF IndInv, Types
  <1> DEFINE Queued == Occurrences(NULL, job_queue)
  <1>1. /\ Queued \in Nat /\ Queued' \in Nat /\ NullsSent \in Nat
        /\ Up = {} /\ ~(Queued < NullsSent)
    BY NullsChange DEF Ready
  <1>2. ~(Queued' = Queued + 1 /\ NullsSent' = NullsSent + 1 /\ UNCHANGED <<wpc, replies>>)
    <2> SUFFICES ASSUME Queued' = Queued + 1, NullsSent' = NullsSent + 1, UNCHANGED wpc
                 PROVE  FALSE
      OBVIOUS
    <2>1. Up' = {} /\ ~(Queued' < NullsSent')
      BY <1>1 DEF Up
    <2> QED
      BY <2>1 DEF Ready
  <1>3. ~ \E w \in Workers : wpc[w] = "dequeue" /\ wpc' = [wpc EXCEPT ![w] = "signal"]
    BY <1>1 DEF Up
  <1>4. Queued' = Queued /\ NullsSent' = NullsSent
    BY <1>2, <1>3, NullsChange
  <1>5. Up' # {} /\ wpc' # wpc
    BY <1>1, <1>4 DEF Ready, Up
  <1>6. ASSUME NEW w \in Workers,
               \/ DequeueJob(w) \/ RespondInvalid(w) \/ HandleRequest(w) \/ Respond(w)
               \/ PostHandleRequest(w) \/ EndRequest(w)
        PROVE  FALSE
    BY <1>1, <1>6 DEF DequeueJob, RespondInvalid, HandleRequest, Respond,
                      PostHandleRequest, EndRequest, Up
  <1>7. ASSUME NEW w \in Workers,
               \/ SignalTermination(w) \/ NotifyLoop(w) \/ ThreadExit(w)
        PROVE  FALSE
    <2>1. PICK place \in {"notify", "cleanup", "exited"} : wpc' = [wpc EXCEPT ![w] = place]
      BY <1>7 DEF SignalTermination, NotifyLoop, ThreadExit, Goto
    <2>2. Up' = {}
      BY <1>1, <2>1 DEF WorkerType, Up
    <2> QED
      BY <1>5, <2>2
  <1>8. ~CreateWorker
    <2> SUFFICES ASSUME CreateWorker PROVE FALSE
      OBVIOUS
    <2>1. mi \in Workers /\ wpc' = [wpc EXCEPT ![mi] = "init"]
      BY WebcontrolAssumption DEF CreateWorker, MainType, Workers
    <2>2. Up' = {}
      BY <1>1, <2>1 DEF WorkerType, Up
    <2> QED
      BY <1>5, <2>2
  <1>9. ~(\/ EnvironmentStep \/ EnterLoop \/ EvPoll \/ sigint_cb \/ thread_sig_cb
          \/ LeaveLoop \/ StdinReadable \/ ReadChunk \/ EnqueueLine \/ ReadAgainLater
          \/ ReadEof \/ CancelWorker \/ StartJoining \/ JoinWorker \/ UnloadPlugins
          \/ Return \/ UNCHANGED vars)
    BY <1>5 DEF EnvironmentStep, SquidSends, SquidCloses, SignalArrives, EnterLoop,
                EvPoll, sigint_cb, thread_sig_cb, LeaveLoop, StdinReadable, ReadChunk,
                EnqueueLine, ReadAgainLater, ReadEof, CancelWorker, StartJoining,
                JoinWorker, UnloadPlugins, Return, vars, workers
  <1> QED
    BY <1>6, <1>7, <1>8, <1>9 DEF Next, MainStep, WorkerStep, Terminated

\* Whoever has answered has come up.
LEMMA ServedInvKept ==
  ASSUME IndInv, [Next]_vars
  PROVE  ServedInv'
  <1> USE DEF IndInv, Types
  <1>1. ASSUME NEW w \in Workers, RespondInvalid(w) \/ Respond(w) PROVE Ready
    BY <1>1 DEF RespondInvalid, Respond, Up, Ready
  <1>2. ASSUME Ready PROVE ServedInv'
    BY <1>2, ReadyKept DEF ServedInv
  <1>3. ASSUME UNCHANGED replies PROVE ServedInv'
    BY <1>2, <1>3 DEF ServedInv
  <1>4. ASSUME NEW w \in Workers, WorkerStep(w) PROVE ServedInv'
    <2>1. CASE RespondInvalid(w) \/ Respond(w)
      BY <1>1, <1>2, <2>1
    <2>2. CASE \/ ThreadInit(w) \/ DequeueJob(w) \/ HandleRequest(w) \/ PostHandleRequest(w)
               \/ EndRequest(w) \/ SignalTermination(w) \/ NotifyLoop(w) \/ ThreadExit(w)
      <3>1. UNCHANGED replies
        BY <2>2 DEF ThreadInit, DequeueJob, HandleRequest, PostHandleRequest, EndRequest,
                    SignalTermination, NotifyLoop, ThreadExit
      <3> QED
        BY <1>3, <3>1
    <2> QED
      BY <1>4, <2>1, <2>2 DEF WorkerStep
  <1>5. CASE EnvironmentStep \/ MainStep \/ UNCHANGED vars
    <2>1. UNCHANGED replies
      BY <1>5 DEF MainStep, EnvironmentStep, SquidSends, SquidCloses, SignalArrives,
                  CreateWorker, EnterLoop, EvPoll, sigint_cb, thread_sig_cb, LeaveLoop,
                  StdinReadable, ReadChunk, EnqueueLine, ReadAgainLater, ReadEof,
                  CancelWorker, StartJoining, JoinWorker, UnloadPlugins, Return, vars, workers
    <2> QED
      BY <1>3, <2>1
  <1> QED
    BY <1>4, <1>5 DEF Next, Terminated

-----------------------------------------------------------------------------
(* The theorems *)

\* The invariant holds initially and every step of Squid, of main or of a worker
\* keeps it.
LEMMA Inductive == Spec => []IndInv
  <1>1. Init => IndInv
    <2> SUFFICES ASSUME Init PROVE IndInv
      OBVIOUS
    <2>1. /\ stdin = << >> /\ replies = << >> /\ chunk = << >> /\ job_queue = << >>
          /\ thread_signal_queue = << >> /\ sent = {} /\ pending = {}
      BY DEF Init, Jobs!Init, Signals!Init
    <2>2. mpc = "create" /\ mi = 1 /\ active_workers = 0 /\ NumThreads \in Nat
          /\ JobCapacity \in Nat /\ SignalCapacity \in Nat
      BY WebcontrolAssumption DEF Init
    <2>3. wpc = [w \in Workers |-> "none"] /\ line = [w \in Workers |-> NULL]
          /\ post = [w \in Workers |-> FALSE]
      BY DEF Init
    <2>4. PipeType /\ LibevType
      <3>1. /\ eof \in BOOLEAN /\ sig \in BOOLEAN /\ asyncSent \in BOOLEAN
            /\ stdinWatched \in BOOLEAN /\ loop_done \in BOOLEAN
        BY DEF Init
      <3>2. stdin \in Seq(Lines) /\ replies \in Seq(Lines)
        BY <2>1
      <3> QED
        BY <2>1, <3>1, <3>2 DEF PipeType, LibevType
    <2>5. QueueType
      BY <2>1, <2>2 DEF QueueType
    <2>6. MainType
      BY <2>2 DEF MainType, MainPlaces
    <2>7. ChunkType
      <3>1. remainder \in BOOLEAN
        BY DEF Init
      <3>2. chunk \in Seq(Lines)
        BY <2>1
      <3> QED
        BY <2>1, <2>2, <3>1, <3>2 DEF ChunkType
    <2>8. WorkerType
      BY <2>3 DEF WorkerType, WorkerPlaces
    <2>9. JoinInv /\ HoldInv
      BY <2>2, <2>3 DEF JoinInv, HoldInv
    <2>10. CountInv
      <3>1. Alive = 1 .. NumThreads
        BY <2>3 DEF Alive, Workers
      <3>2. Cardinality(1 .. NumThreads) = NumThreads
        BY <2>2, FS_Interval
      <3>3. Len(thread_signal_queue) = 0
        BY <2>1
      <3> QED
        BY <2>2, <3>1, <3>2, <3>3 DEF CountInv
    <2>11. SignalInv
      <3>1. Notifying = {} /\ Cardinality({}) = 0
        BY <2>3, FS_EmptySet DEF Notifying
      <3>2. Len(thread_signal_queue) = 0 /\ asyncSent = FALSE /\ "async" \notin pending
        BY <2>1 DEF Init
      <3> QED
        BY <3>1, <3>2 DEF SignalInv, One
    <2>12. NullInv
      <3>1. NullsSent = 0 /\ Occurrences(NULL, job_queue) = 0 /\ Len(job_queue) = 0
        BY <2>1, <2>2, OccSingle DEF NullsSent
      <3> QED
        BY <3>1 DEF NullInv
    <2>13. EachLineOnce
      <3> SUFFICES ASSUME NEW l \in Lines
                   PROVE  Occurrences(l, stdin) + Occurrences(l, chunk)
                            + Occurrences(l, job_queue) + Cardinality(Holding(l))
                            + Occurrences(l, replies) = 0
        BY <2>1 DEF EachLineOnce
      <3>1. Occurrences(l, << >>) = 0
        BY OccSingle
      <3>2. Holding(l) = {} /\ Cardinality({}) = 0
        BY <2>3, FS_EmptySet DEF Holding
      <3> QED
        BY <2>1, <3>1, <3>2
    <2>14. CreatedInv /\ ServedInv
      <3>1. \A w \in Workers : ~(w < 1)
        BY DEF Workers
      <3> QED
        BY <2>1, <2>2, <3>1 DEF CreatedInv, ServedInv
    <2>15. TakenInv
      <3>1. Gone = {} /\ Gone \ MayFail = {} /\ Cardinality({}) = 0
        BY <2>3, FS_EmptySet DEF Gone
      <3>2. NullsSent = 0 /\ Occurrences(NULL, job_queue) = 0
        BY <2>1, <2>2, OccSingle DEF NullsSent
      <3>3. Cardinality(Gone) = 0 /\ Cardinality(Gone \ MayFail) = 0
        BY <3>1
      <3> QED
        BY <3>2, <3>3 DEF TakenInv
    <2> QED
      BY <2>4, <2>5, <2>6, <2>7, <2>8, <2>9, <2>10, <2>11, <2>12, <2>13, <2>14, <2>15
         DEF IndInv, Types
  <1>2. IndInv /\ [Next]_vars => IndInv'
    BY PipeTypeKept, LibevTypeKept, QueueTypeKept, MainTypeKept, ChunkTypeKept,
       WorkerTypeKept,
       JoinInvKept, HoldInvKept, CountInvKept, SignalInvKept, NullInvKept,
       EachLineOnceKept, CreatedInvKept, TakenInvKept, ServedInvKept
       DEF IndInv, Types
  <1> QED
    BY <1>1, <1>2, PTL DEF Spec

\* The variables keep their types: no queue is filled beyond its capacity, the
\* number of active workers never falls below zero (main.c:402), and the chunk is
\* never empty when a line of it is enqueued.
THEOREM TypeCorrect == Spec => []TypeOK
  <1>1. IndInv => TypeOK
    BY DEF IndInv, Types, PipeType, LibevType, QueueType, MainType, ChunkType, WorkerType,
           CountInv, TypeOK
  <1> QED
    BY <1>1, Inductive, PTL

\* No request is lost, taken twice or answered twice (main.c:100, 237, 279, 315-322).
THEOREM NoLineLostOrRepeated == Spec => []EachLineOnce
  <1>1. IndInv => EachLineOnce
    BY DEF IndInv
  <1> QED
    BY <1>1, Inductive, PTL

\* What the invariant says of a program that has joined its workers.
LEMMA Drained ==
  ASSUME IndInv
  PROVE  AcceptedLinesAnswered
  <1> USE DEF IndInv, Types
  <1> SUFFICES ASSUME mpc \in {"unload", "exited"},
                      Occurrences(NULL, job_queue) < NumThreads,
                      NEW l \in sent
               PROVE  Occurrences(l, stdin) + Occurrences(l, replies) = 1
    BY DEF AcceptedLinesAnswered
  <1>1. l \in Lines
    BY DEF PipeType
  <1>2. Occurrences(l, chunk) = 0
    BY OccSingle DEF ChunkType
  <1>3. \A p \in 1 .. Len(job_queue) : job_queue[p] = NULL
    BY DEF NullInv, NullsSent
  <1>4. Occurrences(l, job_queue) = 0
    BY <1>1, <1>3, OccZero, WebcontrolAssumption DEF QueueType
  <1>5. Holding(l) = {} /\ Cardinality({}) = 0
    BY FS_EmptySet DEF Holding, JoinInv
  <1>6. Occurrences(l, stdin) + Occurrences(l, chunk) + Occurrences(l, job_queue)
          + Cardinality(Holding(l)) + Occurrences(l, replies) = 1
    BY <1>1 DEF EachLineOnce
  <1>7. Occurrences(l, stdin) \in Nat /\ Occurrences(l, replies) \in Nat
    BY OccType DEF PipeType
  <1> QED
    BY <1>2, <1>4, <1>5, <1>6, <1>7

\* A shutdown drains the queue: once main has joined the workers, and at least one
\* of them has taken its NULL, every line that was read is answered (main.c:652-703).
THEOREM ShutdownDrains == Spec => []AcceptedLinesAnswered
  BY Drained, Inductive, PTL

\* The event loop never blocks in thread_sig_cb, although ev_async_send coalesces
\* (main.c:390).
THEOREM CallbackNeverBlocks == Spec => []SignalCallbackNeverBlocks
  <1>1. ASSUME IndInv PROVE SignalCallbackNeverBlocks
    <2> USE <1>1 DEF IndInv, Types
    <2>1. Cardinality(Notifying) \in Nat
      BY WorkerSets DEF Notifying
    <2>2. "async" \in pending => Len(thread_signal_queue) > 0
      BY <2>1 DEF SignalInv, One, QueueType
    <2> QED
      BY <2>2 DEF SignalCallbackNeverBlocks, QueueType
  <1> QED
    BY <1>1, Inductive, PTL

\* The program knows how many workers are left (main.c:402, 640).
THEOREM WorkersCounted == Spec => []ActiveWorkersCounted
  <1>1. IndInv => ActiveWorkersCounted
    BY DEF IndInv, CountInv, ActiveWorkersCounted
  <1> QED
    BY <1>1, Inductive, PTL

\* Nobody runs plugin code once main unloads the plugins (main.c:663-703).
THEOREM UnloadedAfterExit == Spec => []NoUseAfterFree
  <1>1. IndInv => NoUseAfterFree
    BY DEF IndInv, JoinInv, NoUseAfterFree
  <1> QED
    BY <1>1, Inductive, PTL

\* Main never waits for workers that wait for main: blocked on the full job queue
\* it leaves a worker that can go on, and the worker it joins can go on until it
\* has exited (main.c:100, 357, 652-660).
THEOREM MainNeverStuck == Spec => []NoStandstill
  <1>1. ASSUME IndInv PROVE NoStandstill
    <2> USE <1>1 DEF IndInv, Types
    <2> DEFINE Queued == Occurrences(NULL, job_queue)
               Came == Gone \ MayFail
    <2> SUFFICES ASSUME EnoughRoom
                 PROVE  /\ mpc = "enqueue" \/ (mpc = "cancel" /\ mi <= NumThreads)
                             => Len(job_queue) < JobCapacity \/ \E w \in Workers : CanStep(w)
                        /\ mpc = "join" /\ mi <= NumThreads => wpc[mi] = "exited" \/ CanStep(mi)
      BY DEF NoStandstill
    <2>1. Queued \in Nat /\ Len(job_queue) \in Nat /\ Len(thread_signal_queue) \in Nat
          /\ mi \in Nat /\ NumThreads \in Nat /\ JobCapacity \in Nat \ {0}
          /\ SignalCapacity \in Nat
      BY OccType, WebcontrolAssumption DEF QueueType, MainType
    <2>2. /\ Gone \in SUBSET Workers /\ Came \in SUBSET Workers
          /\ Cardinality(Gone) \in Nat /\ Cardinality(Came) \in Nat
      BY WorkerSets DEF Gone
    <2>3. Cardinality(Came) + Queued <= NullsSent /\ NullsSent <= Queued + Cardinality(Gone)
      BY DEF TakenInv
    <2>4. ASSUME NEW w \in Workers, w \notin Gone, mpc # "create", job_queue # << >>
          PROVE  CanStep(w)
      <3>1. wpc[w] \in WorkerPlaces /\ wpc[w] # "none"
        BY <2>4 DEF WorkerType, CreatedInv
      <3> QED
        BY <2>4, <3>1 DEF WorkerPlaces, Gone, CanStep
    <2>5. PICK h \in Workers : h \notin MayFail
      BY WebcontrolAssumption DEF EnoughRoom, Workers
    <2>6. h \in Gone => Cardinality(Came) > 0
      BY <2>2, <2>5, WorkerSets
    <2>7. ASSUME mpc = "enqueue", ~(Len(job_queue) < JobCapacity)
          PROVE  \E w \in Workers : CanStep(w)
      <3>1. NullsSent = 0
        BY <2>7 DEF NullsSent
      <3>2. h \notin Gone
        BY <2>1, <2>2, <2>3, <2>6, <3>1
      <3>3. job_queue # << >>
        BY <2>1, <2>7
      <3> QED
        BY <2>4, <2>7, <3>2, <3>3
    <2>8. ASSUME mpc = "cancel", mi <= NumThreads, \A w \in Workers : ~CanStep(w)
          PROVE  Len(job_queue) < JobCapacity
      <3> SUFFICES ASSUME ~(Len(job_queue) < JobCapacity) PROVE FALSE
        OBVIOUS
      <3>1. job_queue # << >>
        BY <2>1
      <3>2. \A w \in Workers : w \in Gone
        BY <2>4, <2>8, <3>1
      <3>3. Came = Workers \ MayFail
        BY <3>2 DEF Gone
      <3>4. Cardinality(Came) = NumThreads - Cardinality(MayFail) /\ Cardinality(MayFail) \in Nat
        <4>1. IsFiniteSet(Workers) /\ Cardinality(Workers) = NumThreads
          BY <2>1, Interval DEF Workers
        <4>2. Workers \cap MayFail = MayFail /\ MayFail \subseteq Workers
          BY WebcontrolAssumption DEF Workers
        <4>3. Cardinality(MayFail) \in Nat
          BY <4>1, <4>2, FS_Subset, FS_CardinalityType
        <4>4. Cardinality(Workers \ MayFail)
                = Cardinality(Workers) - Cardinality(Workers \cap MayFail)
          BY <4>1, FS_Difference
        <4> QED
          BY <3>3, <4>1, <4>2, <4>3, <4>4
      <3>5. NullsSent = mi - 1
        BY <2>8 DEF NullsSent
      <3>6. Cardinality(MayFail) <= JobCapacity
        BY DEF EnoughRoom
      <3>7. Queued < JobCapacity
        BY <2>1, <2>3, <2>8, <3>4, <3>5, <3>6
      <3>8. Queued < NullsSent
        BY <2>1, <2>2, <2>3, <2>6, <3>2, <3>5
      <3>9. Queued = Len(job_queue)
        BY <3>8, OccAll DEF NullInv, QueueType
      <3> QED
        BY <3>7, <3>9
    <2>9. ASSUME mpc = "join", mi <= NumThreads, wpc[mi] # "exited"
          PROVE  CanStep(mi)
      <3>1. mi \in Workers
        BY <2>9, WebcontrolAssumption DEF MainType, Workers
      <3>2. CASE wpc[mi] = "signal"
        <4>1. mi \in Alive /\ Alive \in SUBSET Workers
          BY <3>1, <3>2 DEF Alive
        <4>2. Cardinality(Alive) > 0 /\ Cardinality(Alive) \in Nat
          BY <4>1, WorkerSets
        <4>3. active_workers = Cardinality(Alive) + Len(thread_signal_queue)
              /\ active_workers <= NumThreads
          BY <2>9 DEF CountInv
        <4>4. Len(thread_signal_queue) < SignalCapacity
          BY <2>1, <4>2, <4>3 DEF EnoughRoom
        <4> QED
          BY <3>2, <4>4 DEF CanStep
      <3>3. CASE wpc[mi] \in {"notify", "cleanup"}
        BY <3>3 DEF CanStep
      <3>4. CASE mi \notin Gone
        <4>1. Gone \subseteq Workers \ {mi} /\ Workers \in SUBSET Workers
          BY <2>2, <3>4
        <4>2. Cardinality(Workers \ {mi}) = NumThreads - 1 /\ IsFiniteSet(Workers \ {mi})
          <5>1. IsFiniteSet(Workers) /\ Cardinality(Workers) = NumThreads
            BY <2>1, Interval DEF Workers
          <5> QED
            BY <3>1, <5>1, FS_RemoveElement
        <4>3. Cardinality(Gone) <= NumThreads - 1
          BY <4>1, <4>2, FS_Subset
        <4>4. NullsSent = NumThreads
          BY <2>9 DEF NullsSent
        <4>5. Queued # 0
          BY <2>1, <2>2, <2>3, <4>3, <4>4
        <4>6. job_queue # << >>
          BY <4>5, OccSingle
        <4> QED
          BY <2>4, <2>9, <3>1, <3>4, <4>6
      <3> QED
        BY <2>9, <3>1, <3>2, <3>3, <3>4 DEF Gone
    <2> QED
      BY <2>7, <2>8, <2>9
  <1> QED
    BY <1>1, Inductive, PTL

-----------------------------------------------------------------------------
(* The program implements HelperContract *)

\* The lines of the contract's accepted set.
Unread   == {stdin[k] : k \in DOMAIN stdin}
Accepted == sent \ Unread
Running  == mpc \notin {"unload", "exited"}

\* Where a line that was sent can be, in terms of the contract.
LEMMA LinePlaces ==
  ASSUME IndInv, NEW l \in Lines
  PROVE  /\ l \in Unread <=> Occurrences(l, stdin) > 0
         /\ l \in Contract!Answered <=> Occurrences(l, replies) > 0
         /\ l \in Unread => l \in sent /\ Occurrences(l, stdin) = 1
         /\ l \in Contract!Answered => l \in Accepted
         /\ \A w \in Workers : line[w] = l /\ wpc[w] \in {"handle", "respond"}
              => l \in Accepted /\ l \notin Contract!Answered
  <1> USE DEF IndInv, Types
  <1>1. /\ Occurrences(l, stdin) \in Nat /\ Occurrences(l, chunk) \in Nat
        /\ Occurrences(l, job_queue) \in Nat /\ Occurrences(l, replies) \in Nat
    BY OccType DEF PipeType, ChunkType, QueueType
  <1>2. Holding(l) \in SUBSET Workers /\ Cardinality(Holding(l)) \in Nat
    BY WorkerSets DEF Holding
  <1>3. Occurrences(l, stdin) + Occurrences(l, chunk) + Occurrences(l, job_queue)
          + Cardinality(Holding(l)) + Occurrences(l, replies)
          = IF l \in sent THEN 1 ELSE 0
    BY DEF EachLineOnce
  <1>4. l \in Unread <=> Occurrences(l, stdin) > 0
    BY OccElement DEF Unread, PipeType
  <1>5. l \in Contract!Answered <=> Occurrences(l, replies) > 0
    BY OccElement DEF Contract!Answered, PipeType
  <1>6. ASSUME NEW w \in Workers, line[w] = l, wpc[w] \in {"handle", "respond"}
        PROVE  Cardinality(Holding(l)) > 0
    <2>1. w \in Holding(l)
      BY <1>6 DEF Holding
    <2> QED
      BY <1>2, <2>1, WorkerSets
  <1>7. /\ Occurrences(l, stdin) > 0 => l \in sent /\ Occurrences(l, stdin) = 1
        /\ Occurrences(l, replies) > 0 => l \in sent /\ Occurrences(l, stdin) = 0
        /\ Cardinality(Holding(l)) > 0 =>
             l \in sent /\ Occurrences(l, stdin) = 0 /\ Occurrences(l, replies) = 0
    BY <1>1, <1>2, <1>3
  <1> QED
    BY <1>1, <1>4, <1>5, <1>6, <1>7 DEF Accepted

\* The first worker comes up when the hooks of one succeed, and then only.
LEMMA ReadyChange ==
  ASSUME IndInv, [Next]_vars
  PROVE  \/ Ready' = Ready
         \/ /\ ~Ready /\ Ready' = TRUE
            /\ \E w \in Workers : ThreadInit(w)
  <1>1. Ready \in BOOLEAN /\ Ready' \in BOOLEAN
    BY DEF Ready
  <1>2. Ready => Ready'
    BY ReadyKept
  <1>3. ~Ready /\ Ready' => \E w \in Workers : ThreadInit(w)
    BY ReadyOnce
  <1> QED
    BY <1>1, <1>2, <1>3

\* A read accepts the lines of its chunk.
LEMMA ReadAccepts ==
  ASSUME IndInv, ReadChunk, Ready' = Ready
  PROVE  \E S \in SUBSET sent : Contract!Accept(S)
  <1> USE DEF IndInv, Types
  <1> DEFINE Got == {chunk'[k] : k \in DOMAIN chunk'}
  <1>1. PICK n \in 1 .. Len(stdin) : /\ chunk' = SubSeq(stdin, 1, n)
                                     /\ stdin' = SubSeq(stdin, n + 1, Len(stdin))
    BY DEF ReadChunk
  <1>2. /\ stdin \in Seq(Lines) /\ chunk' \in Seq(Lines) /\ stdin' \in Seq(Lines)
        /\ Len(chunk') = n /\ chunk' # << >>
    BY <1>1 DEF PipeType
  <1>3. Got \subseteq Lines /\ Got # {} /\ Unread \subseteq Lines /\ Unread' \subseteq Lines
    <2>1. 1 \in DOMAIN chunk'
      BY <1>2
    <2>2. Got # {}
      BY <2>1
    <2> QED
      BY <1>2, <2>2 DEF Unread
  <1>4. ASSUME NEW l \in Lines
        PROVE  /\ l \in Unread <=> l \in Got \/ l \in Unread'
               /\ ~(l \in Got /\ l \in Unread')
    <2>1. Occurrences(l, stdin) = Occurrences(l, chunk') + Occurrences(l, stdin')
      BY <1>1, <1>2, OccCut
    <2>2. l \in Got <=> Occurrences(l, chunk') > 0
      BY <1>2, OccElement
    <2>3. l \in Unread' <=> Occurrences(l, stdin') > 0
      BY <1>2, OccElement DEF Unread
    <2>4. l \in Unread <=> Occurrences(l, stdin) > 0
      BY LinePlaces
    <2>5. l \in Unread => Occurrences(l, stdin) = 1
      BY LinePlaces
    <2>6. Occurrences(l, chunk') \in Nat /\ Occurrences(l, stdin') \in Nat
      BY <1>2, OccType
    <2> QED
      BY <2>1, <2>2, <2>3, <2>4, <2>5, <2>6
  <1>5. Unread \subseteq sent
    BY <1>3, LinePlaces
  <1>6. Got \subseteq sent /\ Got \cap Accepted = {}
    BY <1>3, <1>4, <1>5 DEF Accepted
  <1>7. UNCHANGED <<sent, replies>> /\ mpc = "read" /\ mpc' = "enqueue"
    BY DEF ReadChunk
  <1>8. Accepted' = Accepted \cup Got
    BY <1>3, <1>4, <1>5, <1>7 DEF Accepted, PipeType
  <1> HIDE DEF Got
  <1>9. Running /\ Running' = Running
    BY <1>7 DEF Running
  <1>10. Contract!Accept(Got)
    BY <1>3, <1>6, <1>7, <1>8, <1>9 DEF Contract!Accept, Accepted, Unread, Running
  <1> QED
    BY <1>6, <1>10 DEF Contract!Accept

\* A worker's response answers a line that was accepted and not answered yet.
LEMMA ResponseAnswers ==
  ASSUME IndInv, NEW w \in Workers, RespondInvalid(w) \/ Respond(w), Ready' = Ready
  PROVE  \E l \in Lines : Contract!Answer(l)
  <1> USE DEF IndInv, Types
  <1>1. line[w] \in Lines /\ wpc[w] \in {"handle", "respond"}
    BY DEF HoldInv, RespondInvalid, Respond
  <1>2. line[w] \in Accepted /\ line[w] \notin Contract!Answered
    BY <1>1, LinePlaces
  <1>3. Running /\ Ready
    BY <1>1 DEF JoinInv, Running, Ready, Up
  <1>4. /\ replies' = Append(replies, line[w])
        /\ UNCHANGED <<sent, stdin, mpc>>
    BY DEF RespondInvalid, Respond, environment, main
  <1>5. Accepted' = Accepted /\ Running' = Running
    BY <1>4 DEF Accepted, Unread, Running
  <1>6. Contract!Answer(line[w])
    BY <1>2, <1>3, <1>4, <1>5 DEF Contract!Answer, Accepted, Unread, Running
  <1> QED
    BY <1>1, <1>6

\* When the last worker is joined, all that was accepted is answered, or no
\* worker ever came up.
LEMMA JoinedStops ==
  ASSUME IndInv, UnloadPlugins, AcceptedLinesAnswered'
  PROVE  Contract!Stop
  <1> USE DEF IndInv, Types
  <1>1. /\ mpc = "join" /\ mpc' = "unload" /\ mi > NumThreads
        /\ UNCHANGED <<sent, stdin, replies, job_queue>>
    BY DEF UnloadPlugins, environment
  <1>2. Running = TRUE /\ Running' = FALSE /\ Accepted' = Accepted
    BY <1>1 DEF Running, Accepted, Unread
  <1>3. ASSUME Ready PROVE Contract!Answered = Accepted
    <2>1. \A w \in Workers : wpc[w] = "exited"
      BY <1>1, WebcontrolAssumption DEF JoinInv, MainType, Workers
    <2>2. Up = {}
      BY <2>1 DEF Up
    <2>3. Occurrences(NULL, job_queue) < NumThreads
      BY <1>1, <1>3, <2>2 DEF Ready, NullsSent
    <2>4. \A l \in sent : Occurrences(l, stdin) + Occurrences(l, replies) = 1
      BY <1>1, <2>3 DEF AcceptedLinesAnswered
    <2>5. ASSUME NEW l \in Lines PROVE l \in Contract!Answered <=> l \in Accepted
      <3>1. Occurrences(l, stdin) \in Nat /\ Occurrences(l, replies) \in Nat
        BY OccType DEF PipeType
      <3>2. /\ l \in Unread <=> Occurrences(l, stdin) > 0
            /\ l \in Contract!Answered <=> Occurrences(l, replies) > 0
            /\ l \in Contract!Answered => l \in Accepted
        BY LinePlaces
      <3> QED
        BY <2>4, <3>1, <3>2 DEF Accepted
    <2>6. Contract!Answered \subseteq Lines /\ Accepted \subseteq Lines
      BY DEF Contract!Answered, Accepted, PipeType
    <2> QED
      BY <2>5, <2>6
  <1>4. Ready' = Ready
    BY <1>1 DEF UnloadPlugins, Ready, Up, NullsSent, workers
  <1> QED
    BY <1>1, <1>2, <1>3, <1>4 DEF Contract!Stop, Accepted, Unread, Running

\* To Squid the threads are one helper that answers every line it reads once,
\* and leaves none unanswered when it ends, unless no worker ever came up
\* (main.c:224-231, 652-667).
THEOREM HelperImplementsContract == Spec => ImplementsContract
  <1>1. Init => Contract!Init
    <2> SUFFICES ASSUME Init PROVE Contract!Init
      OBVIOUS
    <2>1. sent = {} /\ Accepted = {} /\ replies = << >>
      BY DEF Init, Accepted
    <2>2. Running = TRUE
      BY DEF Init, Running
    <2>3. Ready = FALSE
      <3>1. job_queue = << >> /\ wpc = [w \in Workers |-> "none"] /\ mpc = "create"
        BY DEF Init, Jobs!Init
      <3>2. Occurrences(NULL, job_queue) = 0 /\ NullsSent = 0 /\ Up = {}
        BY <3>1, OccSingle DEF NullsSent, Up
      <3> QED
        BY <3>2 DEF Ready
    <2> QED
      BY <2>1, <2>2, <2>3 DEF Contract!Init, Accepted, Unread, Running
  <1>2. ASSUME IndInv, AcceptedLinesAnswered', [Next]_vars
        PROVE  [Contract!Next]_Contract!vars
    <2> USE <1>2 DEF IndInv, Types
    <2>0. \/ Ready' = Ready
          \/ /\ ~Ready /\ Ready' = TRUE
             /\ \E w \in Workers : ThreadInit(w)
      BY ReadyChange
    <2>1. ASSUME NEW l \in Lines, SquidSends(l), Ready' = Ready PROVE Contract!Send(l)
      <3>1. /\ l \notin sent /\ sent' = sent \cup {l} /\ stdin' = Append(stdin, l)
            /\ UNCHANGED <<replies, mpc>>
        BY <2>1 DEF SquidSends, main
      <3>2. Unread' = Unread \cup {l}
        BY <3>1 DEF Unread, PipeType
      <3>3. Accepted' = Accepted /\ Running' = Running
        BY <3>1, <3>2 DEF Accepted, Running
      <3> QED
        BY <2>1, <3>1, <3>3 DEF Contract!Send, Accepted, Unread, Running
    <2>2. ASSUME UNCHANGED <<sent, stdin, replies>>, Running' = Running, Ready' = Ready
          PROVE  UNCHANGED Contract!vars
      BY <2>2 DEF Contract!vars, Running
    <2>3. ASSUME Ready' = Ready,
               \/ SquidCloses \/ SignalArrives \/ CreateWorker \/ EnterLoop \/ EvPoll
               \/ sigint_cb \/ thread_sig_cb \/ LeaveLoop \/ StdinReadable \/ EnqueueLine
               \/ ReadAgainLater \/ ReadEof \/ CancelWorker \/ StartJoining \/ JoinWorker
               \/ Return \/ UNCHANGED vars
          PROVE  UNCHANGED Contract!vars
      <3>1. UNCHANGED <<sent, stdin, replies>>
        BY <2>3 DEF SquidCloses, SignalArrives, CreateWorker, EnterLoop, EvPoll, sigint_cb,
                    thread_sig_cb, LeaveLoop, StdinReadable, EnqueueLine, ReadAgainLater,
                    ReadEof, CancelWorker, StartJoining, JoinWorker, Return, vars, environment
      <3>2. Running' = Running
        BY <2>3 DEF SquidCloses, SignalArrives, CreateWorker, EnterLoop, EvPoll, sigint_cb,
                    thread_sig_cb, Invoke, LeaveLoop, StdinReadable, EnqueueLine,
                    ReadAgainLater, ReadEof, CancelWorker, StartJoining, JoinWorker, Return,
                    vars, main, Running
      <3> QED
        BY <2>2, <2>3, <3>1, <3>2
    <2>4. ASSUME NEW w \in Workers, Ready' = Ready,
                 \/ ThreadInit(w) \/ DequeueJob(w) \/ HandleRequest(w) \/ PostHandleRequest(w)
                 \/ EndRequest(w) \/ SignalTermination(w) \/ NotifyLoop(w) \/ ThreadExit(w)
          PROVE  UNCHANGED Contract!vars
      <3>1. UNCHANGED <<sent, stdin, replies, mpc>>
        BY <2>4 DEF ThreadInit, DequeueJob, HandleRequest, PostHandleRequest, EndRequest,
                    SignalTermination, NotifyLoop, ThreadExit, environment, main
      <3> QED
        BY <2>2, <2>4, <3>1 DEF Running
    <2>5. ASSUME ReadChunk, Ready' = Ready PROVE Contract!Next
      BY <2>5, ReadAccepts DEF Contract!Next
    <2>6. ASSUME NEW w \in Workers, RespondInvalid(w) \/ Respond(w), Ready' = Ready
          PROVE  Contract!Next
      BY <2>6, ResponseAnswers DEF Contract!Next
    <2>7. CASE UnloadPlugins
      BY <2>7, JoinedStops DEF Contract!Next
    <2>8. ASSUME NEW w \in Workers, ThreadInit(w), ~Ready, Ready' = TRUE
          PROVE  Contract!ComeUp
      <3>1. UNCHANGED <<sent, stdin, replies, mpc>> /\ wpc[w] = "init"
        BY <2>8 DEF ThreadInit, environment, main
      <3>2. Accepted' = Accepted /\ Running /\ Running' = Running
        BY <3>1 DEF Accepted, Unread, Running, JoinInv
      <3> QED
        BY <2>8, <3>1, <3>2 DEF Contract!ComeUp, Accepted, Unread, Running
    <2>9. CASE \E w \in Workers : ThreadInit(w) /\ ~Ready /\ Ready' = TRUE
      BY <2>8, <2>9 DEF Contract!Next
    <2>10. CASE Ready' = Ready
      BY <2>1, <2>3, <2>4, <2>5, <2>6, <2>7, <2>10
         DEF Next, EnvironmentStep, MainStep, WorkerStep, Terminated, Contract!Next
    <2> QED
      BY <2>0, <2>9, <2>10
  <1>3. (IndInv => AcceptedLinesAnswered)'
    BY Drained, PTL
  <1> QED
    BY <1>1, <1>2, <1>3, Inductive, PTL DEF Spec, ImplementsContract, Contract!Spec
=============================================================================
