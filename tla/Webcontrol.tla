----------------------------- MODULE Webcontrol -----------------------------
(***************************************************************************)
(* src/core/main.c: the main thread with its libev event loop, the worker   *)
(* threads, and the two queues between them.                                *)
(*                                                                          *)
(*   Squid --stdin--> main --job_queue--> workers --stdout--> Squid         *)
(*                    main <--thread_signal_queue, ev_async-- workers       *)
(*                                                                          *)
(* A request is a whole line; how lines are cut out of the bytes of stdin is *)
(* the subject of StdinReader.  The queues are used through the two atomic  *)
(* actions of BoundedQueue, which PthreadQueue is proved to implement.  A    *)
(* queue operation blocks exactly where the code does: its action is not    *)
(* enabled.                                                                 *)
(***************************************************************************)
EXTENDS Naturals, Sequences, FiniteSets

CONSTANTS
  NumThreads,      \* -t: num_threads
  JobCapacity,     \* slots of job_queue_buffer (256 in webcontrol.h)
  SignalCapacity,  \* slots of thread_signal_queue_buffer (8 in webcontrol.h)
  Lines,           \* the request lines Squid may send, each at most once
  ValidLines,      \* those whose address field inet_pton accepts
  MayFail,         \* the workers whose thread_init hooks may fail
  NULL             \* the NULL pointer: in the job queue, terminate a thread

ASSUME WebcontrolAssumption ==
  /\ NumThreads \in Nat
  /\ JobCapacity \in Nat \ {0}
  /\ SignalCapacity \in Nat \ {0}
  /\ ValidLines \subseteq Lines
  /\ MayFail \subseteq 1 .. NumThreads
  /\ NULL \notin Lines

Workers == 1 .. NumThreads

VARIABLES
  (* what Squid and the operating system see *)
  stdin,        \* lines written to the pipe and not yet read
  sent,         \* every line Squid has written
  eof,          \* Squid has closed its end of the pipe
  replies,      \* the lines answered on stdout, in the order of the answers
  (* libev *)
  sig,          \* SIGINT or SIGTERM has arrived and was not yet polled
  asyncSent,    \* ev_async's flag: set by every ev_async_send, a flag, no count
  pending,      \* the watchers whose callbacks this iteration will invoke
  stdinWatched, \* ev_stdin_watcher is active
  loop_done,    \* ev_unloop has been called
  (* webcontrol_core_ctx *)
  job_queue,
  thread_signal_queue,
  active_workers,
  (* the main thread *)
  mpc,          \* where it is
  mi,           \* the index i of main's loops over the threads
  chunk,        \* the lines of readbuf that are not enqueued yet
  remainder,    \* the chunk did not end with a newline
  (* the worker threads *)
  wpc,          \* where each is
  line,         \* the line each works on
  post          \* the post_handle_request hooks will be called

environment == <<stdin, sent, eof>>
libev       == <<sig, asyncSent, pending, stdinWatched, loop_done>>
main        == <<mpc, mi, chunk, remainder>>
workers     == <<wpc, line, post>>
vars == <<environment, replies, libev, job_queue, thread_signal_queue,
          active_workers, main, workers>>

\* The queues of webcontrol_core_ctx.
Jobs == INSTANCE BoundedQueue
          WITH queue <- job_queue, Values <- Lines \cup {NULL}, Capacity <- JobCapacity
Signals == INSTANCE BoundedQueue
          WITH queue <- thread_signal_queue, Values <- Workers, Capacity <- SignalCapacity

(* Where the main thread can be:                                           *)
(*   create   pthread_create of worker mi is next                          *)
(*   loop     in ev_loop, between two callbacks                            *)
(*   read     in stdin_read_cb, about to read                              *)
(*   enqueue  in stdin_read_cb, enqueueing the lines of the chunk          *)
(*   cancel   after ev_loop, enqueueing the NULL for worker mi             *)
(*   join     in pthread_join of worker mi                                 *)
(*   unload   the workers are joined; plugins are freed and unloaded       *)
(*   exited   main has freed the context and returned                      *)
MainPlaces == {"create", "loop", "read", "enqueue", "cancel", "join", "unload", "exited"}

(* Where a worker can be:                                                  *)
(*   none     not created yet                                              *)
(*   init     calling the thread_init hooks                                *)
(*   dequeue  in queue_dequeue(job_queue)                                  *)
(*   handle   has a line, about to parse it and call handle_request        *)
(*   respond  has a decision, about to write the response                  *)
(*   post     has answered, calling the post_handle_request hooks          *)
(*   end      at the label endrequest                                      *)
(*   signal   at the label terminate, about to enqueue WORKER_TERMINATE    *)
(*   notify   about to call ev_async_send                                  *)
(*   cleanup  calling the thread_free hooks                                *)
(*   exited   pthread_exit                                                 *)
WorkerPlaces ==
  {"none", "init", "dequeue", "handle", "respond", "post", "end",
   "signal", "notify", "cleanup", "exited"}

\* main.c:536-629: the context is set up and the watchers are started.
Init ==
  /\ stdin = << >> /\ sent = {} /\ eof = FALSE
  /\ replies = << >>
  /\ sig = FALSE /\ asyncSent = FALSE /\ pending = {}
  /\ stdinWatched = TRUE /\ loop_done = FALSE
  /\ Jobs!Init /\ Signals!Init
  /\ active_workers = 0
  /\ mpc = "create" /\ mi = 1
  /\ chunk = << >> /\ remainder = FALSE
  /\ wpc = [w \in Workers |-> "none"]
  /\ line = [w \in Workers |-> NULL]
  /\ post = [w \in Workers |-> FALSE]

-----------------------------------------------------------------------------
(* Squid and the operating system *)

SquidSends(l) ==
  /\ mpc # "exited" /\ ~eof /\ l \notin sent
  /\ stdin' = Append(stdin, l)
  /\ sent' = sent \cup {l}
  /\ UNCHANGED <<eof, replies, libev, job_queue, thread_signal_queue,
                 active_workers, main, workers>>

SquidCloses ==
  /\ mpc # "exited" /\ ~eof
  /\ eof' = TRUE
  /\ UNCHANGED <<stdin, sent, replies, libev, job_queue, thread_signal_queue,
                 active_workers, main, workers>>

\* SIGINT or SIGTERM: libev's handler only notes it.
SignalArrives ==
  /\ mpc # "exited" /\ ~sig
  /\ sig' = TRUE
  /\ UNCHANGED <<environment, replies, asyncSent, pending, stdinWatched, loop_done,
                 job_queue, thread_signal_queue, active_workers, main, workers>>

-----------------------------------------------------------------------------
(* The main thread: start, and the event loop *)

CreateWorker ==
  /\ mpc = "create" /\ mi <= NumThreads
  /\ wpc' = [wpc EXCEPT ![mi] = "init"]
  /\ mi' = mi + 1
  /\ UNCHANGED <<environment, replies, libev, job_queue, thread_signal_queue,
                 active_workers, mpc, chunk, remainder, line, post>>

\* Mutant: the number of workers is never recorded.
EnterLoop_NoCount ==
  /\ mpc = "create" /\ mi > NumThreads
  /\ mpc' = "loop"
  /\ UNCHANGED <<environment, replies, libev, job_queue, thread_signal_queue,
                 active_workers, mi, chunk, remainder, workers>>

EnterLoop ==
  /\ mpc = "create" /\ mi > NumThreads
  /\ active_workers' = NumThreads
  /\ mpc' = "loop"
  /\ UNCHANGED <<environment, replies, libev, job_queue, thread_signal_queue,
                 mi, chunk, remainder, workers>>

\* One poll of libev: it sees descriptors that are readable, stdin and the pipe
\* through which signals and ev_async_send wake it.  Reading that pipe turns
\* every flag that is set into ONE pending callback and clears the flag.
ReadableFds ==
  {fd \in {"stdin", "evpipe"} :
     \/ fd = "stdin" /\ stdinWatched /\ (stdin # << >> \/ eof)
     \/ fd = "evpipe" /\ (sig \/ asyncSent)}

EvPoll ==
  /\ mpc = "loop" /\ pending = {} /\ ~loop_done
  /\ \E fds \in SUBSET ReadableFds :
       /\ fds # {}
       /\ pending' = {w \in {"stdin", "signal", "async"} :
                        \/ w = "stdin" /\ "stdin" \in fds
                        \/ w = "signal" /\ "evpipe" \in fds /\ sig
                        \/ w = "async" /\ "evpipe" \in fds /\ asyncSent}
       /\ sig' = (sig /\ "evpipe" \notin fds)
       /\ asyncSent' = (asyncSent /\ "evpipe" \notin fds)
  /\ UNCHANGED <<environment, replies, stdinWatched, loop_done, job_queue,
                 thread_signal_queue, active_workers, main, workers>>

\* libev invokes a pending callback.
Invoke(w) ==
  /\ mpc = "loop" /\ w \in pending
  /\ pending' = pending \ {w}

\* Mutant: the callback forgets ev_unloop.
sigint_cb_NoUnloop ==
  /\ Invoke("signal")
  /\ UNCHANGED <<environment, replies, sig, asyncSent, stdinWatched, loop_done, job_queue,
                 thread_signal_queue, active_workers, main, workers>>

sigint_cb ==
  /\ Invoke("signal")
  /\ loop_done' = TRUE
  /\ UNCHANGED <<environment, replies, sig, asyncSent, stdinWatched, job_queue,
                 thread_signal_queue, active_workers, main, workers>>

\* Mutant: the callback takes every message there is, the later callbacks of
\* which then find none.
thread_sig_cb_TakesAll ==
  /\ Invoke("async")
  /\ thread_signal_queue' = << >>
  /\ active_workers' = active_workers - Len(thread_signal_queue)
  /\ loop_done' = (loop_done \/ active_workers' = 0)
  /\ UNCHANGED <<environment, replies, sig, asyncSent, stdinWatched, job_queue,
                 main, workers>>

\* One message per callback; queue_dequeue would block on an empty queue.
thread_sig_cb ==
  /\ Invoke("async")
  /\ \E w \in Workers : Signals!Dequeue(w)
  /\ active_workers' = active_workers - 1
  /\ loop_done' = (loop_done \/ active_workers' = 0)
  /\ UNCHANGED <<environment, replies, sig, asyncSent, stdinWatched, job_queue,
                 main, workers>>

\* ev_unloop takes effect when the callbacks of the iteration are done.
LeaveLoop ==
  /\ mpc = "loop" /\ pending = {} /\ loop_done
  /\ mpc' = "cancel" /\ mi' = 1
  /\ UNCHANGED <<environment, replies, libev, job_queue, thread_signal_queue,
                 active_workers, chunk, remainder, workers>>

-----------------------------------------------------------------------------
(* The main thread: stdin_read_cb *)

StdinReadable ==
  /\ Invoke("stdin")
  /\ mpc' = "read"
  /\ UNCHANGED <<environment, replies, sig, asyncSent, stdinWatched, loop_done,
                 job_queue, thread_signal_queue, active_workers, mi, chunk,
                 remainder, workers>>

\* bytes > 0: some lines, and perhaps the beginning of one more.  (A read that
\* ends no line only extends tmp_line_buf and goes on to the next read.)
ReadChunk ==
  /\ mpc = "read" /\ stdin # << >>
  /\ \E n \in 1 .. Len(stdin) :
       /\ chunk' = SubSeq(stdin, 1, n)
       /\ stdin' = SubSeq(stdin, n + 1, Len(stdin))
  /\ remainder' \in BOOLEAN
  /\ mpc' = "enqueue"
  /\ UNCHANGED <<sent, eof, replies, libev, job_queue, thread_signal_queue,
                 active_workers, mi, workers>>

\* Mutant: a full queue does not block.
EnqueueLine_NoBlock ==
  /\ mpc = "enqueue"
  /\ job_queue' = Append(job_queue, Head(chunk))
  /\ chunk' = Tail(chunk)
  /\ mpc' = IF chunk' # << >> THEN "enqueue" ELSE IF remainder THEN "read" ELSE "loop"
  /\ UNCHANGED <<environment, replies, libev, thread_signal_queue, active_workers,
                 mi, remainder, workers>>

\* Blocks the event loop while the job queue is full.  After the last line the
\* callback reads again if there was a remainder, and returns if there was none.
EnqueueLine ==
  /\ mpc = "enqueue"
  /\ Jobs!Enqueue(Head(chunk))
  /\ chunk' = Tail(chunk)
  /\ mpc' = IF chunk' # << >> THEN "enqueue" ELSE IF remainder THEN "read" ELSE "loop"
  /\ UNCHANGED <<environment, replies, libev, thread_signal_queue, active_workers,
                 mi, remainder, workers>>

\* Mutant: EAGAIN stops the watcher, as the commented-out call of main.c:135 would.
ReadAgainLater_StopsWatching ==
  /\ mpc = "read" /\ stdin = << >> /\ ~eof
  /\ stdinWatched' = FALSE
  /\ mpc' = "loop"
  /\ UNCHANGED <<environment, replies, sig, asyncSent, pending, loop_done, job_queue,
                 thread_signal_queue, active_workers, mi, chunk, remainder, workers>>

\* bytes < 0: EAGAIN.
ReadAgainLater ==
  /\ mpc = "read" /\ stdin = << >> /\ ~eof
  /\ mpc' = "loop"
  /\ UNCHANGED <<environment, replies, libev, job_queue, thread_signal_queue,
                 active_workers, mi, chunk, remainder, workers>>

\* bytes == 0: the watcher is stopped, nothing else; the program runs on.
ReadEof ==
  /\ mpc = "read" /\ stdin = << >> /\ eof
  /\ stdinWatched' = FALSE
  /\ mpc' = "loop"
  /\ UNCHANGED <<environment, replies, sig, asyncSent, pending, loop_done, job_queue,
                 thread_signal_queue, active_workers, mi, chunk, remainder, workers>>

-----------------------------------------------------------------------------
(* The main thread: after the event loop *)

\* Mutant: the NULLs overtake the lines.
CancelWorker_InFront ==
  /\ mpc = "cancel" /\ mi <= NumThreads
  /\ Len(job_queue) < JobCapacity
  /\ job_queue' = <<NULL>> \o job_queue
  /\ mi' = mi + 1
  /\ UNCHANGED <<environment, replies, libev, thread_signal_queue, active_workers,
                 mpc, chunk, remainder, workers>>

\* One NULL for every thread; blocks while the job queue is full.
CancelWorker ==
  /\ mpc = "cancel" /\ mi <= NumThreads
  /\ Jobs!Enqueue(NULL)
  /\ mi' = mi + 1
  /\ UNCHANGED <<environment, replies, libev, thread_signal_queue, active_workers,
                 mpc, chunk, remainder, workers>>

\* Mutant: the last worker is sent no NULL.
StartJoining_OneShort ==
  /\ mpc = "cancel" /\ mi >= NumThreads
  /\ mpc' = "join" /\ mi' = 1
  /\ UNCHANGED <<environment, replies, libev, job_queue, thread_signal_queue,
                 active_workers, chunk, remainder, workers>>

StartJoining ==
  /\ mpc = "cancel" /\ mi > NumThreads
  /\ mpc' = "join" /\ mi' = 1
  /\ UNCHANGED <<environment, replies, libev, job_queue, thread_signal_queue,
                 active_workers, chunk, remainder, workers>>

\* Mutant: the join does not wait.
JoinWorker_NoWait ==
  /\ mpc = "join" /\ mi <= NumThreads
  /\ mi' = mi + 1
  /\ UNCHANGED <<environment, replies, libev, job_queue, thread_signal_queue,
                 active_workers, mpc, chunk, remainder, workers>>

\* pthread_join waits for the thread's pthread_exit.
JoinWorker ==
  /\ mpc = "join" /\ mi <= NumThreads
  /\ wpc[mi] = "exited"
  /\ mi' = mi + 1
  /\ UNCHANGED <<environment, replies, libev, job_queue, thread_signal_queue,
                 active_workers, mpc, chunk, remainder, workers>>

UnloadPlugins ==
  /\ mpc = "join" /\ mi > NumThreads
  /\ mpc' = "unload"
  /\ UNCHANGED <<environment, replies, libev, job_queue, thread_signal_queue,
                 active_workers, mi, chunk, remainder, workers>>

Return ==
  /\ mpc = "unload"
  /\ mpc' = "exited"
  /\ UNCHANGED <<environment, replies, libev, job_queue, thread_signal_queue,
                 active_workers, mi, chunk, remainder, workers>>

-----------------------------------------------------------------------------
(* A worker thread *)

Goto(w, place) == wpc' = [wpc EXCEPT ![w] = place]

\* The thread_init hooks in turn; the first that fails terminates the thread.
ThreadInit(w) ==
  /\ wpc[w] = "init"
  /\ \/ Goto(w, "dequeue")
     \/ w \in MayFail /\ Goto(w, "signal")
  /\ UNCHANGED <<environment, replies, libev, job_queue, thread_signal_queue,
                 active_workers, main, line, post>>

DequeueJob(w) ==
  /\ wpc[w] = "dequeue"
  /\ \E job \in Lines \cup {NULL} :
       /\ Jobs!Dequeue(job)
       /\ line' = [line EXCEPT ![w] = job]
       /\ Goto(w, IF job = NULL THEN "signal" ELSE "handle")
  /\ UNCHANGED <<environment, replies, libev, thread_signal_queue, active_workers,
                 main, post>>

\* Mutant: the goto endrequest is missing.
RespondInvalid_FallsThrough(w) ==
  /\ wpc[w] = "handle" /\ line[w] \notin ValidLines
  /\ replies' = Append(replies, line[w])
  /\ Goto(w, "respond")
  /\ UNCHANGED <<environment, libev, job_queue, thread_signal_queue, active_workers,
                 main, line, post>>

\* No valid address: answered at once, under stdout_lock, which is held for
\* this one write only.
RespondInvalid(w) ==
  /\ wpc[w] = "handle" /\ line[w] \notin ValidLines
  /\ replies' = Append(replies, line[w])
  /\ Goto(w, "end")
  /\ UNCHANGED <<environment, libev, job_queue, thread_signal_queue, active_workers,
                 main, line, post>>

\* The handle_request hooks decide.  The post_handle_request hooks are left out
\* when no hook allowed or denied, or when one set skip_post_handle_request.
HandleRequest(w) ==
  /\ wpc[w] = "handle" /\ line[w] \in ValidLines
  /\ \E decided, skip \in BOOLEAN : post' = [post EXCEPT ![w] = decided /\ ~skip]
  /\ Goto(w, "respond")
  /\ UNCHANGED <<environment, replies, libev, job_queue, thread_signal_queue,
                 active_workers, main, line>>

\* send_response: one fprintf, which stdio makes atomic.
Respond(w) ==
  /\ wpc[w] = "respond"
  /\ replies' = Append(replies, line[w])
  /\ Goto(w, IF post[w] THEN "post" ELSE "end")
  /\ UNCHANGED <<environment, libev, job_queue, thread_signal_queue, active_workers,
                 main, line, post>>

PostHandleRequest(w) ==
  /\ wpc[w] = "post"
  /\ Goto(w, "end")
  /\ UNCHANGED <<environment, replies, libev, job_queue, thread_signal_queue,
                 active_workers, main, line, post>>

\* endrequest: free(req); buffer_free(line).
EndRequest(w) ==
  /\ wpc[w] = "end"
  /\ line' = [line EXCEPT ![w] = NULL]
  /\ post' = [post EXCEPT ![w] = FALSE]
  /\ Goto(w, "dequeue")
  /\ UNCHANGED <<environment, replies, libev, job_queue, thread_signal_queue,
                 active_workers, main>>

\* terminate: blocks while the signal queue is full.
SignalTermination(w) ==
  /\ wpc[w] = "signal"
  /\ Signals!Enqueue(w)
  /\ Goto(w, "notify")
  /\ UNCHANGED <<environment, replies, libev, job_queue, active_workers, main,
                 line, post>>

\* ev_async_send
NotifyLoop(w) ==
  /\ wpc[w] = "notify"
  /\ asyncSent' = TRUE
  /\ Goto(w, "cleanup")
  /\ UNCHANGED <<environment, replies, sig, pending, stdinWatched, loop_done, job_queue,
                 thread_signal_queue, active_workers, main, line, post>>

\* The thread_free hooks, then pthread_exit.
ThreadExit(w) ==
  /\ wpc[w] = "cleanup"
  /\ Goto(w, "exited")
  /\ UNCHANGED <<environment, replies, libev, job_queue, thread_signal_queue,
                 active_workers, main, line, post>>

-----------------------------------------------------------------------------
EnvironmentStep == SquidCloses \/ SignalArrives \/ \E l \in Lines : SquidSends(l)

MainStep ==
  \/ CreateWorker \/ EnterLoop \/ EvPoll \/ LeaveLoop
  \/ sigint_cb \/ thread_sig_cb \/ StdinReadable
  \/ ReadChunk \/ EnqueueLine \/ ReadAgainLater \/ ReadEof
  \/ CancelWorker \/ StartJoining \/ JoinWorker \/ UnloadPlugins \/ Return

WorkerStep(w) ==
  \/ ThreadInit(w) \/ DequeueJob(w) \/ RespondInvalid(w) \/ HandleRequest(w)
  \/ Respond(w) \/ PostHandleRequest(w) \/ EndRequest(w)
  \/ SignalTermination(w) \/ NotifyLoop(w) \/ ThreadExit(w)

\* Nothing is left to do once main has returned.
Terminated == mpc = "exited" /\ UNCHANGED vars

Next == EnvironmentStep \/ MainStep \/ (\E w \in Workers : WorkerStep(w)) \/ Terminated

Spec == Init /\ [][Next]_vars

(* Every thread that can run is run, and a hook returns.  Squid owes the   *)
(* program nothing, and no signal need ever arrive.                        *)
Fairness == WF_vars(MainStep) /\ \A w \in Workers : WF_vars(WorkerStep(w))

FairSpec == Spec /\ Fairness

-----------------------------------------------------------------------------
(* Properties *)

TypeOK ==
  /\ stdin \in Seq(Lines) /\ sent \subseteq Lines /\ eof \in BOOLEAN
  /\ replies \in Seq(Lines)
  /\ sig \in BOOLEAN /\ asyncSent \in BOOLEAN
  /\ pending \subseteq {"stdin", "signal", "async"}
  /\ stdinWatched \in BOOLEAN /\ loop_done \in BOOLEAN
  /\ job_queue \in Seq(Lines \cup {NULL}) /\ Len(job_queue) <= JobCapacity
  /\ thread_signal_queue \in Seq(Workers) /\ Len(thread_signal_queue) <= SignalCapacity
  /\ active_workers \in 0 .. NumThreads
  /\ mpc \in MainPlaces /\ mi \in 1 .. NumThreads + 1
  /\ chunk \in Seq(Lines) /\ remainder \in BOOLEAN
  /\ mpc = "enqueue" => chunk # << >>
  /\ wpc \in [Workers -> WorkerPlaces]
  /\ line \in [Workers -> Lines \cup {NULL}]
  /\ post \in [Workers -> BOOLEAN]

\* How often a value occurs in a sequence.
Occurrences(x, seq) == Cardinality({k \in DOMAIN seq : seq[k] = x})

\* The workers that hold line l and have not answered it.
Holding(l) == {w \in Workers : line[w] = l /\ wpc[w] \in {"handle", "respond"}}

\* No request is lost, taken twice or answered twice, whatever the
\* interleaving of the event loop and the workers: a line that was sent is in
\* exactly one place between the pipe and its answer (main.c:100, 237, 279,
\* 315-322).
EachLineOnce ==
  \A l \in Lines :
    Occurrences(l, stdin) + Occurrences(l, chunk) + Occurrences(l, job_queue)
      + Cardinality(Holding(l)) + Occurrences(l, replies)
      = IF l \in sent THEN 1 ELSE 0

\* A shutdown drains the queue: the NULLs queue up behind the lines, so when
\* main frees the context (main.c:670-703) every line that was read has been
\* answered.  One worker that came up, and has taken its NULL, is enough, whatever
\* became of the others.
AcceptedLinesAnswered ==
  mpc \in {"unload", "exited"} /\ Occurrences(NULL, job_queue) < NumThreads
    => \A l \in sent : Occurrences(l, stdin) + Occurrences(l, replies) = 1

\* The event loop never blocks in thread_sig_cb (main.c:390): although
\* ev_async_send coalesces, no callback runs without a message to take.
SignalCallbackNeverBlocks == "async" \in pending => thread_signal_queue # << >>

\* The program knows how many workers are left (main.c:402, 640): the ones that
\* have not yet said that they terminate, and those whose message is waiting.
Alive == {w \in Workers : wpc[w] \notin {"notify", "cleanup", "exited"}}
ActiveWorkersCounted ==
  mpc \notin {"create"} => active_workers = Cardinality(Alive) + Len(thread_signal_queue)

\* Nobody runs plugin code, or touches the context, once main has begun to
\* unload the plugins and free it (main.c:663-703).
NoUseAfterFree == mpc \in {"unload", "exited"} => \A w \in Workers : wpc[w] = "exited"

\* A worker that is not waiting for a queue.
CanStep(w) ==
  \/ wpc[w] \in {"init", "handle", "respond", "post", "end", "notify", "cleanup"}
  \/ wpc[w] = "dequeue" /\ job_queue # << >>
  \/ wpc[w] = "signal" /\ Len(thread_signal_queue) < SignalCapacity

\* Room for every message, and for the NULLs that dead workers leave; a worker
\* that comes up.
EnoughRoom ==
  /\ NumThreads <= SignalCapacity
  /\ Cardinality(MayFail) <= JobCapacity
  /\ MayFail # Workers

\* Main never waits for workers that wait for main: while it is blocked on the
\* full job queue some worker can go on, and while it joins a worker that worker
\* can, although nobody takes messages from the signal queue any more and dead
\* workers leave their NULLs in the job queue (main.c:100, 357, 652-660).
NoStandstill ==
  EnoughRoom =>
    /\ mpc = "enqueue" \/ (mpc = "cancel" /\ mi <= NumThreads)
         => Len(job_queue) < JobCapacity \/ \E w \in Workers : CanStep(w)
    /\ mpc = "join" /\ mi <= NumThreads => wpc[mi] = "exited" \/ CanStep(mi)

\* How many NULLs main has enqueued.
NullsSent == CASE mpc = "cancel"                       -> mi - 1
               [] mpc \in {"join", "unload", "exited"} -> NumThreads
               [] OTHER                                -> 0

\* The workers whose thread_init hooks have all succeeded and that have not taken
\* their NULL; a worker has come up once there is one, or a NULL was taken.
Up == {w \in Workers : wpc[w] \in {"dequeue", "handle", "respond", "post", "end"}}
Ready == Up # {} \/ Occurrences(NULL, job_queue) < NullsSent

\* What Squid sees of the program.
Contract == INSTANCE HelperContract
              WITH accepted <- sent \ {stdin[k] : k \in DOMAIN stdin},
                   ready <- Ready,
                   running <- mpc \notin {"unload", "exited"}

\* To Squid the threads are one helper that answers every line it reads, once:
\* when the program ends, no line that was read is without an answer, unless no
\* worker ever came up (main.c:224-231, 652-667).
ImplementsContract == Contract!Spec

\* A line that reached stdin is answered, unless the program is told to stop:
\* no read, no full queue and no worker that died loses it or gets stuck
\* (main.c:59-142, 235-344).
Answered(l) == Occurrences(l, replies) > 0
LinesGetAnswered == \A l \in Lines : l \in sent ~> (Answered(l) \/ loop_done)

\* A signal shuts the program down completely: the callback ends the loop, the
\* queue is drained, every thread is joined (main.c:381, 652-667).
ShutdownCompletes == sig ~> mpc = "exited"

\* "If we get a null pointer, terminate this thread" (main.c:239): a thread at
\* its terminate label exits.
TerminatingThreadExits == \A w \in Workers : wpc[w] = "signal" ~> wpc[w] = "exited"

\* "All workers died. Shutting down." (main.c:404): when every worker has
\* terminated, the event loop is left.
AllDeadShutsDown == (\A w \in Workers : wpc[w] = "exited") ~> mpc \notin {"create", "loop"}
=============================================================================
