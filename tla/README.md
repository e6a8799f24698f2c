# A TLA+ verification of squidHelper

squidHelper (`webcontrol_helper`) is an external ACL helper for the Squid proxy.
Squid writes request lines (`<channel> <address>`) to its stdin; worker threads
ask pluggable backends whether the address may use the internet and write
`<channel> OK` or `<channel> ERR` to stdout. This directory models the program
from its C source, checks the models with TLC and proves with TLAPS all but one of
the safety properties that the runs check. Line numbers below are those of the
files under `src/` of the repository.

## 1. The system

| part | state | operations | interacts with |
|---|---|---|---|
| queues (`thirdparty/c-pthread-queue/queue.c`) | ring of slots, `size`, `in`, `out`, a mutex, two condition variables | `queue_enqueue`, `queue_dequeue` (`queue_size` is never called) | main thread and workers, both directions |
| main thread, event loop (`core/main.c`) | `webcontrol_core_ctx`: watchers, queues, `active_workers` | start-up, `stdin_read_cb`, `sigint_cb`, `thread_sig_cb`, shut-down | Squid (stdin), workers (job queue; signal queue and `ev_async`), signals |
| worker threads (`core/main.c`, `worker`) | the current line and request | `thread_init` hooks, dequeue, parse, `handle_request` hooks, answer, `post_handle_request` hooks, terminate | queues, backends, Squid (stdout) |
| stdin reader (`stdin_read_cb`) | `readbuf`, `line_start`, the remainder in `tmp_line_buf` | read a chunk, cut lines, keep the remainder | job queue, string buffer |
| string buffer (`core/webcontrol_buffer.c`) | `ptr`, `len`, `capacity` | init, copy, append, reset, free | stdin reader, plugin loader, AD backend |
| txtfile backend | list of hosts under a mutex, `ev_stat` watcher | load, reload on change, search, free | event loop (reload), workers (search) |
| memcached backend | one connection per thread | look up, store after the answer | workers |
| activedirectory backend | one LDAP connection per thread | reverse DNS, LDAP search | workers |
| plugin loader, configuration | array of plugins with their hooks; options | load, parse, unload | all of the above |

What is hard here: several threads share two blocking queues, one of which can
block the event loop itself; the broadcast of a condition follows the unlock;
`ev_async` notifications coalesce; requests are cut at any byte by `read`; a
reload of the host list races searches and further changes; shutting down uses
the same queue as the requests; threads may die at start. `PROJECT.json` lists
these hazards at their lines.

What makes each part correct:

* queue: an atomic bounded FIFO, no lost wake-up, calls get through;
* main and workers: every line is answered exactly once, a shut-down answers
  what was accepted, joins every thread before it frees anything and always
  ends, the event loop never blocks on its own notifications;
* stdin reader: the requests are the lines of the stream, none lost and none torn,
  however it is cut;
* string buffer: no write outside the allocation, and the memory holds the text;
* txtfile: a search sees one version of the file, never freed memory, and a
  change gets through;
* request chain: the first decision counts, and only decisions are cached;
* plugins and configuration: nobody runs the code or uses the data of a plugin
  that is not there, no worker serves without its connections, libraries are
  closed again, a connection stays open only where a hook failed or a plugin is
  named twice, and the table of options does not overflow.

## 2. The modules

| module | models | TLC instance |
|---|---|---|
| `BoundedQueue` | what the queue promises: two atomic actions | (through the others) |
| `PthreadQueue` | `queue.c`, lock by lock | `MCPthreadQueue` |
| `Webcontrol` | `main.c`: main thread, event loop, workers, both queues | `MCWebcontrol` |
| `HelperContract` | what the helper promises Squid: five atomic actions | (through `Webcontrol`) |
| `StdinReader` | `stdin_read_cb`, byte by byte | `MCStdinReader` |
| `Buffer` | `webcontrol_buffer.c` with explicit memory | `MCBuffer` |
| `TxtFile` | `webcontrol_txtfile.c` | `MCTxtFile` |
| `RequestChain` | a request over the hooks of `webcontrol_memcached.c` and `webcontrol_activedirectory.c`, with the DNS look-up of `webcontrol_netutil.c` | `MCRequestChain` |
| `PluginLifecycle` | `webcontrol_plugin.c`, `init_config`, and the plugins' hooks for start and end | `MCPluginLifecycle` |
| `PthreadQueueProofs`, `WebcontrolProofs`, `StdinReaderProofs`, `BufferProofs`, `TxtFileProofs`, `RequestChainProofs`, `PluginLifecycleProofs` | theorems about the module of that name | |

**PthreadQueue.** One action per step another thread can see: `Lock`, the test of
the while loop (`WaitWhile`, which sleeps and gives up the mutex in one step, as
POSIX says), `Relock`, the slot and `size` (`EnqueuePut`, `DequeueTake`), the
index and the unlock (`EnqueueAdvance`, `DequeueAdvance`), and the broadcast after
the unlock. `SpuriousWakeup` is what POSIX allows. Fresh slots hold arbitrary
values. `Contents` reads the abstract queue off the ring: between the change of
`size` and that of `out` the first slot is already the next one.

**Webcontrol.** The queues are `Jobs` and `Signals`, two instances of
`BoundedQueue`, which `PthreadQueue` is proved to implement. A blocked call is an
action that is not enabled. libev is external: `EvPoll` turns the flags that are
set (`sig`, `asyncSent`) and a readable stdin into pending callbacks, each flag
into one callback; a poll may see only some of what is ready. Callbacks run in
any order; `ev_unloop` takes effect after them. A line is an atom;
`ReadChunk` takes any number of lines that have arrived and says whether a
remainder follows. What the hooks decide is left open. `MayFail` are the workers
whose `thread_init` hooks may fail. One watcher object serves SIGINT and SIGTERM,
so there is one signal flag. An answer is one step: each is a single `fprintf`,
and stdio locks the stream. `pthread_create` is assumed to succeed. The reload of
a host list by the same event loop is in `TxtFile`.

**HelperContract.** The program as Squid sees it, with no threads, queues and
watchers: lines are sent, read in any number at a time, and answered in any order,
each that was read once. `ready` says that a worker has come up: only a helper that
is ready answers, and it stops only when it has answered all it has read; one that
never was ready stops with what it has read unanswered. `Webcontrol` implements it
under the mapping `Contract`: accepted is what was sent and is not in the pipe any
more, `ready` is that a worker has passed its `thread_init` hooks, now or in the past
(`Ready`), and the helper has stopped once main has joined the workers. The contract
is about safety; that lines do get answered is `LinesGetAnswered`.

**StdinReader.** One action per iteration of the scanning loop. `line_start = ++i`
followed by the loop's own `++i` skips the test of the byte after a newline
(`i' = i + 2`). That matters for empty lines. An empty line whose newline is tested
is delivered on its own, as a request the worker finds invalid and answers; one
whose newline is not tested is delivered in front of the next line, where the
worker's `sscanf` skips it. Which of the two it is depends on where `read` has cut the
stream. `RequestsAreLines` counts empty lines in both forms: none is lost, and
nothing else depends on the cut. The input is chosen first and read in pieces of any
size; a `NUL` is never sent. EAGAIN changes nothing and is left out here (it is in
`Webcontrol`).

**Buffer.** `ptr` maps the allocated offsets to bytes and fresh bytes are `Junk`;
`reach` is one past the last byte an operation has written. `text` is what the
caller has put in and is only used by the properties. `malloc` succeeds (the code
asserts it). Null arguments are not passed. `assemble_filter` is the one place
outside `webcontrol_buffer.c` that writes into a buffer: activedirectory has room
made for its filter without the terminator and lets `sprintf` write both, on the
condition that the configured filter has one `%s`.

**TxtFile.** `entry_chain` is written with the list's head at its end, so that an
entry's position is a stable pointer and a position beyond the end is a freed one.
`changed` says that the watched file differs from what `ev_stat` saw last. A file
is replaced as a whole, as editors and `rename` do; a reader keeps the version it
has opened. Two lines of the code meet in `ParseConfig`: the watcher was started
with the string that held the default name, and the option parser frees that
string when the configuration names a file; what the watcher looks at from then on
is a choice between the old name, the new one and neither. Every line has a word
after its address, as the format in the repository's README demands.

**RequestChain.** The second half of the worker's loop, from a valid address to
`endrequest`, which `Webcontrol` abstracts to "some answer". One action per call
that returns, so that an address can go to another host, the directory can change
and the cache can lose an entry between any two; activedirectory makes two calls,
for the name of the host and for its attribute. Every failure of a library is a
hook that says go on, or a store that does nothing. Both orders of the two plugins
occur. `owners` and `said` remember which hosts an address has had and what the
directory has said about each, `looked` what a worker has read for its request;
they serve the properties. Entries do not expire (`memcached_set` is called with
time 0), and a worker may store what it read before a change: the cache can be
outdated for ever, and no property claims otherwise. `CacheSettles` says what does
hold, that dropping an outdated entry is a remedy, provided that no worker still
holds an outdated name or look-up. The attribute is an LDAP boolean, TRUE or
FALSE (`ChainAssumption`).

**PluginLifecycle.** `plugin_load` either succeeds, with the plugin's init function
run, or fails, with the library closed again; between dlopen and dlclose there is
only main's thread, so a failure is one step that changes nothing. `mapped` counts
what dlopen holds, `data` follows each plugin's memory from raw over ready (the `config_file_parsed`
hook has run) to gone. `init_config` fills a table that grows by blocks. libconfuse
is external: it reads the file, rejects it (which a section of a plugin that did
not load is enough for) or finds no file; an option that is not in the file keeps
what its variable held. strcmp with NULL ends the program. A worker calls the
`thread_init` hooks in order; `conn` says what each hook it has called left behind: a
connection stored under the thread's key, one that is lost, or one closed by the
key's destructor in `pthread_exit`. While a worker serves it may be in any hook
of any plugin; the requests themselves, the queue and how main comes to leave the
loop are in `Webcontrol`, of which this module keeps only the order.

`-p` may name a plugin several times, and `plugins_load_string` makes a plugin of each
name. They share one library, which dlopen opens once more, and its static variables:
each `plugin_init` creates the thread key anew in the same variable, before any thread
uses it, so that all plugins of a library store under the key created last. A
connection is lost when a hook fails after opening it, or when a later plugin of the
same library stores its own (`Stored`). Three data structures tell plugins and names
apart: `data` and `watching` go by the position in the array, `mapped` by the library.
`servers` is about memory of libconfuse that memcached frees
(`webcontrol_memcached.c:246`). A second memcached plugin reads and frees it again, and
`cfg_free` (`main.c:699`) frees it in any case; both are undefined, and the model lets
the program go on or be killed. The array of plugins has room for `MAX_PLUGINS`
pointers (120, `main.c:545`); the code does not test it, and `LifecycleAssumption`
keeps the lists within it.

## 3. The runs

| run | instance and bounds | checks |
|---|---|---|
| `queue` | 2 producers, 2 consumers, 2 values, 2 slots | `TypeOK`, `RingConsistent`, `NoLostWakeup`, `TestStillHolds`, `ImplementsBoundedQueue`, `DequeueReturnsOldest`, `SomeCallCompletes` |
| `helper_safety` | 3 workers that may all fail, 2 valid lines, 5 slots for jobs, 3 for messages | `AcceptedLinesAnswered`, `NoUseAfterFree`, `SignalCallbackNeverBlocks`, `ActiveWorkersCounted`, `ImplementsContract`, no deadlock |
| `helper_progress` | 2 workers (one may fail), 2 lines (one invalid), 1 slot for jobs | `TypeOK`, `EachLineOnce`, `NoStandstill`, `LinesGetAnswered`, `ShutdownCompletes`, no deadlock |
| `stdin_reader` | every input of up to 6 bytes over 2 characters and newline, reads of 1 to 4 bytes | `TypeOK`, `PendingIsInput`, `OneRequestPerLine`, `RequestsAreLines`, `LinesAreStream`, `DeliversNextLine` |
| `buffer` | strings of up to 3 characters, texts of up to 8, pieces of 3, reuse limit 6 | `WritesFit`, `TypeOK`, `HoldsText` |
| `txtfile_reload` | 2 workers, 2 addresses, 2 files with 5 possible contents each, 1 change | `TypeOK`, `SearchSeesOneFile`, `StaleIsNoticed`, `ChangesTakeEffect` |
| `request_chain` | 2 workers, 2 addresses, 2 hosts, memcached and activedirectory in both orders, 2 changes of DNS or directory | `TypeOK`, `OnlyDirectoryDecides`, `FirstDecisionCounts`, `CacheSettles`, no deadlock |
| `plugin_lifecycle` | 2 workers, every list of up to 3 names, repeated or not, blocks of 4 options, 3 of them the core's | `TypeOK`, `OptionsFit`, `HooksFindTheirPlugin`, `ConnectedWhileServing`, `LeaksAccountedFor`, `LibrariesBalanced`, no deadlock |

Why the bounds are enough to be interesting. Two threads on each side are the
fewest for which a wake-up can be taken by the wrong one, and two slots let the
indices wrap at different moments. With one job slot and two lines, or two NULLs,
the event loop and main block in `queue_enqueue`. Three dying workers let two
notifications coalesce and a third follow. When all three fail, the helper
stops without ever having been ready. Six bytes in reads of up to four hold empty
lines, newlines at both ends of a chunk and a line over three chunks. Pieces
of three and a reuse limit of two pieces reach every branch of the growth code
several times, with strings that fill a piece exactly; the proofs cover the real
64 and 256. One change of a file can fall into the middle of the first load. Two
changes let an address and its host's attribute change in one request, or a value
come back after a worker has read the one in between. A block of options that the
core leaves one slot of makes the table grow with the first plugin, as 32 would
with the twenty-ninth. Three names hold a repeated plugin with another one before,
between or behind, and the same plugin three times.

Fairness. `PthreadQueue`: a thread that can take a step of its call takes it; a
call need not be made and a wait need not end spuriously, and
`SomeCallCompletes` is about the time after spurious wake-ups. `Webcontrol`: main
and each worker run when they can, which includes that a hook returns; Squid
and signals owe nothing. `TxtFile`: the event loop (with libev's `ev_stat`) and
the searches run; no fairness of the mutex is assumed, therefore
`ChangesTakeEffect` is about the time after searches cease.

### What the code does otherwise than it says

Four runs are expected to fail; each shows a disagreement of the code with what it
or its documentation says.

* `signal_queue_full`: a worker that terminates announces it on a queue of 8
  slots that nobody empties after the event loop has ended; with more than 8
  threads the ninth blocks for ever (`main.c:357`), and main with it.
* `async_coalesced`: two notifications may arrive as one callback, which takes
  one message (`main.c:390`); "All workers died. Shutting down." then never
  happens.
* `txtfile_notwatched`: changes of the configured file need not be noticed
  (`webcontrol_txtfile.c:247`).
* `missing_config`: without a readable configuration file the program announces
  default values (`main.c:480`) and then compares a NULL `default_behavior`
  (`main.c:487`). The default file name is never used, because an array is tested
  for NULL (`main.c:550`).

The passing runs stay clear of the first two by their constants, `SignalCapacity`
being at least the number of threads, and by what they claim:
`ActiveWorkersCounted` allows for the messages still queued. They also let one
worker come up or give the NULLs room. That last condition is a limit of the code: when every worker has died and unread
lines and NULLs together exceed the 256 slots, main blocks for ever at
`main.c:658`. The double free that `servers` stands for (section 2) is no run of its
own: nothing in the repository claims that it does not happen.
`LeaksAccountedFor` says exactly which connections a thread leaves open.

## 4. The proofs

`tlapm` checks the seven proof modules; nothing is assumed but the named
assumptions on the constants, which TLC evaluates on the instances:
`QueueAssumption` (at least one slot, producers and consumers are different
threads), `WebcontrolAssumption` (the queues have slots, NULL is no line),
`ReaderAssumption` (a read asks for at least one byte; newline and NUL are two
characters that no request holds), `BufferAssumption` (a positive piece size,
strings without NUL), `TxtFileAssumption` (files are sequences of lines, the names
of threads and files differ), `ChainAssumption` (a list of plugins holds memcached
and activedirectory only) and `LifecycleAssumption` (lists hold the names of the three
plugins, repeated or not, and fit into the array of plugins; a block of options has
more slots than the core uses).

Each module has an inductive invariant `IndInv`, checked with TLC on the instance
of the runs before it was proved, and a lemma `Inductive == Spec => []IndInv`; the
theorems follow from it. `TypeOK` is cut into parts so that each proof cites what
it needs. Where a module has many actions there is one lemma per part of the
invariant, with one step for each action that changes a variable of that part;
elsewhere one lemma per action.

**PthreadQueueProofs**, for any number of threads, values and slots. The
inductive invariant is

    IndInv == TypeOK /\ MutexOwned /\ RingInv /\ TestStillHolds /\ NoLostWakeup

`MutexOwned` ties the program counters to the holder of the mutex and gives mutual
exclusion. `RingInv` says that `size` slots counted from `FirstSlot` end at
`FreeSlot` at every moment; `RingConsistent`, the property that matters to a
reader, says so only while the mutex is free and is not inductive. One lemma per
action shows that each part is kept; the facts about `%` (the next slot of a slot,
of a sum) are lemmas of their own. Theorems: `TypeCorrect`, `TestHoldsAtUse`,
`WakeupsNotLost`, `RingAgrees`; `Refinement`, that every step is a step of
`BoundedQueue` under `queue <- Contents` (a put appends, a take removes the head,
all others leave `Contents` alone); and `DequeuedIsOldest`, an action property.

**BufferProofs**, for any piece size, reuse limit and set of strings. `TypeOK`,
`WritesFit` and `HoldsText` are inductive together: the room left behind the text
is computed from `len`, which is right only because `len` is the length of the
text and its terminator. `RoundUpGrows` (rounding up always gives more than was
asked for, never the same) and `RoundUpWhole` are the arithmetic; `PrepareCopy` and
`PrepareAppend` state what the two growth functions leave, `WriteString` what
`memcpy` does, and `FilterIndInv` needs `RoundUpGrows` in full: fresh memory is larger
than what was asked for, so the filter's terminator fits. Theorems: `NoOverrun`, `ContentCorrect`, `TypeCorrect`.

**WebcontrolProofs**, for any number of workers and lines and any capacity of the
two queues. `EachLineOnce` is inductive once a worker that handles a request is
known to have its line (`HoldInv`): the number of places a line is in is a sum of
counts over three sequences, the workers and the answers, and the lemmas
`OccAppend`, `OccTail`, `OccCut` say how a step changes one of them (they speak of
cardinalities of sets of positions, so no induction over sequences is needed).
`SignalInv` is the reason why `thread_sig_cb` never blocks: every notification
that is still to be sent, is noted or has made a callback pending has a message of
its own in the queue; coalescing only makes the left side smaller. `CountInv` gives
`ActiveWorkersCounted`. `NullInv` says that NULLs are behind all lines in the job
queue, so that a NULL taken means that no line is left; with `EachLineOnce` and
`JoinInv` it gives `AcceptedLinesAnswered`. Three parts serve the two theorems on
the program as a whole. `CreatedInv` says which threads exist while main creates
them. `TakenInv` counts the NULLs from both sides: those sent but no longer in the
queue are at least the workers that left their loop and cannot have failed at start,
and at most the workers that left it (`Gone`). `ServedInv` says that nothing is
answered before a worker has come up. `Ready` itself is stable (`ReadyKept`): a worker
that is up leaves its loop only by taking a NULL; `ReadyOnce` and `ReadyChange` say
which step makes it true.

`MainNeverStuck` is the safety part of `ShutdownCompletes` and `LinesGetAnswered`:
main waits at three places, and `NoStandstill` names for each a worker that can go
on. When the job queue is full, there is something to take for any worker in its
loop; had all workers left it, the NULLs still queued would by `TakenInv` be at most
those of the workers that may fail, less those not sent yet, and could not fill the
queue. While main joins a worker, that worker finds a NULL (`TakenInv` again, with the
counting lemmas `NullsChange`, `GoneChange`) and room in the signal queue for its
message. The condition `EnoughRoom` is that limit of the code which section 3
describes, and the first of the runs that are expected to fail shows what happens
without it. `CanStep` spells out when a worker's step is enabled, since the prover
has no `ENABLED`; TLC found it equivalent to `ENABLED WorkerStep(w)` on the instance of
`helper_progress`.

`HelperImplementsContract` proves the refinement step by step: `LinePlaces` turns
`EachLineOnce` into where a line can be, `ReadAccepts` shows that a read is an
`Accept`, `ResponseAnswers` that either way to answer is an `Answer`, `JoinedStops`
that the last join is a `Stop` (from `Drained`, which needs `TakenInv`); the first
worker that passes its hooks is a `ComeUp`, and all other steps stutter. Theorems: `TypeCorrect`,
`NoLineLostOrRepeated`, `ShutdownDrains`, `CallbackNeverBlocks`, `WorkersCounted`,
`UnloadedAfterExit`, `MainNeverStuck`, `HelperImplementsContract`.

**StdinReaderProofs**, for any input and any size of the reads. `RemainderInv` (the
remainder is the end of what had been read before the chunk) and `ChunkInv` (from
`line_start` on the chunk is as it was read, its terminator the first NUL, and only
the first line of a chunk has a remainder) place every pending byte at its position
in the stream; `PendingIsInput` alone says nothing about a chunk whose lines have
been overwritten with NULs. `LineEnds` shows that the C string that is copied ends
at the newline just replaced. `TestedInv` says which bytes the loop has tested:
all but the first byte of the later lines of a chunk. `CutInv` is about the whole
history: there is a position of a newline for every line delivered such that the
line is what lies between its position and the one before; a step that delivers a
line extends the positions by one (`CutAppend`, with `NewlineDelivers`). It is an
existential where `RequestsAreLines` has a fold, and so needs no induction over the
input. Theorems: `TypeCorrect`, `NoByteLost`, `RequestsAreApart`, `StreamIsLines`,
and `LinesInOrder`, an action property.

**TxtFileProofs**, for any number of workers and any contents. `LockInv` is mutual
exclusion. `Built(n, list, lines)` says that the list holds the entries of the
first n lines in their order, by an order-preserving map from positions in the list
to line numbers; `BuiltSkip` and `BuiltAppend` extend it by one line, which avoids
a recursive definition of the list. `SearchInv` says that a search has passed only
entries of other addresses; with `Built` for the whole file the first hit from the
head is the last line that names the address (`LastDecides`). `StaleIsNoticed` is
the safety part of `ChangesTakeEffect`; given the types it is inductive as it stands, because it
follows the version that is being loaded from the open file to the list (`Source`).
Theorems: `TypeCorrect`, `SearchesSeeOneFile`, `NoChangeForgotten`.

**RequestChainProofs**, for any number of workers, addresses, hosts and changes and
any list of the two plugins. `WorkerInv` says what a worker holds at each place,
`SourceInv` that every value cached or held was said by the directory about an
owner of the address, `SettledInv` that while an address is settled neither the
cache nor a worker holds anything outdated about it. Theorems: `TypeCorrect`,
`DirectoryDecides`, `DecisionsCount`, `CacheStaysSettled`.

**PluginLifecycleProofs**, for any lists of names within the room of the array, any
number of workers and any block size. `DataInv` follows the data of every plugin by
where main is (`Stage`) and counts, for each library, its plugins that have data
(`Live`): `mapped` is their number, so that unloading one of several plugins leaves the
library open for the others (`LiveFinite` and `LiveMapped` are the counting lemmas).
`SlotInv` says that there is always a slot for the terminator of the table. `ConnInv`
says what the hooks have left: of the plugins of one library that have been called, the
last one has the connection that is open (`LatestOpen`), a lost one belongs to the hook
called last or has a later plugin of its library behind it (`Displaced`), and a worker
that serves has called every hook. Theorems: `TypeCorrect`,
`TableLargeEnough`, `HooksSafe`, `ServesConnected`, `LeaksExplained`, `LibrariesClosed`.

Only model-checked:

* the liveness properties `SomeCallCompletes`, `LinesGetAnswered`,
  `ShutdownCompletes` and `ChangesTakeEffect`, and the absence of deadlock: the
  prover has neither fairness nor `ENABLED`. The states in which these could come to
  nothing are excluded by theorems: `WakeupsNotLost`, `MainNeverStuck`,
  `NoChangeForgotten`;
* `RequestsAreLines`: its reference definition is a fold over the input, which
  would need induction over data. Its content is proved without the fold: by
  `StreamIsLines` the lines joined with newlines are the stream, and by
  `RequestsAreApart` a newline is in one at most in front, for an empty line. The runs check both, so TLC compares
  the two ways of saying it.

## 5. What is not modelled

* the libraries: libev, libconfuse, libmemcached, OpenLDAP and the resolver are
  modelled by what their calls may return; memory they own is not modelled, except
  for the strings of libconfuse that memcached frees;
* unknown names in `-p` beyond "fails to load", and more plugins than the array has
  room for (`main.c:545`);
* `pthread_create` failing (`main.c:637`): joining a thread that was never created
  is undefined;
* `loglevel`, into whose one byte the option parser writes a long (`main.c:444`),
  and the log file, which nothing is written to;
* time limits: `ldap_result` waits without one (`webcontrol_activedirectory.c:198`),
  and the models assume that a hook returns;
* `queue_size`, `buffer_getline`, `truncate_string`: never called;
* `strtoupper`, `strtolower`: loops over bytes; the effect of the first is in
  `TxtFile`'s `Flag`;
* `webcontrol_rdns_lookup_buf`: never called;
* a configured LDAP filter without exactly one `%s`, or none at all: what `sprintf`
  does then is undefined or overruns the buffer, depending on lengths only the
  administrator knows;
* logging, messages on stderr and stdout other than answers, the build system;
* `request_counter`: initialised and printed, never changed.

## 6. Plan

Done, in this order: the queue and its abstraction, main and workers on top of it,
the stdin reader, the string buffer, the txtfile backend, the request chain with
the two other backends, the proofs of queue and buffer, plugins and configuration
from start to end, DNS and both orders in the request chain, the LDAP filter in
the buffer.

Then the proofs of `Webcontrol`, `StdinReader`, `TxtFile`, `RequestChain` and
`PluginLifecycle`, with `OneRequestPerLine` added to the stdin reader as the part of
`RequestsAreLines` that can be proved.

Last, what the proved invariants are for: `HelperContract` and the proof that
`Webcontrol` implements it, `NoStandstill`, `LinesAreStream` and `StaleIsNoticed`, with
their proofs. All safety properties of the runs but `RequestsAreLines` are theorems.

What could follow: a prover with fairness would turn `MainNeverStuck` and
`NoChangeForgotten` into proofs of `ShutdownCompletes` and `ChangesTakeEffect`, with
the lines and NULLs still to be taken as the measure.
