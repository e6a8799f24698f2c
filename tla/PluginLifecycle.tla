--------------------------- MODULE PluginLifecycle ---------------------------
(***************************************************************************)
(* From the command line to the end of main: loading the plugins            *)
(* (webcontrol_plugin.c), the configuration (init_config), and the order in  *)
(* which main and the workers call a plugin's hooks and give up its code,    *)
(* its data and its per-thread connections.                                 *)
(*                                                                          *)
(* Requests and the queues are in Webcontrol: here a worker that serves may  *)
(* be inside any request hook of any plugin, and is told to stop once main   *)
(* has left the event loop.                                                 *)
(***************************************************************************)
EXTENDS Naturals, Sequences, FiniteSets, Functions

CONSTANTS
  Workers,                \* the worker threads
  PluginLists,            \* what may be given with -p: a name may be repeated
  MAX_PLUGINS,            \* the room of webcontrol->plugins (main.c:545), 120 pointers
  CONFIG_SLOTS_BLOCKSIZE, \* 32 in main.c
  CORE_OPTIONS            \* options of the core: logfile, loglevel, default_behavior

\* The plugins, by the hooks and keys their plugin_init functions set up.
Names         == {"txtfile", "memcached", "activedirectory"}
HasThreadInit == {"memcached", "activedirectory"}
HasThreadFree == {"activedirectory"}
HasThreadKey  == {"memcached", "activedirectory"}

ASSUME LifecycleAssumption ==
  /\ PluginLists \subseteq Seq(Names)
  /\ MAX_PLUGINS \in Nat
  /\ \A list \in PluginLists : Len(list) <= MAX_PLUGINS  \* nobody checks it
  /\ CORE_OPTIONS \in Nat /\ CONFIG_SLOTS_BLOCKSIZE \in Nat
  /\ CONFIG_SLOTS_BLOCKSIZE > CORE_OPTIONS  \* "must be big enough" (main.c:419)

VARIABLES
  mpc,              \* where main is
  k,                \* the index of main's loops
  plugin_list,      \* the names given with -p
  plugins,          \* webcontrol->plugins, by their names
  mapped,           \* how often each library is held open by dlopen
  data,             \* plugin->data, by position: raw (after init), ready, gone
  watching,         \* the plugins whose ev_stat watcher is started
  num_opts,         \* init_config's table of options: entries written
  num_slots,        \* ... and allocated
  parsed,           \* the result of cfg_parse
  default_behavior, \* what the configuration says, or NULL
  uri,              \* the activedirectory plugins whose uri is configured
  servers,          \* libconfuse's strings for memcached's servers: none, owned, freed
  wpc,              \* where each worker is
  conn              \* what each thread_init hook it has called left behind: none,
                    \* open (stored under the library's key), lost (opened, and
                    \* no longer or never stored), closed

config  == <<parsed, default_behavior, uri, servers>>
options == <<num_opts, num_slots, config>>
threads == <<wpc, conn>>
loaded  == <<plugins, mapped, data, watching>>
vars == <<mpc, k, plugin_list, loaded, options, threads>>

\* main.c:499-565
Init ==
  /\ mpc = "load" /\ k = 1
  /\ plugin_list \in PluginLists
  /\ plugins = << >>
  /\ mapped = [n \in Names |-> 0]
  /\ data = << >>
  /\ watching = {}
  /\ num_opts = 0 /\ num_slots = 0
  /\ parsed = "not yet" /\ default_behavior = "NULL" /\ uri = {}
  /\ servers = "none"
  /\ wpc = [w \in Workers |-> "none"]
  /\ conn = [w \in Workers |-> << >>]

MainAt(place) == mpc = place
Proceed(place) == mpc' = place /\ k' = 1
Repeat == k' = k + 1 /\ UNCHANGED mpc

\* The positions of the plugins made from library n.
Of(n) == {i \in 1 .. Len(plugins) : plugins[i] = n}

-----------------------------------------------------------------------------
(* Loading *)

\* plugin_load: the library is opened, once more if it is open already, and its
\* plugin_init function has run for the new plugin.
plugin_load(n) ==
  /\ MainAt("load") /\ k <= Len(plugin_list) /\ plugin_list[k] = n
  /\ mapped' = [mapped EXCEPT ![n] = @ + 1]
  /\ plugins' = Append(plugins, n)
  /\ data' = Append(data, "raw")
  /\ watching' = IF n = "txtfile" THEN watching \cup {Len(plugins')} ELSE watching
  /\ Repeat
  /\ UNCHANGED <<plugin_list, options, threads>>

\* Mutant: a plugin that failed to load gets its place in the array.
plugin_load_fails_Counted(n) ==
  /\ MainAt("load") /\ k <= Len(plugin_list) /\ plugin_list[k] = n
  /\ plugins' = Append(plugins, "NULL")
  /\ Repeat
  /\ UNCHANGED <<plugin_list, mapped, data, watching, options, threads>>

\* Mutant: the library is not closed when it has no plugin_init function.
plugin_load_fails_StaysOpen(n) ==
  /\ MainAt("load") /\ k <= Len(plugin_list) /\ plugin_list[k] = n
  /\ mapped' = [mapped EXCEPT ![n] = @ + 1]
  /\ Repeat
  /\ UNCHANGED <<plugin_list, plugins, data, watching, options, threads>>

\* ... dlopen fails, or dlsym fails and the library is closed again: main goes
\* on with the next name.
plugin_load_fails(n) ==
  /\ MainAt("load") /\ k <= Len(plugin_list) /\ plugin_list[k] = n
  /\ Repeat
  /\ UNCHANGED <<plugin_list, loaded, options, threads>>

-----------------------------------------------------------------------------
(* init_config *)

CoreOptions ==
  /\ MainAt("load") /\ k > Len(plugin_list)
  /\ num_slots' = CONFIG_SLOTS_BLOCKSIZE
  /\ num_opts' = CORE_OPTIONS
  /\ Proceed("options")
  /\ UNCHANGED <<plugin_list, loaded, config, threads>>

\* Mutant: the table grows when it is full, with no regard to CFG_END.
AddSection_NoRoomForEnd ==
  /\ MainAt("options") /\ k <= Len(plugins)
  /\ num_slots' = IF num_slots = num_opts THEN num_slots + CONFIG_SLOTS_BLOCKSIZE
                  ELSE num_slots
  /\ num_opts' = num_opts + 1
  /\ Repeat
  /\ UNCHANGED <<plugin_list, loaded, config, threads>>

\* A section for plugin k, all of which have options and a name.
AddSection ==
  /\ MainAt("options") /\ k <= Len(plugins)
  /\ num_slots' = IF num_slots = num_opts + 1 THEN num_slots + CONFIG_SLOTS_BLOCKSIZE
                  ELSE num_slots
  /\ num_opts' = num_opts + 1
  /\ Repeat
  /\ UNCHANGED <<plugin_list, loaded, config, threads>>

\* CFG_END and cfg_init, which gives memcached's list its default, {127.0.0.1}.
EndOptions ==
  /\ MainAt("options") /\ k > Len(plugins)
  /\ num_opts' = num_opts + 1
  /\ servers' = IF Of("memcached") # {} THEN "owned" ELSE servers
  /\ Proceed("parse")
  /\ UNCHANGED <<plugin_list, loaded, num_slots, parsed, default_behavior, uri, threads>>

\* The file cannot be read.  So it is without -c, too: config_file is an array,
\* never NULL, and then holds what happens to be on the stack.
ParseFileError ==
  /\ MainAt("parse")
  /\ parsed' = "CFG_FILE_ERROR"
  /\ Proceed("apply")
  /\ UNCHANGED <<plugin_list, loaded, num_opts, num_slots, default_behavior, uri, servers,
                 threads>>

\* The file has a section of a plugin that is not loaded, which libconfuse does
\* not know, or is malformed: exit(-1).
ParseError ==
  /\ MainAt("parse")
  /\ parsed' = "CFG_PARSE_ERROR"
  /\ Proceed("exited")
  /\ UNCHANGED <<plugin_list, loaded, num_opts, num_slots, default_behavior, uri, servers,
                 threads>>

\* The plugins with_uri have got their server (which of two sections of one name
\* the parser fills is libconfuse's affair), and memcached's list may be empty.
ParseSuccess(behavior, with_uri, list) ==
  /\ MainAt("parse")
  /\ list = "owned" => servers = "owned"
  /\ parsed' = "CFG_SUCCESS"
  /\ default_behavior' = behavior
  /\ uri' = with_uri
  /\ servers' = list
  /\ Proceed("apply")
  /\ UNCHANGED <<plugin_list, loaded, num_opts, num_slots, threads>>

\* strcmp(default_behavior, "deny"), which is undefined for NULL: the program is
\* killed.  A log file that cannot be opened is only reported.
ApplyConfig ==
  /\ MainAt("apply")
  /\ Proceed(IF default_behavior = "NULL" THEN "crashed" ELSE "config")
  /\ UNCHANGED <<plugin_list, loaded, options, threads>>

\* The config_file_parsed hook of plugin k: txtfile loads its file, memcached
\* makes its list of servers and frees libconfuse's strings, activedirectory
\* measures its filter.
config_file_parsed ==
  /\ MainAt("config") /\ k <= Len(plugins)
  /\ data' = [data EXCEPT ![k] = "ready"]
  /\ servers' = IF plugins[k] = "memcached" /\ servers = "owned" THEN "freed" ELSE servers
  /\ Repeat
  /\ UNCHANGED <<plugin_list, plugins, mapped, watching, num_opts, num_slots, parsed,
                 default_behavior, uri, threads>>

\* A second memcached plugin reads the strings the first one has freed, and frees
\* them again: undefined, it may go on as above or the program is killed.
config_file_parsed_dies ==
  /\ MainAt("config") /\ k <= Len(plugins)
  /\ plugins[k] = "memcached" /\ servers = "freed"
  /\ Proceed("crashed")
  /\ UNCHANGED <<plugin_list, loaded, options, threads>>

-----------------------------------------------------------------------------
(* The rest of main *)

\* pthread_create for every worker, then ev_loop.  A worker may be late to run.
StartWorkers ==
  /\ MainAt("config") /\ k > Len(plugins)
  /\ wpc' = [w \in Workers |-> "init"]
  /\ Proceed("loop")
  /\ UNCHANGED <<plugin_list, loaded, options, conn>>

\* A signal has arrived, or every worker has died; a NULL waits for each worker.
LeaveLoop ==
  /\ MainAt("loop")
  /\ Proceed("join")
  /\ UNCHANGED <<plugin_list, loaded, options, threads>>

\* Mutant: main does not wait for a worker that has said that it terminates.
JoinWorkers_Announced ==
  /\ MainAt("join") /\ \A w \in Workers : wpc[w] \in {"free", "exit", "gone"}
  /\ Proceed("free")
  /\ UNCHANGED <<plugin_list, loaded, options, threads>>

JoinWorkers ==
  /\ MainAt("join") /\ \A w \in Workers : wpc[w] = "gone"
  /\ Proceed("free")
  /\ UNCHANGED <<plugin_list, loaded, options, threads>>

\* The plugin_free hook, which all plugins have; txtfile's stops its watcher.
plugin_free(i) ==
  /\ data' = [data EXCEPT ![i] = "gone"]
  /\ watching' = watching \ {i}

plugin_unload(i) == mapped' = [mapped EXCEPT ![plugins[i]] = @ - 1]

FreePlugin ==
  /\ MainAt("free") /\ k <= Len(plugins)
  /\ plugin_free(k) /\ plugin_unload(k)
  /\ Repeat
  /\ UNCHANGED <<plugin_list, plugins, options, threads>>

\* ev_loop_destroy, cfg_free, and main returns; cfg_free frees what memcached has
\* freed already, which is undefined: main may be killed instead.
Return ==
  /\ MainAt("free") /\ k > Len(plugins)
  /\ \/ Proceed("exited")
     \/ servers = "freed" /\ Proceed("crashed")
  /\ UNCHANGED <<plugin_list, loaded, options, threads>>

-----------------------------------------------------------------------------
(* A worker *)

\* The plugin whose thread_init hook worker w calls next.
Hook(w) == Len(conn[w]) + 1

\* A connection can be opened: activedirectory needs to know its server.
CanOpen(i) == plugins[i] = "activedirectory" => i \in uri

\* pthread_setspecific: the key is the library's, so the connection replaces one
\* that an earlier plugin of the same library has stored.
Stored(w, i) ==
  Append([j \in DOMAIN conn[w] |->
            IF plugins[j] = plugins[i] /\ conn[w][j] = "open" THEN "lost" ELSE conn[w][j]],
         "open")

\* The thread_init hook of the next plugin succeeds, or there is none.
thread_init(w) ==
  /\ wpc[w] = "init" /\ Hook(w) <= Len(plugins)
  /\ CanOpen(Hook(w))
  /\ conn' = [conn EXCEPT ![w] = IF plugins[Hook(w)] \in HasThreadInit
                                 THEN Stored(w, Hook(w)) ELSE Append(@, "none")]
  /\ UNCHANGED <<mpc, k, plugin_list, loaded, options, wpc>>

\* Mutant: the result of the hook is ignored.
thread_init_fails_Ignored(w) ==
  /\ wpc[w] = "init" /\ Hook(w) <= Len(plugins) /\ plugins[Hook(w)] \in HasThreadInit
  /\ \/ conn' = [conn EXCEPT ![w] = Append(@, "none")]
     \/ CanOpen(Hook(w)) /\ conn' = [conn EXCEPT ![w] = Append(@, "lost")]
  /\ UNCHANGED <<mpc, k, plugin_list, loaded, options, wpc>>

\* ... it fails, before or after it has opened its connection, which it does
\* not close: the thread terminates.
thread_init_fails(w) ==
  /\ wpc[w] = "init" /\ Hook(w) <= Len(plugins) /\ plugins[Hook(w)] \in HasThreadInit
  /\ \/ conn' = [conn EXCEPT ![w] = Append(@, "none")]
     \/ CanOpen(Hook(w)) /\ conn' = [conn EXCEPT ![w] = Append(@, "lost")]
  /\ wpc' = [wpc EXCEPT ![w] = "free"]
  /\ UNCHANGED <<mpc, k, plugin_list, loaded, options>>

\* Every hook has succeeded: the loop over the requests.
Serve(w) ==
  /\ wpc[w] = "init" /\ Hook(w) > Len(plugins)
  /\ wpc' = [wpc EXCEPT ![w] = "serve"]
  /\ UNCHANGED <<mpc, k, plugin_list, loaded, options, conn>>

\* The NULL main has put into the queue.
StopServing(w) ==
  /\ wpc[w] = "serve" /\ MainAt("join")
  /\ wpc' = [wpc EXCEPT ![w] = "free"]
  /\ UNCHANGED <<mpc, k, plugin_list, loaded, options, conn>>

\* The thread_free hooks, of every plugin, whether its thread_init has run or not.
thread_free(w) ==
  /\ wpc[w] = "free"
  /\ wpc' = [wpc EXCEPT ![w] = "exit"]
  /\ UNCHANGED <<mpc, k, plugin_list, loaded, options, conn>>

\* Mutant: the keys have no destructors, as in the commented-out call of
\* webcontrol_memcached.c:290.
ThreadExit_NoDestructors(w) ==
  /\ wpc[w] = "exit"
  /\ wpc' = [wpc EXCEPT ![w] = "gone"]
  /\ UNCHANGED <<mpc, k, plugin_list, loaded, options, conn>>

\* pthread_exit: the destructors of the keys (memcached_tls_key_free,
\* ldap_key_destruct) close what is stored under them.
ThreadExit(w) ==
  /\ wpc[w] = "exit"
  /\ conn' = [conn EXCEPT ![w] = [i \in DOMAIN conn[w] |->
                IF conn[w][i] = "open" THEN "closed" ELSE conn[w][i]]]
  /\ wpc' = [wpc EXCEPT ![w] = "gone"]
  /\ UNCHANGED <<mpc, k, plugin_list, loaded, options>>

-----------------------------------------------------------------------------
MainStep ==
  \/ \E n \in Names : plugin_load(n) \/ plugin_load_fails(n)
  \/ CoreOptions \/ AddSection \/ EndOptions
  \/ ParseFileError \/ ParseError
  \/ \E behavior \in {"deny", "allow", "NULL"}, list \in {"none", "owned"} :
       \E with_uri \in SUBSET Of("activedirectory") : ParseSuccess(behavior, with_uri, list)
  \/ ApplyConfig \/ config_file_parsed \/ config_file_parsed_dies
  \/ StartWorkers \/ LeaveLoop \/ JoinWorkers \/ FreePlugin \/ Return

WorkerStep(w) ==
  \/ thread_init(w) \/ thread_init_fails(w) \/ Serve(w)
  \/ StopServing(w) \/ thread_free(w) \/ ThreadExit(w)

Terminated == mpc \in {"exited", "crashed"} /\ UNCHANGED vars

Next == MainStep \/ (\E w \in Workers : WorkerStep(w)) \/ Terminated

Spec == Init /\ [][Next]_vars

-----------------------------------------------------------------------------
(* Properties *)

\* The values of the variables; the array of plugins holds plugins only, also
\* when some failed to load (webcontrol_plugin.c:44-52).
TypeOK ==
  /\ mpc \in {"load", "options", "parse", "apply", "config", "loop", "join", "free",
              "exited", "crashed"}
  /\ k \in Nat \ {0}
  /\ plugin_list \in PluginLists
  /\ plugins \in Seq(Names)
  /\ mapped \in [Names -> Nat]
  /\ data \in Seq({"raw", "ready", "gone"}) /\ Len(data) = Len(plugins)
  /\ watching \subseteq Of("txtfile")
  /\ num_opts \in Nat /\ num_slots \in Nat
  /\ parsed \in {"not yet", "CFG_SUCCESS", "CFG_FILE_ERROR", "CFG_PARSE_ERROR"}
  /\ default_behavior \in {"deny", "allow", "NULL"}
  /\ uri \subseteq Of("activedirectory") /\ servers \in {"none", "owned", "freed"}
  /\ wpc \in [Workers -> {"none", "init", "serve", "free", "exit", "gone"}]
  /\ conn \in [Workers -> Seq({"none", "open", "lost", "closed"})]

\* No entry of the table of options, CFG_END included, is written outside it,
\* however many plugins the array holds (main.c:457, 464, 468).
OptionsFit == num_opts <= num_slots

\* The plugins whose code worker w may be about to run.
Runs(w) ==
  {i \in 1 .. Len(plugins) :
     CASE wpc[w] = "init"  -> i = Hook(w) /\ plugins[i] \in HasThreadInit
       [] wpc[w] = "serve" -> TRUE
       [] wpc[w] = "free"  -> plugins[i] \in HasThreadFree
       [] wpc[w] = "exit"  -> i <= Len(conn[w]) /\ conn[w][i] = "open"
       [] OTHER            -> FALSE}

\* Whoever runs a plugin's code finds it mapped and its data configured and not
\* yet freed: the hooks of the workers, the destructors pthread_exit calls, the
\* callbacks of the file watchers (main.c:494, 637, 665-678;
\* webcontrol_txtfile.c:209, 248).
HooksFindTheirPlugin ==
  /\ \A w \in Workers : \A i \in Runs(w) : mapped[plugins[i]] > 0 /\ data[i] = "ready"
  /\ \A i \in watching : mapped[plugins[i]] > 0 /\ data[i] \in {"raw", "ready"}

\* A request hook never uses a connection its thread does not have: a worker
\* serves only after every thread_init hook has succeeded (main.c:222-233), and
\* keeps for every library the connection of its last plugin until it ends.
ConnectedWhileServing ==
  \A w \in Workers : wpc[w] = "serve" =>
    \A n \in HasThreadKey : Of(n) # {} =>
      \E i \in Of(n) : conn[w][i] = "open" /\ \A j \in Of(n) : j <= i

\* Every connection a thread leaves open when it has ended is accounted for: the
\* last hook it called had failed with it, or a later plugin of the same library
\* took its place under the key and was closed by the destructor.  Everything
\* else is closed, although no thread_free hook closes anything (main.c:227;
\* webcontrol_activedirectory.c:88-104, 131-138; webcontrol_memcached.c:61-68, 285).
LeaksAccountedFor ==
  \A w \in Workers : wpc[w] = "gone" =>
    \A i \in DOMAIN conn[w] : conn[w][i] \notin {"none", "closed"} =>
      /\ conn[w][i] = "lost"
      /\ \/ i = Len(conn[w])
         \/ \E j \in i + 1 .. Len(conn[w]) :
              plugins[j] = plugins[i] /\ conn[w][j] = "closed"

\* The plugins of library n that have data.
Live(n) == {i \in Of(n) : data[i] \in {"raw", "ready"}}

\* Every library is held open once for each of its plugins, and none is left open
\* when main returns (webcontrol_plugin.c:73, 98, 136).
LibrariesBalanced ==
  /\ \A n \in Names : mapped[n] = Cardinality(Live(n))
  /\ mpc = "exited" /\ parsed # "CFG_PARSE_ERROR" => \A n \in Names : mapped[n] = 0

\* "configuration file '%s' could not be read ... continuing with default
\* values" (main.c:478-480)
ContinuesWithDefaults == parsed = "CFG_FILE_ERROR" => mpc # "crashed"
=============================================================================
