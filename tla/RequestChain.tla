---------------------------- MODULE RequestChain ----------------------------
(***************************************************************************)
(* One request in a worker (src/core/main.c:284-343) over the hooks of the  *)
(* plugins, with memcached as a cache and activedirectory as the backend,    *)
(* in either order.                                                         *)
(*                                                                          *)
(* activedirectory asks the DNS for the host behind an address and then the  *)
(* directory for the host's attribute, an LDAP boolean.  memcached keeps     *)
(* decisions by address.  Between two steps of a worker an address may go to *)
(* another host, the attribute of a host may change and the cache may lose   *)
(* an entry; every call of a library may fail.                              *)
(***************************************************************************)
EXTENDS Integers, Sequences

CONSTANTS
  Workers,        \* the worker threads
  Addresses,      \* addresses of clients, the texts Squid sends
  Hosts,          \* names of hosts
  PluginOrders,   \* the lists that may be given with -p
  deny_by_default,\* default_behavior = "deny"
  None,           \* no value, no entry, nothing looked up
  MaxChanges      \* bound: how often the DNS or the directory changes

Values   == {"TRUE", "FALSE"}
Results  == {"GO_ON", "ALLOW", "DENY", "none"}

ASSUME ChainAssumption ==
  /\ PluginOrders \subseteq Seq({"memcached", "activedirectory"})
  /\ deny_by_default \in BOOLEAN
  /\ None \notin Values \cup Hosts
  /\ MaxChanges \in Nat

VARIABLES
  plugins,    \* the plugins, in the order of -p
  rdns,       \* the host each address belongs to
  directory,  \* the attribute of each host
  changes,    \* how often these two have changed
  cache,      \* memcached: what is stored for each address, or None
  pc,         \* where each worker is
  addr,       \* req->ip_addr
  i,          \* the loop index over the plugins
  hostname,   \* the name activedirectory has looked up, or None
  result,     \* req->response.result
  skip,       \* req->skip_post_handle_request
  reply,      \* what the worker has answered: "OK", "ERR" or None
  (* history, for the properties only *)
  owners,     \* every host each address has belonged to
  said,       \* every value the directory has had for each host
  looked,     \* what each worker has read from the directory for its request
  settled     \* see CacheSettles

services == <<plugins, rdns, directory, changes, cache>>
request  == <<pc, addr, i, hostname, result, skip, reply>>
history  == <<owners, said, looked, settled>>
vars == <<services, request, history>>

Init ==
  /\ plugins \in PluginOrders
  /\ rdns \in [Addresses -> Hosts] /\ directory \in [Hosts -> Values] /\ changes = 0
  /\ cache = [a \in Addresses |-> None]
  /\ pc = [w \in Workers |-> "idle"]
  /\ addr \in [Workers -> Addresses]
  /\ i = [w \in Workers |-> 1]
  /\ hostname = [w \in Workers |-> None]
  /\ result = [w \in Workers |-> "none"]
  /\ skip = [w \in Workers |-> FALSE]
  /\ reply = [w \in Workers |-> None]
  /\ owners = [a \in Addresses |-> {rdns[a]}]
  /\ said = [h \in Hosts |-> {directory[h]}]
  /\ looked = [w \in Workers |-> None]
  /\ settled = [a \in Addresses |-> FALSE]

\* Mutant: value is set for HANDLER_ALLOW only.
Encode_NoElse(res) == IF res = "ALLOW" THEN "TRUE" ELSE "uninitialised"

\* str4_cmp(value, 'T', 'R', 'U', 'E'), and what is stored for a result.
Decode(value) == IF value = "TRUE" THEN "ALLOW" ELSE "DENY"
Encode(res)   == IF res = "ALLOW" THEN "TRUE" ELSE "FALSE"

-----------------------------------------------------------------------------
(* The services *)

\* An address goes to another host.
ChangeOwner(a, h) ==
  /\ changes < MaxChanges /\ rdns[a] # h
  /\ rdns' = [rdns EXCEPT ![a] = h]
  /\ changes' = changes + 1
  /\ owners' = [owners EXCEPT ![a] = @ \cup {h}]
  /\ settled' = [settled EXCEPT ![a] = FALSE]
  /\ UNCHANGED <<plugins, directory, cache, request, said, looked>>

\* An administrator changes a host's attribute.
ChangeDirectory(h, value) ==
  /\ changes < MaxChanges /\ directory[h] # value
  /\ directory' = [directory EXCEPT ![h] = value]
  /\ changes' = changes + 1
  /\ said' = [said EXCEPT ![h] = @ \cup {value}]
  /\ settled' = [a \in Addresses |-> settled[a] /\ rdns[a] # h]
  /\ UNCHANGED <<plugins, rdns, cache, request, owners, looked>>

\* Worker w holds something about its address that is no longer true.
Outdated(w) ==
  \/ hostname[w] # None /\ hostname[w] # rdns[addr[w]]
  \/ looked[w] # None /\ looked[w] # directory[rdns[addr[w]]]

\* memcached drops an entry: memory is short, it is restarted, or somebody
\* deletes the entry.
Evict(a) ==
  /\ cache[a] # None
  /\ cache' = [cache EXCEPT ![a] = None]
  /\ settled' = [settled EXCEPT ![a] = \A w \in Workers : addr[w] = a => ~Outdated(w)]
  /\ UNCHANGED <<plugins, rdns, directory, changes, request, owners, said, looked>>

-----------------------------------------------------------------------------
(* A worker *)

\* A line with a valid address has been taken from the queue.
StartRequest(w, a) ==
  /\ pc[w] = "idle"
  /\ addr' = [addr EXCEPT ![w] = a]
  /\ i' = [i EXCEPT ![w] = 1]
  /\ result' = [result EXCEPT ![w] = "none"]
  /\ skip' = [skip EXCEPT ![w] = FALSE]
  /\ reply' = [reply EXCEPT ![w] = None]
  /\ pc' = [pc EXCEPT ![w] = "hooks"]
  /\ UNCHANGED <<services, hostname, history>>

\* The handle_request hook of plugin i is next.
AtHook(w, name) == pc[w] = "hooks" /\ i[w] <= Len(plugins) /\ plugins[i[w]] = name

\* Mutant: the break is missing.
HookReturns_NoBreak(w, status) ==
  /\ result' = [result EXCEPT ![w] = status]
  /\ i' = [i EXCEPT ![w] = @ + 1]
  /\ hostname' = [hostname EXCEPT ![w] = None]
  /\ pc' = [pc EXCEPT ![w] = "hooks"]

\* What the loop does with the status of a hook.
HookReturns(w, status) ==
  /\ result' = [result EXCEPT ![w] = status]
  /\ i' = [i EXCEPT ![w] = @ + 1]
  /\ hostname' = [hostname EXCEPT ![w] = None]
  /\ pc' = [pc EXCEPT ![w] = IF status = "GO_ON" THEN "hooks" ELSE "respond"]

\* Mutant: a hit does not set skip_post_handle_request.
webcontrol_memcached_hit_NoSkip(w) ==
  /\ AtHook(w, "memcached") /\ cache[addr[w]] # None
  /\ HookReturns(w, Decode(cache[addr[w]]))
  /\ UNCHANGED <<services, addr, skip, reply, history>>

\* webcontrol_memcached_handle_request, memcached_get returns a value
webcontrol_memcached_hit(w) ==
  /\ AtHook(w, "memcached") /\ cache[addr[w]] # None
  /\ HookReturns(w, Decode(cache[addr[w]]))
  /\ skip' = [skip EXCEPT ![w] = TRUE]
  /\ UNCHANGED <<services, addr, reply, history>>

\* ... there is none, or the server cannot be reached
webcontrol_memcached_miss(w) ==
  /\ AtHook(w, "memcached")
  /\ HookReturns(w, "GO_ON")
  /\ UNCHANGED <<services, addr, skip, reply, history>>

\* webcontrol_activedirectory_handle_request: the name of the host
webcontrol_rdns_lookup(w) ==
  /\ AtHook(w, "activedirectory")
  /\ hostname' = [hostname EXCEPT ![w] = rdns[addr[w]]]
  /\ pc' = [pc EXCEPT ![w] = "search"]
  /\ UNCHANGED <<services, addr, i, result, skip, reply, history>>

\* ... then the search: the server's first message is an entry with the attribute.
webcontrol_activedirectory_found(w) ==
  /\ pc[w] = "search"
  /\ HookReturns(w, Decode(directory[hostname[w]]))
  /\ looked' = [looked EXCEPT ![w] = directory[hostname[w]]]
  /\ UNCHANGED <<services, addr, skip, reply, owners, said, settled>>

\* ... there is no name, the search or the answer fails, or there is no entry or
\* no attribute: the hook cannot tell.
webcontrol_activedirectory_fails(w) ==
  /\ AtHook(w, "activedirectory") \/ pc[w] = "search"
  /\ HookReturns(w, "GO_ON")
  /\ UNCHANGED <<services, addr, skip, reply, history>>

\* Every hook has said GO_ON, or there is no hook.
NoDecision(w) ==
  /\ pc[w] = "hooks" /\ i[w] > Len(plugins)
  /\ pc' = [pc EXCEPT ![w] = "respond"]
  /\ UNCHANGED <<services, addr, i, hostname, result, skip, reply, history>>

\* The word written behind the channel.
send_response(status) == IF status = 0 THEN "OK" ELSE "ERR"

\* The answer to a result: the default if it is no decision.
Answer(res) ==
  send_response(IF res = "ALLOW" \/ (res # "DENY" /\ ~deny_by_default) THEN 0 ELSE -1)

\* Mutant: the goto endrequest of the default case is missing.
Respond_DefaultFallsThrough(w) ==
  /\ pc[w] = "respond"
  /\ reply' = [reply EXCEPT ![w] = Answer(result[w])]
  /\ pc' = [pc EXCEPT ![w] = IF ~skip[w] THEN "post" ELSE "end"]
  /\ UNCHANGED <<services, addr, i, hostname, result, skip, history>>

\* The switch: a decision is answered and goes on to the post hooks, unless they
\* are to be skipped; the default answer ends the request.
Respond(w) ==
  /\ pc[w] = "respond"
  /\ reply' = [reply EXCEPT ![w] = Answer(result[w])]
  /\ pc' = [pc EXCEPT ![w] = IF result[w] \in {"ALLOW", "DENY"} /\ ~skip[w] THEN "post"
                             ELSE "end"]
  /\ UNCHANGED <<services, addr, i, hostname, result, skip, history>>

\* webcontrol_memcached_post_handle_request, the only post hook there is: the
\* store, which may fail; without the plugin there is nothing to call.
webcontrol_memcached_post_handle_request(w) ==
  /\ pc[w] = "post"
  /\ \/ /\ \E k \in DOMAIN plugins : plugins[k] = "memcached"
        /\ cache' = [cache EXCEPT ![addr[w]] = Encode(result[w])]
     \/ UNCHANGED cache
  /\ pc' = [pc EXCEPT ![w] = "end"]
  /\ UNCHANGED <<plugins, rdns, directory, changes, addr, i, hostname, result, skip,
                 reply, history>>

\* endrequest: free(req)
EndRequest(w) ==
  /\ pc[w] = "end"
  /\ pc' = [pc EXCEPT ![w] = "idle"]
  /\ looked' = [looked EXCEPT ![w] = None]
  /\ UNCHANGED <<services, addr, i, hostname, result, skip, reply, owners, said, settled>>

WorkerStep(w) ==
  \/ webcontrol_memcached_hit(w) \/ webcontrol_memcached_miss(w)
  \/ webcontrol_rdns_lookup(w)
  \/ webcontrol_activedirectory_found(w) \/ webcontrol_activedirectory_fails(w)
  \/ NoDecision(w) \/ Respond(w)
  \/ webcontrol_memcached_post_handle_request(w) \/ EndRequest(w)

Next ==
  \/ \E a \in Addresses : Evict(a) \/ \E h \in Hosts : ChangeOwner(a, h)
  \/ \E h \in Hosts, v \in Values : ChangeDirectory(h, v)
  \/ \E w \in Workers : WorkerStep(w) \/ \E a \in Addresses : StartRequest(w, a)

Spec == Init /\ [][Next]_vars

-----------------------------------------------------------------------------
(* Properties *)

\* The values of the variables; the cache holds nothing but the two words that
\* the store writes (webcontrol_memcached.c:185-194), and the index stays within
\* the plugins (main.c:291).
TypeOK ==
  /\ plugins \in PluginOrders
  /\ rdns \in [Addresses -> Hosts] /\ directory \in [Hosts -> Values]
  /\ changes \in 0 .. MaxChanges
  /\ cache \in [Addresses -> Values \cup {None}]
  /\ pc \in [Workers -> {"idle", "hooks", "search", "respond", "post", "end"}]
  /\ addr \in [Workers -> Addresses]
  /\ i \in [Workers -> 1 .. Len(plugins) + 1]
  /\ hostname \in [Workers -> Hosts \cup {None}]
  /\ result \in [Workers -> Results]
  /\ skip \in [Workers -> BOOLEAN]
  /\ reply \in [Workers -> {"OK", "ERR", None}]
  /\ owners \in [Addresses -> SUBSET Hosts] /\ said \in [Hosts -> SUBSET Values]
  /\ looked \in [Workers -> Values \cup {None}]
  /\ settled \in [Addresses -> BOOLEAN]

\* What the directory has said about a host the address has belonged to.
SaidOf(a) == UNION {said[h] : h \in owners[a]}

\* What is cached for an address, and what is answered as a decision about it,
\* is what the directory said at some time about a host that had THIS address at
\* some time: a default answer is never cached (main.c:321-323) and never passed
\* off as a decision, and no two addresses are mixed up.  (The two times may
\* differ: the host is looked up first.)
OnlyDirectoryDecides ==
  /\ \A a \in Addresses : cache[a] # None => cache[a] \in SaidOf(a)
  /\ \A w \in Workers :
       pc[w] \in {"post", "end"} /\ result[w] \in {"ALLOW", "DENY"}
         => \E v \in SaidOf(addr[w]) :
              /\ Decode(v) = result[w]
              /\ reply[w] = IF v = "TRUE" THEN "OK" ELSE "ERR"

\* The first decision counts (main.c:303-307): the directory is not asked after a
\* hit, nor the cache for a request the directory has decided, and no failure
\* of a plugin further back turns a decision into the default answer.
FirstDecisionCounts ==
  \A w \in Workers :
    /\ ~ (skip[w] /\ looked[w] # None)
    /\ pc[w] \in {"respond", "post", "end"} /\ (skip[w] \/ looked[w] # None)
         => result[w] \in {"ALLOW", "DENY"}

\* An outdated entry that is dropped does not come back: once an entry has been
\* dropped while no worker held an outdated name or look-up for its address, and
\* until the address changes hands or its host's attribute changes, the cache
\* agrees with the directory.  In particular a worker that was answered from the
\* cache does not store what it was told ("This ensures that the memcached save
\* handler isn't called", webcontrol_memcached.c:147).
CacheSettles ==
  \A a \in Addresses : settled[a] => cache[a] \in {None, directory[rdns[a]]}
=============================================================================
