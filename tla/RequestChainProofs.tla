------------------------- MODULE RequestChainProofs -------------------------
(***************************************************************************)
(* Proofs about RequestChain for any number of workers, addresses and       *)
(* hosts, any lists of the two plugins and any number of changes.           *)
(***************************************************************************)
EXTENDS RequestChain, SequenceTheorems, TLAPS

-----------------------------------------------------------------------------
(* The inductive invariant *)

Decided(w) == result[w] \in {"ALLOW", "DENY"}
Chosen(w)  == pc[w] \in {"respond", "post", "end"}

\* What a worker holds at each place: a name only while it searches, no result
\* before a hook has decided, a look-up or a hit but never both after that.
WorkerInv ==
  \A w \in Workers :
    /\ pc[w] = "search" => hostname[w] \in owners[addr[w]] /\ i[w] <= Len(plugins)
    /\ pc[w] # "search" => hostname[w] = None
    /\ pc[w] \in {"hooks", "search"} => ~Decided(w) /\ ~skip[w]
    /\ ~Chosen(w) => looked[w] = None
    /\ pc[w] = "post" => Decided(w) /\ ~skip[w]
    /\ Chosen(w) /\ skip[w] => looked[w] = None /\ Decided(w)
    /\ Chosen(w) /\ ~skip[w] /\ Decided(w) => looked[w] # None
    /\ looked[w] # None => result[w] = Decode(looked[w])

\* The answer given is that of the result.
ReplyInv == \A w \in Workers : pc[w] \in {"post", "end"} => reply[w] = Answer(result[w])

\* Every decision that is cached or held comes from the directory.
SourceInv ==
  /\ \A a \in Addresses : rdns[a] \in owners[a]
  /\ \A h \in Hosts : directory[h] \in said[h]
  /\ \A a \in Addresses : cache[a] # None => cache[a] \in SaidOf(a)
  /\ \A w \in Workers : Chosen(w) /\ Decided(w)
       => \E v \in SaidOf(addr[w]) : Decode(v) = result[w]

\* While an address is settled no worker holds anything outdated about it.
SettledInv ==
  \A a \in Addresses : settled[a] =>
    /\ cache[a] \in {None, directory[rdns[a]]}
    /\ \A w \in Workers : addr[w] = a => ~Outdated(w)

IndInv == TypeOK /\ WorkerInv /\ ReplyInv /\ SourceInv /\ SettledInv

-----------------------------------------------------------------------------
(* Facts about the operators *)

\* What is stored for a decision is what the decision was read from.
LEMMA EncodeDecode ==
  ASSUME NEW v \in Values
  PROVE  /\ Decode(v) \in {"ALLOW", "DENY"}
         /\ Encode(Decode(v)) = v
         /\ Answer(Decode(v)) = IF v = "TRUE" THEN "OK" ELSE "ERR"
  BY DEF Values, Decode, Encode, Answer, send_response

\* Two values with the same decision are the same.
LEMMA DecodeInjective ==
  ASSUME NEW v \in Values, NEW u \in Values, Decode(v) = Decode(u)
  PROVE  v = u
  BY DEF Values, Decode

\* None is no value and no host; a list of plugins is a sequence.
LEMMA Constants ==
  /\ None \notin Values /\ None \notin Hosts
  /\ \A order \in PluginOrders : Len(order) \in Nat
  <1>1. ASSUME NEW order \in PluginOrders PROVE Len(order) \in Nat
    BY ChainAssumption, LenProperties
  <1> QED
    BY <1>1, ChainAssumption

-----------------------------------------------------------------------------
(* One lemma per action *)

\* An address goes to another host: it is not settled any more.
LEMMA ChangeOwnerKeeps ==
  ASSUME IndInv, NEW a \in Addresses, NEW h \in Hosts, ChangeOwner(a, h)
  PROVE  IndInv'
  <1> USE Constants DEF IndInv
  <1>1. TypeOK'
    <2>1. changes' \in 0 .. MaxChanges
      BY ChainAssumption DEF TypeOK, ChangeOwner
    <2>2. rdns' \in [Addresses -> Hosts]
      BY DEF TypeOK, ChangeOwner
    <2>3. owners' \in [Addresses -> SUBSET Hosts]
      BY DEF TypeOK, ChangeOwner
    <2>4. settled' \in [Addresses -> BOOLEAN]
      BY DEF TypeOK, ChangeOwner
    <2> QED
      BY <2>1, <2>2, <2>3, <2>4 DEF TypeOK, ChangeOwner, services, request, history
  <1>2. WorkerInv'
    BY DEF TypeOK, WorkerInv, Chosen, Decided, ChangeOwner, services, request, history
  <1>3. ReplyInv'
    BY DEF TypeOK, ReplyInv, ChangeOwner, services, request, history
  <1>4. SourceInv'
    BY DEF TypeOK, SourceInv, SaidOf, Chosen, Decided, ChangeOwner, services, request,
           history
  <1>5. SettledInv'
    BY DEF TypeOK, SettledInv, Outdated, ChangeOwner, services, request, history
  <1> QED
    BY <1>1, <1>2, <1>3, <1>4, <1>5

\* An attribute changes: the addresses of its host are not settled any more.
LEMMA ChangeDirectoryKeeps ==
  ASSUME IndInv, NEW h \in Hosts, NEW v \in Values, ChangeDirectory(h, v)
  PROVE  IndInv'
  <1> USE Constants DEF IndInv
  <1>1. TypeOK'
    <2>1. changes' \in 0 .. MaxChanges
      BY ChainAssumption DEF TypeOK, ChangeDirectory
    <2>2. directory' \in [Hosts -> Values]
      BY DEF TypeOK, ChangeDirectory
    <2>3. said' \in [Hosts -> SUBSET Values]
      BY DEF TypeOK, ChangeDirectory
    <2>4. settled' \in [Addresses -> BOOLEAN]
      BY Zenon DEF TypeOK, ChangeDirectory
    <2> QED
      BY <2>1, <2>2, <2>3, <2>4 DEF TypeOK, ChangeDirectory, services, request, history
  <1>2. WorkerInv'
    BY DEF TypeOK, WorkerInv, Chosen, Decided, ChangeDirectory, services, request, history
  <1>3. ReplyInv'
    BY DEF TypeOK, ReplyInv, ChangeDirectory, services, request, history
  <1>4. SourceInv'
    BY DEF TypeOK, SourceInv, SaidOf, Chosen, Decided, ChangeDirectory, services, request,
           history
  <1>5. SettledInv'
    BY DEF TypeOK, SettledInv, Outdated, ChangeDirectory, services, request, history
  <1> QED
    BY <1>1, <1>2, <1>3, <1>4, <1>5

\* An entry is dropped: the address is settled if nobody holds anything outdated.
LEMMA EvictKeeps ==
  ASSUME IndInv, NEW a \in Addresses, Evict(a)
  PROVE  IndInv'
  <1> USE Constants DEF IndInv
  <1>1. TypeOK'
    BY DEF TypeOK, Evict, services, request, history
  <1>2. WorkerInv'
    BY DEF TypeOK, WorkerInv, Chosen, Decided, Evict, services, request, history
  <1>3. ReplyInv'
    BY DEF TypeOK, ReplyInv, Evict, services, request, history
  <1>4. SourceInv'
    BY DEF TypeOK, SourceInv, SaidOf, Chosen, Decided, Evict, services, request, history
  <1>5. SettledInv'
    BY DEF TypeOK, SettledInv, Outdated, Evict, services, request, history
  <1> QED
    BY <1>1, <1>2, <1>3, <1>4, <1>5

\* A new request: the worker holds nothing.
LEMMA StartRequestKeeps ==
  ASSUME IndInv, NEW w \in Workers, NEW a \in Addresses, StartRequest(w, a)
  PROVE  IndInv'
  <1> USE Constants DEF IndInv
  <1>1. TypeOK'
    <2>1. i' \in [Workers -> 1 .. Len(plugins) + 1]
      BY DEF TypeOK, StartRequest
    <2>2. result' \in [Workers -> Results]
      BY DEF TypeOK, Results, StartRequest
    <2>3. skip' \in [Workers -> BOOLEAN]
      BY DEF TypeOK, StartRequest
    <2> QED
      BY <2>1, <2>2, <2>3 DEF TypeOK, StartRequest, services, request, history
  <1>2. WorkerInv'
    BY DEF TypeOK, WorkerInv, Chosen, Decided, StartRequest, services, request, history
  <1>3. ReplyInv'
    BY DEF TypeOK, ReplyInv, StartRequest, services, request, history
  <1>4. SourceInv'
    BY DEF TypeOK, SourceInv, SaidOf, Chosen, Decided, StartRequest, services, request,
           history
  <1>5. SettledInv'
    <2>1. hostname[w] = None /\ looked[w] = None
      BY DEF WorkerInv, Chosen, StartRequest
    <2> QED
      BY <2>1 DEF TypeOK, SettledInv, Outdated, StartRequest, services, request, history
  <1> QED
    BY <1>1, <1>2, <1>3, <1>4, <1>5

\* A hit is what the directory has said.
LEMMA HitKeeps ==
  ASSUME IndInv, NEW w \in Workers, webcontrol_memcached_hit(w)
  PROVE  IndInv'
  <1> USE Constants DEF IndInv
  <1>1. TypeOK'
    <2>1. Decode(cache[addr[w]]) \in Results
      BY DEF Decode, Results
    <2>2. i[w] <= Len(plugins)
      BY DEF TypeOK, webcontrol_memcached_hit, AtHook, HookReturns
    <2>3. i' \in [Workers -> 1 .. Len(plugins) + 1]
      BY <2>2 DEF TypeOK, webcontrol_memcached_hit, AtHook, HookReturns
    <2>4. result' \in [Workers -> Results]
      BY <2>1 DEF TypeOK, webcontrol_memcached_hit, AtHook, HookReturns
    <2>5. hostname' \in [Workers -> Hosts \cup {None}]
      BY DEF TypeOK, webcontrol_memcached_hit, AtHook, HookReturns
    <2>6. pc' \in [Workers -> {"idle", "hooks", "search", "respond", "post", "end"}]
      BY DEF TypeOK, webcontrol_memcached_hit, AtHook, HookReturns
    <2>7. skip' \in [Workers -> BOOLEAN]
      BY DEF TypeOK, webcontrol_memcached_hit, AtHook, HookReturns
    <2> QED
      BY <2>1, <2>2, <2>3, <2>4, <2>5, <2>6, <2>7 DEF TypeOK, webcontrol_memcached_hit,
         AtHook, HookReturns, services, request, history
  <1>2. WorkerInv'
    <2>1. Decode(cache[addr[w]]) \in {"ALLOW", "DENY"} /\ Decode(cache[addr[w]]) # "GO_ON"
      BY DEF Decode
    <2> QED
      BY <2>1 DEF TypeOK, WorkerInv, Chosen, Decided, webcontrol_memcached_hit, AtHook,
                  HookReturns, services, request, history
  <1>3. ReplyInv'
    BY DEF TypeOK, ReplyInv, webcontrol_memcached_hit, AtHook, HookReturns, services,
           request, history
  <1>4. SourceInv'
    BY DEF TypeOK, SourceInv, SaidOf, Chosen, Decided, webcontrol_memcached_hit, AtHook,
           HookReturns, services, request, history
  <1>5. SettledInv'
    BY DEF TypeOK, SettledInv, Outdated, webcontrol_memcached_hit, AtHook, HookReturns,
           services, request, history
  <1> QED
    BY <1>1, <1>2, <1>3, <1>4, <1>5

\* A miss decides nothing.
LEMMA MissKeeps ==
  ASSUME IndInv, NEW w \in Workers, webcontrol_memcached_miss(w)
  PROVE  IndInv'
  <1> USE Constants DEF IndInv
  <1>1. TypeOK'
    <2>1. "GO_ON" \in Results
      BY DEF Results
    <2>2. i[w] <= Len(plugins)
      BY DEF TypeOK, webcontrol_memcached_miss, AtHook, HookReturns
    <2>3. i' \in [Workers -> 1 .. Len(plugins) + 1]
      BY <2>2 DEF TypeOK, webcontrol_memcached_miss, AtHook, HookReturns
    <2>4. result' \in [Workers -> Results]
      BY <2>1 DEF TypeOK, webcontrol_memcached_miss, AtHook, HookReturns
    <2>5. hostname' \in [Workers -> Hosts \cup {None}]
      BY DEF TypeOK, webcontrol_memcached_miss, AtHook, HookReturns
    <2>6. pc' \in [Workers -> {"idle", "hooks", "search", "respond", "post", "end"}]
      BY DEF TypeOK, webcontrol_memcached_miss, AtHook, HookReturns
    <2> QED
      BY <2>1, <2>2, <2>3, <2>4, <2>5, <2>6 DEF TypeOK, webcontrol_memcached_miss, AtHook,
         HookReturns, services, request, history
  <1>2. WorkerInv'
    BY DEF TypeOK, WorkerInv, Chosen, Decided, webcontrol_memcached_miss, AtHook,
           HookReturns, services, request, history
  <1>3. ReplyInv'
    BY DEF TypeOK, ReplyInv, webcontrol_memcached_miss, AtHook, HookReturns, services,
           request, history
  <1>4. SourceInv'
    BY DEF TypeOK, SourceInv, SaidOf, Chosen, Decided, webcontrol_memcached_miss, AtHook,
           HookReturns, services, request, history
  <1>5. SettledInv'
    BY DEF TypeOK, SettledInv, Outdated, webcontrol_memcached_miss, AtHook, HookReturns,
           services, request, history
  <1> QED
    BY <1>1, <1>2, <1>3, <1>4, <1>5

\* The name of the host that has the address now.
LEMMA RdnsKeeps ==
  ASSUME IndInv, NEW w \in Workers, webcontrol_rdns_lookup(w)
  PROVE  IndInv'
  <1> USE Constants DEF IndInv
  <1>1. TypeOK'
    BY DEF TypeOK, webcontrol_rdns_lookup, AtHook, services, request, history
  <1>2. WorkerInv'
    <2>1. rdns[addr[w]] \in owners[addr[w]]
      BY DEF TypeOK, SourceInv
    <2> QED
      BY <2>1 DEF TypeOK, WorkerInv, Chosen, Decided, webcontrol_rdns_lookup, AtHook,
                  services, request, history
  <1>3. ReplyInv'
    BY DEF TypeOK, ReplyInv, webcontrol_rdns_lookup, AtHook, services, request, history
  <1>4. SourceInv'
    BY DEF TypeOK, SourceInv, SaidOf, Chosen, Decided, webcontrol_rdns_lookup, AtHook,
           services, request, history
  <1>5. SettledInv'
    BY DEF TypeOK, SettledInv, Outdated, webcontrol_rdns_lookup, AtHook, services, request,
           history
  <1> QED
    BY <1>1, <1>2, <1>3, <1>4, <1>5

\* A look-up is what the directory says now about a host that had the address.
LEMMA FoundKeeps ==
  ASSUME IndInv, NEW w \in Workers, webcontrol_activedirectory_found(w)
  PROVE  IndInv'
  <1> USE Constants DEF IndInv
  <1>1. TypeOK'
    <2>1. Decode(directory[hostname[w]]) \in Results
      BY DEF Decode, Results
    <2>2. i[w] <= Len(plugins)
      BY DEF TypeOK, webcontrol_activedirectory_found, AtHook, HookReturns, WorkerInv
    <2>3. i' \in [Workers -> 1 .. Len(plugins) + 1]
      BY <2>2 DEF TypeOK, webcontrol_activedirectory_found, AtHook, HookReturns
    <2>4. result' \in [Workers -> Results]
      BY <2>1 DEF TypeOK, webcontrol_activedirectory_found, AtHook, HookReturns
    <2>5. hostname' \in [Workers -> Hosts \cup {None}]
      BY DEF TypeOK, webcontrol_activedirectory_found, AtHook, HookReturns
    <2>6. pc' \in [Workers -> {"idle", "hooks", "search", "respond", "post", "end"}]
      BY DEF TypeOK, webcontrol_activedirectory_found, AtHook, HookReturns
    <2>7. hostname[w] \in Hosts
      BY DEF TypeOK, WorkerInv, webcontrol_activedirectory_found
    <2>8. looked' \in [Workers -> Values \cup {None}]
      BY <2>7 DEF TypeOK, webcontrol_activedirectory_found, AtHook, HookReturns
    <2> QED
      BY <2>1, <2>2, <2>3, <2>4, <2>5, <2>6, <2>7, <2>8 DEF TypeOK,
         webcontrol_activedirectory_found, AtHook, HookReturns, services, request, history
  <1>2. WorkerInv'
    <2> DEFINE v == directory[hostname[w]]
    <2>1. hostname[w] \in owners[addr[w]] /\ pc[w] = "search"
      BY DEF WorkerInv, webcontrol_activedirectory_found
    <2>2. v \in Values /\ v # None
      BY <2>1 DEF TypeOK
    <2>3. Decode(v) \in {"ALLOW", "DENY"} /\ Decode(v) # "GO_ON"
      BY DEF Decode
    <2> QED
      BY <2>1, <2>2, <2>3 DEF TypeOK, WorkerInv, Chosen, Decided,
                              webcontrol_activedirectory_found, HookReturns, services,
                              request, history
  <1>3. ReplyInv'
    BY DEF TypeOK, ReplyInv, webcontrol_activedirectory_found, HookReturns, services,
           request, history
  <1>4. SourceInv'
    <2>1. hostname[w] \in owners[addr[w]] /\ pc[w] = "search" /\ hostname[w] \in Hosts
      BY DEF TypeOK, WorkerInv, webcontrol_activedirectory_found
    <2>2. directory[hostname[w]] \in said[hostname[w]]
      BY <2>1 DEF SourceInv
    <2>3. directory[hostname[w]] \in SaidOf(addr[w])
      BY <2>1, <2>2 DEF SaidOf
    <2>4. \A a \in Addresses : SaidOf(a)' = SaidOf(a)
      BY DEF SaidOf, webcontrol_activedirectory_found
    <2>5. result'[w] = Decode(directory[hostname[w]])
      BY DEF TypeOK, webcontrol_activedirectory_found, HookReturns, services, request,
             history
    <2> QED
      BY <2>3, <2>4, <2>5 DEF TypeOK, SourceInv, Chosen, Decided,
                              webcontrol_activedirectory_found, HookReturns, services,
                              request, history
  <1>5. SettledInv'
    <2>1. hostname[w] \in owners[addr[w]] /\ hostname[w] # None
      BY DEF TypeOK, WorkerInv, webcontrol_activedirectory_found
    <2> QED
      BY <2>1 DEF TypeOK, SettledInv, Outdated, webcontrol_activedirectory_found,
                  HookReturns, services, request, history
  <1> QED
    BY <1>1, <1>2, <1>3, <1>4, <1>5

\* A look-up that fails decides nothing.
LEMMA FailsKeeps ==
  ASSUME IndInv, NEW w \in Workers, webcontrol_activedirectory_fails(w)
  PROVE  IndInv'
  <1> USE Constants DEF IndInv
  <1>1. TypeOK'
    <2>1. "GO_ON" \in Results
      BY DEF Results
    <2>2. i[w] <= Len(plugins)
      BY DEF TypeOK, webcontrol_activedirectory_fails, AtHook, HookReturns, WorkerInv
    <2>3. i' \in [Workers -> 1 .. Len(plugins) + 1]
      BY <2>2 DEF TypeOK, webcontrol_activedirectory_fails, AtHook, HookReturns
    <2>4. result' \in [Workers -> Results]
      BY <2>1 DEF TypeOK, webcontrol_activedirectory_fails, AtHook, HookReturns
    <2>5. hostname' \in [Workers -> Hosts \cup {None}]
      BY DEF TypeOK, webcontrol_activedirectory_fails, AtHook, HookReturns
    <2>6. pc' \in [Workers -> {"idle", "hooks", "search", "respond", "post", "end"}]
      BY DEF TypeOK, webcontrol_activedirectory_fails, AtHook, HookReturns
    <2> QED
      BY <2>1, <2>2, <2>3, <2>4, <2>5, <2>6 DEF TypeOK, webcontrol_activedirectory_fails,
         AtHook, HookReturns, services, request, history
  <1>2. WorkerInv'
    BY DEF TypeOK, WorkerInv, Chosen, Decided, webcontrol_activedirectory_fails, AtHook,
           HookReturns, services, request, history
  <1>3. ReplyInv'
    BY DEF TypeOK, ReplyInv, webcontrol_activedirectory_fails, AtHook, HookReturns,
           services, request, history
  <1>4. SourceInv'
    BY DEF TypeOK, SourceInv, SaidOf, Chosen, Decided, webcontrol_activedirectory_fails,
           AtHook, HookReturns, services, request, history
  <1>5. SettledInv'
    BY DEF TypeOK, SettledInv, Outdated, webcontrol_activedirectory_fails, AtHook,
           HookReturns, services, request, history
  <1> QED
    BY <1>1, <1>2, <1>3, <1>4, <1>5

\* The end of the hooks.
LEMMA NoDecisionKeeps ==
  ASSUME IndInv, NEW w \in Workers, NoDecision(w)
  PROVE  IndInv'
  <1> USE Constants DEF IndInv
  <1>1. TypeOK'
    BY DEF TypeOK, NoDecision, services, request, history
  <1>2. WorkerInv'
    BY DEF TypeOK, WorkerInv, Chosen, Decided, NoDecision, services, request, history
  <1>3. ReplyInv'
    BY DEF TypeOK, ReplyInv, NoDecision, services, request, history
  <1>4. SourceInv'
    <2>1. ~Decided(w)
      BY DEF WorkerInv, NoDecision
    <2> QED
      BY <2>1 DEF TypeOK, SourceInv, SaidOf, Chosen, Decided, NoDecision, services, request,
                  history
  <1>5. SettledInv'
    BY DEF TypeOK, SettledInv, Outdated, NoDecision, services, request, history
  <1> QED
    BY <1>1, <1>2, <1>3, <1>4, <1>5

\* The answer; only a decision that is no hit goes on to the store.
LEMMA RespondKeeps ==
  ASSUME IndInv, NEW w \in Workers, Respond(w)
  PROVE  IndInv'
  <1> USE Constants DEF IndInv
  <1>1. TypeOK'
    <2>1. Answer(result[w]) \in {"OK", "ERR", None}
      BY DEF Answer, send_response
    <2>2. reply' \in [Workers -> {"OK", "ERR", None}]
      BY <2>1 DEF TypeOK, Respond
    <2>3. pc' \in [Workers -> {"idle", "hooks", "search", "respond", "post", "end"}]
      BY DEF TypeOK, Respond
    <2> QED
      BY <2>1, <2>2, <2>3 DEF TypeOK, Respond, services, request, history
  <1>2. WorkerInv'
    BY DEF TypeOK, WorkerInv, Chosen, Decided, Respond, services, request, history
  <1>3. ReplyInv'
    BY DEF TypeOK, ReplyInv, Respond, services, request, history
  <1>4. SourceInv'
    BY DEF TypeOK, SourceInv, SaidOf, Chosen, Decided, Respond, services, request, history
  <1>5. SettledInv'
    BY DEF TypeOK, SettledInv, Outdated, Respond, services, request, history
  <1> QED
    BY <1>1, <1>2, <1>3, <1>4, <1>5

\* The store writes back what was looked up.
LEMMA StoreKeeps ==
  ASSUME IndInv, NEW w \in Workers, webcontrol_memcached_post_handle_request(w)
  PROVE  IndInv'
  <1> USE Constants DEF IndInv
  <1>1. TypeOK'
    <2>1. Encode(result[w]) \in Values
      BY DEF Encode, Values
    <2>2. cache' \in [Addresses -> Values \cup {None}]
      BY <2>1 DEF TypeOK, webcontrol_memcached_post_handle_request
    <2> QED
      BY <2>1, <2>2 DEF TypeOK, webcontrol_memcached_post_handle_request, services, request,
                        history
  <1>2. WorkerInv'
    BY DEF TypeOK, WorkerInv, Chosen, Decided, webcontrol_memcached_post_handle_request,
           services, request, history
  <1>3. ReplyInv'
    BY DEF TypeOK, ReplyInv, webcontrol_memcached_post_handle_request, services, request,
           history
  <1>4. SourceInv'
    <2>1. /\ looked[w] \in Values /\ result[w] = Decode(looked[w])
          /\ Chosen(w) /\ Decided(w)
      BY DEF TypeOK, WorkerInv, Chosen, Decided, webcontrol_memcached_post_handle_request
    <2>2. PICK v \in SaidOf(addr[w]) : Decode(v) = result[w]
      BY <2>1 DEF SourceInv
    <2>3. v \in Values
      BY DEF TypeOK, SaidOf
    <2>4. Encode(result[w]) = v
      BY <2>2, <2>3, EncodeDecode
    <2>5. \A a \in Addresses : SaidOf(a)' = SaidOf(a)
      BY DEF SaidOf, webcontrol_memcached_post_handle_request, services, request, history
    <2>6. \A a \in Addresses : cache'[a] # None => cache'[a] \in SaidOf(a)
      BY <2>4 DEF TypeOK, SourceInv, webcontrol_memcached_post_handle_request
    <2> QED
      BY <2>5, <2>6 DEF TypeOK, SourceInv, Chosen, Decided,
                        webcontrol_memcached_post_handle_request, services, request, history
  <1>5. SettledInv'
    <2>1. looked[w] \in Values /\ looked[w] # None /\ result[w] = Decode(looked[w])
      BY DEF TypeOK, WorkerInv, Chosen, Decided, webcontrol_memcached_post_handle_request
    <2>2. Encode(result[w]) = looked[w]
      BY <2>1, EncodeDecode
    <2> QED
      BY <2>1, <2>2 DEF TypeOK, SettledInv, Outdated,
                        webcontrol_memcached_post_handle_request, services, request, history
  <1> QED
    BY <1>1, <1>2, <1>3, <1>4, <1>5

\* The worker forgets its look-up.
LEMMA EndRequestKeeps ==
  ASSUME IndInv, NEW w \in Workers, EndRequest(w)
  PROVE  IndInv'
  <1> USE Constants DEF IndInv
  <1>1. TypeOK'
    BY DEF TypeOK, EndRequest, services, request, history
  <1>2. WorkerInv'
    BY DEF TypeOK, WorkerInv, Chosen, Decided, EndRequest, services, request, history
  <1>3. ReplyInv'
    BY DEF TypeOK, ReplyInv, EndRequest, services, request, history
  <1>4. SourceInv'
    BY DEF TypeOK, SourceInv, SaidOf, Chosen, Decided, EndRequest, services, request,
           history
  <1>5. SettledInv'
    BY DEF TypeOK, SettledInv, Outdated, EndRequest, services, request, history
  <1> QED
    BY <1>1, <1>2, <1>3, <1>4, <1>5

-----------------------------------------------------------------------------
(* The theorems *)

\* The invariant holds initially and every step of a service or a worker keeps it.
LEMMA Inductive == Spec => []IndInv
  <1>1. Init => IndInv
    <2> SUFFICES ASSUME Init PROVE IndInv
      OBVIOUS
    <2>1. TypeOK
      <3>1. i \in [Workers -> 1 .. Len(plugins) + 1]
        BY Constants DEF Init
      <3>2. changes \in 0 .. MaxChanges
        BY ChainAssumption DEF Init
      <3>3. result \in [Workers -> Results]
        BY DEF Init, Results
      <3>4. skip \in [Workers -> BOOLEAN] /\ settled \in [Addresses -> BOOLEAN]
        BY DEF Init
      <3>5. owners \in [Addresses -> SUBSET Hosts] /\ said \in [Hosts -> SUBSET Values]
        BY DEF Init
      <3> QED
        BY <3>1, <3>2, <3>3, <3>4, <3>5 DEF Init, TypeOK
    <2>2. WorkerInv
      BY DEF Init, WorkerInv, Chosen, Decided
    <2>3. ReplyInv
      BY DEF Init, ReplyInv
    <2>4. SourceInv
      BY DEF Init, SourceInv, Chosen, Decided
    <2>5. SettledInv
      BY DEF Init, SettledInv
    <2> QED
      BY <2>1, <2>2, <2>3, <2>4, <2>5 DEF IndInv
  <1>2. IndInv /\ [Next]_vars => IndInv'
    <2> SUFFICES ASSUME IndInv, [Next]_vars PROVE IndInv'
      OBVIOUS
    <2>1. CASE \E a \in Addresses : Evict(a) \/ \E h \in Hosts : ChangeOwner(a, h)
      BY <2>1, EvictKeeps, ChangeOwnerKeeps
    <2>2. CASE \E h \in Hosts, v \in Values : ChangeDirectory(h, v)
      BY <2>2, ChangeDirectoryKeeps
    <2>3. ASSUME NEW w \in Workers, WorkerStep(w) PROVE IndInv'
      BY <2>3, HitKeeps, MissKeeps, RdnsKeeps, FoundKeeps, FailsKeeps, NoDecisionKeeps,
         RespondKeeps, StoreKeeps, EndRequestKeeps DEF WorkerStep
    <2>4. ASSUME NEW w \in Workers, NEW a \in Addresses, StartRequest(w, a) PROVE IndInv'
      BY <2>4, StartRequestKeeps
    <2>5. CASE UNCHANGED vars
      BY <2>5 DEF vars, services, request, history, IndInv, TypeOK, WorkerInv, ReplyInv,
                  SourceInv, SettledInv, Chosen, Decided, SaidOf, Outdated
    <2> QED
      BY <2>1, <2>2, <2>3, <2>4, <2>5 DEF Next
  <1> QED
    BY <1>1, <1>2, PTL DEF Spec

\* The variables keep their types: the cache holds the two words that
\* webcontrol_memcached_post_handle_request writes, and nothing else, and the
\* loop over the hooks (main.c:291) stays within the plugins.
THEOREM TypeCorrect == Spec => []TypeOK
  <1>1. IndInv => TypeOK
    BY DEF IndInv
  <1> QED
    BY <1>1, Inductive, PTL

\* Whatever is cached for an address or answered as a decision about it has been
\* said by the directory about a host that had this address (main.c:303-330).
THEOREM DirectoryDecides == Spec => []OnlyDirectoryDecides
  <1>1. ASSUME IndInv PROVE OnlyDirectoryDecides
    <2> USE <1>1 DEF IndInv
    <2>1. ASSUME NEW w \in Workers, pc[w] \in {"post", "end"}, result[w] \in {"ALLOW", "DENY"}
          PROVE  \E v \in SaidOf(addr[w]) :
                   /\ Decode(v) = result[w]
                   /\ reply[w] = IF v = "TRUE" THEN "OK" ELSE "ERR"
      <3>1. PICK v \in SaidOf(addr[w]) : Decode(v) = result[w]
        BY <2>1 DEF SourceInv, Chosen, Decided
      <3>2. v \in Values
        BY DEF TypeOK, SaidOf
      <3>3. reply[w] = Answer(Decode(v))
        BY <2>1, <3>1 DEF ReplyInv
      <3> QED
        BY <3>1, <3>2, <3>3, EncodeDecode
    <2> QED
      BY <2>1 DEF OnlyDirectoryDecides, SourceInv
  <1> QED
    BY <1>1, Inductive, PTL

\* The first decision counts: no request has both a hit and a look-up, and none
\* that has either is given the default answer (main.c:303-307).
THEOREM DecisionsCount == Spec => []FirstDecisionCounts
  <1>1. ASSUME IndInv PROVE FirstDecisionCounts
    <2> SUFFICES ASSUME NEW w \in Workers
                 PROVE  /\ ~ (skip[w] /\ looked[w] # None)
                        /\ pc[w] \in {"respond", "post", "end"} /\ (skip[w] \/ looked[w] # None)
                             => result[w] \in {"ALLOW", "DENY"}
      BY DEF FirstDecisionCounts
    <2>1. looked[w] # None => Decode(looked[w]) \in {"ALLOW", "DENY"}
      BY DEF Decode
    <2> QED
      BY <1>1, <2>1 DEF IndInv, WorkerInv, Chosen, Decided
  <1> QED
    BY <1>1, Inductive, PTL

\* An outdated entry that is dropped does not come back (webcontrol_memcached.c:147):
\* what a worker may still store is what it has looked up, and while an address is
\* settled no worker holds an outdated name or look-up for it.
THEOREM CacheStaysSettled == Spec => []CacheSettles
  <1>1. IndInv => CacheSettles
    BY DEF IndInv, SettledInv, CacheSettles
  <1> QED
    BY <1>1, Inductive, PTL
=============================================================================
