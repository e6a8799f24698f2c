----------------------- MODULE PluginLifecycleProofs -----------------------
(***************************************************************************)
(* Proofs about PluginLifecycle for any number of workers, any lists of      *)
(* plugins the array has room for, repeated names included, and any size of  *)
(* a block of options.                                                      *)
(***************************************************************************)
EXTENDS PluginLifecycle, SequenceTheorems, FiniteSetTheorems, TLAPS

-----------------------------------------------------------------------------
(* The inductive invariant *)

\* TypeOK in four parts, so that a proof can cite what it needs.
MainType ==
  /\ mpc \in {"load", "options", "parse", "apply", "config", "loop", "join", "free",
              "exited", "crashed"}
  /\ k \in Nat \ {0}
  /\ plugin_list \in PluginLists
  /\ plugins \in Seq(Names)
DataType ==
  /\ mapped \in [Names -> Nat]
  /\ data \in Seq({"raw", "ready", "gone"}) /\ Len(data) = Len(plugins)
  /\ watching \subseteq Of("txtfile")
OptionType ==
  /\ num_opts \in Nat /\ num_slots \in Nat
  /\ parsed \in {"not yet", "CFG_SUCCESS", "CFG_FILE_ERROR", "CFG_PARSE_ERROR"}
  /\ default_behavior \in {"deny", "allow", "NULL"}
  /\ uri \subseteq Of("activedirectory") /\ servers \in {"none", "owned", "freed"}
ThreadType ==
  /\ wpc \in [Workers -> {"none", "init", "serve", "free", "exit", "gone"}]
  /\ conn \in [Workers -> Seq({"none", "open", "lost", "closed"})]

\* While sections are added there is always room for CFG_END.
SlotInv ==
  /\ num_opts <= num_slots
  /\ mpc = "options" => num_opts < num_slots

\* What has become of the data of plugin p when main is where it is.
Stage(p) ==
  CASE mpc = "config"           -> IF p < k THEN "ready" ELSE "raw"
    [] mpc \in {"loop", "join"} -> "ready"
    [] mpc = "free"             -> IF p < k THEN "gone" ELSE "ready"
    [] mpc = "exited"           -> IF parsed = "CFG_PARSE_ERROR" THEN "raw" ELSE "gone"
    [] OTHER                    -> "raw"

\* A library is held once for each of its plugins that has data, and a watcher
\* runs only for a plugin that has.
DataInv ==
  /\ parsed = "CFG_PARSE_ERROR" => mpc = "exited"
  /\ mpc # "crashed" => \A p \in 1 .. Len(plugins) : data[p] = Stage(p)
  /\ \A n \in Names : mapped[n] = Cardinality(Live(n))
  /\ \A i \in watching : data[i] \in {"raw", "ready"}

\* Workers run only while main is in the loop or joins them.
ThreadInv ==
  \A w \in Workers :
    /\ mpc \notin {"loop", "join", "free", "exited", "crashed"} => wpc[w] = "none"
    /\ mpc \in {"free", "exited", "crashed"} => wpc[w] \in {"none", "gone"}

\* The hooks worker w has called so far are those of a prefix of the plugins.
Called(w) == 1 .. Len(conn[w])

\* The last plugin of library n that w has passed is the one it is connected to.
LatestOpen(w, n) ==
  \E i \in Called(w) : /\ plugins[i] = n /\ conn[w][i] = "open"
                       /\ \A j \in Called(w) : plugins[j] = n => j <= i

\* Connection i of w was given up to a later plugin of its library.
Displaced(w, i) ==
  \E j \in Called(w) : /\ i < j /\ plugins[j] = plugins[i]
                       /\ conn[w][j] \in {"open", "closed"}

ConnInv ==
  \A w \in Workers :
    /\ wpc[w] = "none" => conn[w] = << >>
    /\ Len(conn[w]) <= Len(plugins)
    /\ wpc[w] = "serve" => Len(conn[w]) = Len(plugins)
    /\ wpc[w] = "gone" => \A i \in Called(w) : conn[w][i] # "open"
    /\ wpc[w] \in {"init", "serve"} =>
         \A n \in HasThreadKey : (\E i \in Called(w) : plugins[i] = n) => LatestOpen(w, n)
    /\ \A i \in Called(w) : conn[w][i] = "lost" =>
         \/ wpc[w] \in {"free", "exit", "gone"} /\ i = Len(conn[w])
         \/ Displaced(w, i)

MainInv    == MainType /\ DataType /\ OptionType /\ SlotInv /\ DataInv
WorkersInv == ThreadType /\ ThreadInv /\ ConnInv
IndInv     == MainInv /\ WorkersInv

-----------------------------------------------------------------------------
(* Facts about the plugins of one library *)

\* There are finitely many plugins.
LEMMA LiveFinite ==
  ASSUME MainType, NEW n
  PROVE  IsFiniteSet(Live(n))
  <1>1. Len(plugins) \in Nat
    BY DEF MainType
  <1>2. IsFiniteSet(1 .. Len(plugins))
    BY <1>1, FS_Interval
  <1>3. Live(n) \subseteq 1 .. Len(plugins)
    BY DEF Live, Of
  <1> QED
    BY <1>2, <1>3, FS_Subset

\* A library is mapped while one of its plugins has data.
LEMMA LiveMapped ==
  ASSUME MainType, DataType, DataInv,
         NEW i \in 1 .. Len(plugins), data[i] \in {"raw", "ready"}
  PROVE  mapped[plugins[i]] > 0
  <1> DEFINE n == plugins[i]
  <1>1. n \in Names /\ i \in Live(n)
    BY DEF MainType, Live, Of
  <1>2. IsFiniteSet(Live(n))
    BY LiveFinite
  <1>3. mapped[n] = Cardinality(Live(n)) /\ mapped[n] \in Nat
    BY <1>1 DEF DataInv, DataType
  <1>4. mapped[n] # 0
    BY <1>1, <1>2, <1>3, FS_EmptySet
  <1> QED
    BY <1>3, <1>4

-----------------------------------------------------------------------------
(* What the steps of the others leave alone *)

\* Steps of the workers do not change what main keeps.
LEMMA MainFrame ==
  ASSUME MainInv, UNCHANGED <<mpc, k, plugin_list, loaded, options>>
  PROVE  MainInv'
  <1> USE DEF MainInv, loaded, options, config
  <1>1. MainType' /\ DataType' /\ OptionType'
    BY DEF MainType, DataType, OptionType, Of
  <1>2. SlotInv'
    BY DEF SlotInv
  <1>3. DataInv'
    BY DEF DataInv, Stage, Live, Of
  <1> QED
    BY <1>1, <1>2, <1>3

\* Most steps of main do not change what the workers keep.
LEMMA ThreadsFrame ==
  ASSUME ThreadType, ConnInv, UNCHANGED <<plugins, threads>>
  PROVE  ThreadType' /\ ConnInv'
  BY DEF ThreadType, ConnInv, Called, LatestOpen, Displaced, threads

\* Nor do they load or free a plugin: it is left to show that main is where its
\* plugins have the data they should.
LEMMA MainMoves ==
  ASSUME IndInv, UNCHANGED <<plugin_list, loaded, threads>>,
         MainType', OptionType', SlotInv', ThreadInv',
         parsed' = "CFG_PARSE_ERROR" => mpc' = "exited",
         mpc' # "crashed" => \A p \in 1 .. Len(plugins) : data[p] = Stage(p)'
  PROVE  IndInv'
  <1> USE DEF IndInv, MainInv, WorkersInv, loaded
  <1>1. DataType'
    BY DEF DataType, Of
  <1>2. DataInv'
    BY DEF DataInv, Live, Of
  <1>3. ThreadType' /\ ConnInv'
    BY ThreadsFrame
  <1> QED
    BY <1>1, <1>2, <1>3

-----------------------------------------------------------------------------
(* One lemma per action *)

\* A plugin is added, and its library opened once more.
LEMMA LoadKeeps ==
  ASSUME IndInv, NEW n \in Names, plugin_load(n)
  PROVE  IndInv'
  <1> USE DEF IndInv, WorkersInv, MainInv
  <1> DEFINE L == Len(plugins)
  <1>1. /\ L \in Nat /\ Len(data) = L
        /\ Len(plugins') = L + 1 /\ Len(data') = L + 1
        /\ \A p \in 1 .. L : plugins'[p] = plugins[p] /\ data'[p] = data[p]
        /\ plugins'[L + 1] = n /\ data'[L + 1] = "raw"
        /\ plugins' \in Seq(Names) /\ data' \in Seq({"raw", "ready", "gone"})
    <2>1. plugins \in Seq(Names) /\ data \in Seq({"raw", "ready", "gone"}) /\ Len(data) = L
      BY DEF MainType, DataType
    <2>2. plugins' = Append(plugins, n) /\ data' = Append(data, "raw")
      BY DEF plugin_load
    <2> QED
      BY <2>1, <2>2
  <1>2. /\ mpc = "load" /\ mpc' = "load" /\ k' = k + 1
        /\ UNCHANGED <<plugin_list, options, threads>>
        /\ mapped' = [mapped EXCEPT ![n] = @ + 1]
        /\ watching' = IF n = "txtfile" THEN watching \cup {L + 1} ELSE watching
    BY <1>1 DEF plugin_load, MainAt, Repeat
  <1> HIDE DEF L
  <1>3. \A m : Of(m)' = IF m = n THEN Of(m) \cup {L + 1} ELSE Of(m)
    BY <1>1 DEF Of, L
  <1>4. \A m : Live(m)' = IF m = n THEN Live(m) \cup {L + 1} ELSE Live(m)
    BY <1>1 DEF Live, Of, L
  <1>5. MainType'
    BY <1>1, <1>2 DEF MainType
  <1>6. DataType'
    <2>1. mapped' \in [Names -> Nat]
      BY <1>2 DEF DataType
    <2>2. watching' \subseteq Of("txtfile")'
      BY <1>2, <1>3 DEF DataType
    <2> QED
      BY <1>1, <2>1, <2>2 DEF DataType
  <1>7. OptionType' /\ SlotInv'
    BY <1>2, <1>3 DEF OptionType, SlotInv, options, config
  <1>8. DataInv'
    <2>1. \A p \in 1 .. L : data[p] = "raw"
      BY <1>2 DEF DataInv, Stage, L
    <2>2. \A p \in 1 .. Len(plugins') : data'[p] = Stage(p)'
      BY <1>1, <1>2, <2>1 DEF Stage
    <2>3. ASSUME NEW m \in Names PROVE mapped'[m] = Cardinality(Live(m)')
      <3>1. mapped[m] = Cardinality(Live(m)) /\ IsFiniteSet(Live(m)) /\ L + 1 \notin Live(m)
        <4>1. mapped[m] = Cardinality(Live(m))
          BY DEF DataInv
        <4>2. IsFiniteSet(Live(m))
          BY LiveFinite
        <4>3. L + 1 \notin Live(m)
          BY <1>1 DEF Live, Of, L
        <4> QED
          BY <4>1, <4>2, <4>3
      <3>2. m = n => Cardinality(Live(m) \cup {L + 1}) = Cardinality(Live(m)) + 1
        BY <3>1, FS_AddElement
      <3> QED
        BY <1>2, <1>4, <3>1, <3>2 DEF DataType
    <2>4. \A i \in watching' : data'[i] \in {"raw", "ready"}
      BY <1>1, <1>2 DEF DataInv, DataType, Of, L
    <2>5. parsed' = parsed
      BY <1>2 DEF options, config
    <2> QED
      BY <1>2, <2>2, <2>3, <2>4, <2>5 DEF DataInv
  <1>9. ThreadInv'
    BY <1>2 DEF ThreadInv, threads
  <1>10. ThreadType'
    BY <1>2 DEF ThreadType, threads
  <1>11. ConnInv'
    <2>1. \A w \in Workers : wpc'[w] = "none" /\ conn'[w] = << >> /\ Len(conn'[w]) = 0
      BY <1>2 DEF ThreadInv, ConnInv, threads
    <2> QED
      BY <1>1, <2>1 DEF ConnInv, Called
  <1> QED
    BY <1>5, <1>6, <1>7, <1>8, <1>9, <1>10, <1>11

\* A plugin that fails to load leaves nothing.
LEMMA LoadFailsKeeps ==
  ASSUME IndInv, NEW n \in Names, plugin_load_fails(n)
  PROVE  IndInv'
  <1> USE DEF IndInv, WorkersInv, MainInv
  <1>1. UNCHANGED <<plugin_list, loaded, threads>>
    BY DEF plugin_load_fails
  <1>2. MainType'
    BY DEF MainType, plugin_load_fails, Repeat, loaded
  <1>3. OptionType'
    BY <1>1 DEF OptionType, Of, plugin_load_fails, loaded, options, config
  <1>4. SlotInv'
    BY DEF OptionType, SlotInv, plugin_load_fails, Repeat, MainAt, options, config
  <1>5. ThreadInv'
    BY DEF ThreadInv, plugin_load_fails, Repeat, MainAt, threads
  <1>6. parsed' = "CFG_PARSE_ERROR" => mpc' = "exited"
    BY DEF DataInv, plugin_load_fails, Repeat, MainAt, options, config
  <1>7. mpc' # "crashed" => \A p \in 1 .. Len(plugins) : data[p] = Stage(p)'
    BY DEF MainType, DataInv, Stage, plugin_load_fails, Repeat, MainAt, options, config
  <1> QED
    BY <1>1, <1>2, <1>3, <1>4, <1>5, <1>6, <1>7, MainMoves

\* The first block is larger than the options of the core.
LEMMA CoreOptionsKeeps ==
  ASSUME IndInv, CoreOptions
  PROVE  IndInv'
  <1> USE DEF IndInv, WorkersInv, MainInv
  <1>1. UNCHANGED <<plugin_list, loaded, threads>>
    BY DEF CoreOptions
  <1>2. MainType'
    BY DEF MainType, CoreOptions, Proceed, loaded
  <1>3. OptionType'
    BY <1>1, LifecycleAssumption DEF OptionType, Of, CoreOptions, loaded, config
  <1>4. SlotInv'
    BY LifecycleAssumption DEF SlotInv, CoreOptions
  <1>5. ThreadInv'
    BY DEF ThreadInv, CoreOptions, Proceed, MainAt, threads
  <1>6. parsed' = "CFG_PARSE_ERROR" => mpc' = "exited"
    BY DEF DataInv, CoreOptions, Proceed, MainAt, options, config
  <1>7. mpc' # "crashed" => \A p \in 1 .. Len(plugins) : data[p] = Stage(p)'
    BY DEF MainType, DataInv, Stage, CoreOptions, Proceed, MainAt, options, config
  <1> QED
    BY <1>1, <1>2, <1>3, <1>4, <1>5, <1>6, <1>7, MainMoves

\* The table grows when only the place of CFG_END is left.
LEMMA AddSectionKeeps ==
  ASSUME IndInv, AddSection
  PROVE  IndInv'
  <1> USE DEF IndInv, WorkersInv, MainInv
  <1>1. UNCHANGED <<plugin_list, loaded, threads>>
    BY DEF AddSection
  <1>2. MainType'
    BY DEF MainType, AddSection, Repeat, loaded
  <1>3. OptionType'
    <2>1. num_opts \in Nat /\ num_slots \in Nat
      BY DEF OptionType
    <2>2. num_opts' \in Nat
      BY <2>1 DEF AddSection
    <2>3. num_slots' \in Nat
      BY <2>1, LifecycleAssumption DEF AddSection
    <2> QED
      BY <1>1, <2>2, <2>3 DEF OptionType, Of, AddSection, loaded, config
  <1>4. SlotInv'
    <2>1. num_opts \in Nat /\ num_slots \in Nat /\ num_opts < num_slots
      BY DEF OptionType, SlotInv, AddSection, MainAt
    <2>2. num_opts + 1 < num_slots'
      BY <2>1, LifecycleAssumption DEF AddSection
    <2> QED
      BY <2>1, <2>2, LifecycleAssumption DEF SlotInv, AddSection
  <1>5. ThreadInv'
    BY DEF ThreadInv, AddSection, Repeat, MainAt, threads
  <1>6. parsed' = "CFG_PARSE_ERROR" => mpc' = "exited"
    BY DEF DataInv, AddSection, Repeat, MainAt, options, config
  <1>7. mpc' # "crashed" => \A p \in 1 .. Len(plugins) : data[p] = Stage(p)'
    BY DEF MainType, DataInv, Stage, AddSection, Repeat, MainAt, options, config
  <1> QED
    BY <1>1, <1>2, <1>3, <1>4, <1>5, <1>6, <1>7, MainMoves

\* CFG_END has a place.
LEMMA EndOptionsKeeps ==
  ASSUME IndInv, EndOptions
  PROVE  IndInv'
  <1> USE DEF IndInv, WorkersInv, MainInv
  <1>1. UNCHANGED <<plugin_list, loaded, threads>>
    BY DEF EndOptions
  <1>2. MainType'
    BY DEF MainType, EndOptions, Proceed, loaded
  <1>3. OptionType'
    <2>1. num_opts' \in Nat
      <3>1. num_opts \in Nat /\ num_opts' = num_opts + 1
        BY DEF OptionType, EndOptions
      <3> QED
        BY <3>1
    <2>2. servers' \in {"none", "owned", "freed"}
      BY DEF OptionType, EndOptions
    <2> QED
      BY <1>1, <2>1, <2>2 DEF OptionType, Of, EndOptions, loaded
  <1>4. SlotInv'
    <2>1. num_opts \in Nat /\ num_slots \in Nat /\ num_opts < num_slots
      BY DEF OptionType, SlotInv, EndOptions, MainAt
    <2> QED
      BY <2>1 DEF SlotInv, EndOptions, Proceed
  <1>5. ThreadInv'
    BY DEF ThreadInv, EndOptions, Proceed, MainAt, threads
  <1>6. parsed' = "CFG_PARSE_ERROR" => mpc' = "exited"
    BY DEF DataInv, EndOptions, Proceed, MainAt, options, config
  <1>7. mpc' # "crashed" => \A p \in 1 .. Len(plugins) : data[p] = Stage(p)'
    BY DEF MainType, DataInv, Stage, EndOptions, Proceed, MainAt, options, config
  <1> QED
    BY <1>1, <1>2, <1>3, <1>4, <1>5, <1>6, <1>7, MainMoves

\* No file.
LEMMA ParseFileErrorKeeps ==
  ASSUME IndInv, ParseFileError
  PROVE  IndInv'
  <1> USE DEF IndInv, WorkersInv, MainInv
  <1>1. UNCHANGED <<plugin_list, loaded, threads>>
    BY DEF ParseFileError
  <1>2. MainType'
    BY DEF MainType, ParseFileError, Proceed, loaded
  <1>3. OptionType'
    BY <1>1 DEF OptionType, Of, ParseFileError, loaded, options, config
  <1>4. SlotInv'
    BY DEF OptionType, SlotInv, ParseFileError, Proceed, MainAt, options, config
  <1>5. ThreadInv'
    BY DEF ThreadInv, ParseFileError, Proceed, MainAt, threads
  <1>6. parsed' = "CFG_PARSE_ERROR" => mpc' = "exited"
    BY DEF DataInv, ParseFileError, Proceed, MainAt, options, config
  <1>7. mpc' # "crashed" => \A p \in 1 .. Len(plugins) : data[p] = Stage(p)'
    BY DEF MainType, DataInv, Stage, ParseFileError, Proceed, MainAt, options, config
  <1> QED
    BY <1>1, <1>2, <1>3, <1>4, <1>5, <1>6, <1>7, MainMoves

\* exit(-1), with the libraries open.
LEMMA ParseErrorKeeps ==
  ASSUME IndInv, ParseError
  PROVE  IndInv'
  <1> USE DEF IndInv, WorkersInv, MainInv
  <1>1. UNCHANGED <<plugin_list, loaded, threads>>
    BY DEF ParseError
  <1>2. MainType'
    BY DEF MainType, ParseError, Proceed, loaded
  <1>3. OptionType'
    BY <1>1 DEF OptionType, Of, ParseError, loaded, options, config
  <1>4. SlotInv'
    BY DEF OptionType, SlotInv, ParseError, Proceed, MainAt, options, config
  <1>5. ThreadInv'
    BY DEF ThreadInv, ParseError, Proceed, MainAt, threads
  <1>6. parsed' = "CFG_PARSE_ERROR" => mpc' = "exited"
    BY DEF DataInv, ParseError, Proceed, MainAt, options, config
  <1>7. mpc' # "crashed" => \A p \in 1 .. Len(plugins) : data[p] = Stage(p)'
    BY DEF MainType, DataInv, Stage, ParseError, Proceed, MainAt, options, config
  <1> QED
    BY <1>1, <1>2, <1>3, <1>4, <1>5, <1>6, <1>7, MainMoves

\* The file is read.
LEMMA ParseSuccessKeeps ==
  ASSUME IndInv, NEW behavior \in {"deny", "allow", "NULL"}, NEW list \in {"none", "owned"},
         NEW with_uri \in SUBSET Of("activedirectory"),
         ParseSuccess(behavior, with_uri, list)
  PROVE  IndInv'
  <1> USE DEF IndInv, WorkersInv, MainInv
  <1>1. UNCHANGED <<plugin_list, loaded, threads>>
    BY DEF ParseSuccess
  <1>2. MainType'
    BY DEF MainType, ParseSuccess, Proceed, loaded
  <1>3. OptionType'
    BY <1>1 DEF OptionType, Of, ParseSuccess, loaded, options, config
  <1>4. SlotInv'
    BY DEF OptionType, SlotInv, ParseSuccess, Proceed, MainAt, options, config
  <1>5. ThreadInv'
    BY DEF ThreadInv, ParseSuccess, Proceed, MainAt, threads
  <1>6. parsed' = "CFG_PARSE_ERROR" => mpc' = "exited"
    BY DEF DataInv, ParseSuccess, Proceed, MainAt, options, config
  <1>7. mpc' # "crashed" => \A p \in 1 .. Len(plugins) : data[p] = Stage(p)'
    BY DEF MainType, DataInv, Stage, ParseSuccess, Proceed, MainAt, options, config
  <1> QED
    BY <1>1, <1>2, <1>3, <1>4, <1>5, <1>6, <1>7, MainMoves

\* The options of the core are applied, or the program is killed.
LEMMA ApplyConfigKeeps ==
  ASSUME IndInv, ApplyConfig
  PROVE  IndInv'
  <1> USE DEF IndInv, WorkersInv, MainInv
  <1>1. UNCHANGED <<plugin_list, loaded, threads>>
    BY DEF ApplyConfig
  <1>2. MainType'
    BY DEF MainType, ApplyConfig, Proceed, loaded
  <1>3. OptionType'
    BY <1>1 DEF OptionType, Of, ApplyConfig, loaded, options, config
  <1>4. SlotInv'
    BY DEF OptionType, SlotInv, ApplyConfig, Proceed, MainAt, options, config
  <1>5. ThreadInv'
    BY DEF ThreadInv, ApplyConfig, Proceed, MainAt, threads
  <1>6. parsed' = "CFG_PARSE_ERROR" => mpc' = "exited"
    BY DEF DataInv, ApplyConfig, Proceed, MainAt, options, config
  <1>7. mpc' # "crashed" => \A p \in 1 .. Len(plugins) : data[p] = Stage(p)'
    BY DEF MainType, DataInv, Stage, ApplyConfig, Proceed, MainAt, options, config
  <1> QED
    BY <1>1, <1>2, <1>3, <1>4, <1>5, <1>6, <1>7, MainMoves

\* Plugin k is configured.
LEMMA ConfigParsedKeeps ==
  ASSUME IndInv, config_file_parsed
  PROVE  IndInv'
  <1> USE DEF IndInv, WorkersInv, MainInv
  <1>1. Len(plugins) \in Nat /\ k \in 1 .. Len(plugins) /\ DOMAIN data = 1 .. Len(plugins)
    BY DEF MainType, DataType, config_file_parsed
  <1>2. /\ mpc = "config" /\ mpc' = "config" /\ k' = k + 1
        /\ UNCHANGED <<plugin_list, plugins, mapped, watching, num_opts, num_slots, parsed,
                       default_behavior, uri, threads>>
        /\ servers' \in {servers, "freed"}
        /\ data' = [data EXCEPT ![k] = "ready"]
    BY DEF config_file_parsed, MainAt, Repeat
  <1>3. \A p \in 1 .. Len(plugins) : data[p] = IF p < k THEN "ready" ELSE "raw"
    BY <1>2 DEF DataInv, Stage
  <1>4. \A p \in 1 .. Len(plugins) : data'[p] = IF p < k + 1 THEN "ready" ELSE "raw"
    BY <1>1, <1>2, <1>3
  <1>5. MainType'
    BY <1>2 DEF MainType
  <1>6. DataType'
    <2>1. data' \in Seq({"raw", "ready", "gone"}) /\ Len(data') = Len(data)
      BY <1>1, <1>2, ExceptSeq DEF DataType
    <2> QED
      BY <1>2, <2>1 DEF DataType, Of
  <1>7. OptionType' /\ SlotInv'
    BY <1>2 DEF OptionType, SlotInv, Of
  <1>8. DataInv'
    <2>1. \A p \in 1 .. Len(plugins) : data'[p] = Stage(p)'
      BY <1>2, <1>4 DEF Stage
    <2>2. \A n : Live(n)' = Live(n)
      BY <1>1, <1>2, <1>3, <1>4 DEF Live, Of
    <2>3. \A i \in watching : data'[i] \in {"raw", "ready"}
      BY <1>4 DEF DataType, Of
    <2> QED
      BY <1>2, <2>1, <2>2, <2>3 DEF DataInv
  <1>9. ThreadInv'
    BY <1>2 DEF ThreadInv, threads
  <1>10. ThreadType' /\ ConnInv'
    BY <1>2, ThreadsFrame
  <1> QED
    BY <1>5, <1>6, <1>7, <1>8, <1>9, <1>10

\* A second memcached plugin may end the program.
LEMMA ConfigDiesKeeps ==
  ASSUME IndInv, config_file_parsed_dies
  PROVE  IndInv'
  <1> USE DEF IndInv, WorkersInv, MainInv
  <1>1. UNCHANGED <<plugin_list, loaded, threads>>
    BY DEF config_file_parsed_dies
  <1>2. MainType'
    BY DEF MainType, config_file_parsed_dies, Proceed, loaded
  <1>3. OptionType'
    BY <1>1 DEF OptionType, Of, config_file_parsed_dies, loaded, options, config
  <1>4. SlotInv'
    BY DEF OptionType, SlotInv, config_file_parsed_dies, Proceed, MainAt, options, config
  <1>5. ThreadInv'
    BY DEF ThreadInv, config_file_parsed_dies, Proceed, MainAt, threads
  <1>6. parsed' = "CFG_PARSE_ERROR" => mpc' = "exited"
    BY DEF DataInv, config_file_parsed_dies, Proceed, MainAt, options, config
  <1>7. mpc' # "crashed" => \A p \in 1 .. Len(plugins) : data[p] = Stage(p)'
    BY DEF MainType, DataInv, Stage, config_file_parsed_dies, Proceed, MainAt, options, config
  <1> QED
    BY <1>1, <1>2, <1>3, <1>4, <1>5, <1>6, <1>7, MainMoves

\* All plugins are configured when the workers are started.
LEMMA StartWorkersKeeps ==
  ASSUME IndInv, StartWorkers
  PROVE  IndInv'
  <1> USE DEF IndInv, WorkersInv, MainInv
  <1>1. /\ mpc = "config" /\ mpc' = "loop" /\ k' = 1 /\ k > Len(plugins)
        /\ UNCHANGED <<plugin_list, loaded, options, conn>>
        /\ wpc' = [w \in Workers |-> "init"]
    BY DEF StartWorkers, MainAt, Proceed
  <1>2. MainType'
    BY <1>1 DEF MainType, loaded
  <1>3. DataType' /\ OptionType' /\ SlotInv'
    BY <1>1 DEF DataType, OptionType, SlotInv, Of, loaded, options, config
  <1>4. DataInv'
    <2>1. \A p \in 1 .. Len(plugins) : data[p] = Stage(p)'
      BY <1>1 DEF MainType, DataInv, Stage
    <2> QED
      BY <1>1, <2>1 DEF DataInv, Live, Of, loaded, options, config
  <1>5. ThreadInv'
    BY <1>1 DEF ThreadInv
  <1>6. ThreadType'
    BY <1>1 DEF ThreadType
  <1>7. ConnInv'
    <2>1. \A w \in Workers : conn'[w] = << >> /\ Len(conn'[w]) = 0 /\ wpc'[w] = "init"
      BY <1>1 DEF ThreadInv, ConnInv
    <2>2. Len(plugins') \in Nat
      BY <1>1 DEF MainType, loaded
    <2> QED
      BY <2>1, <2>2 DEF ConnInv, Called
  <1> QED
    BY <1>2, <1>3, <1>4, <1>5, <1>6, <1>7

\* Main leaves the loop.
LEMMA LeaveLoopKeeps ==
  ASSUME IndInv, LeaveLoop
  PROVE  IndInv'
  <1> USE DEF IndInv, WorkersInv, MainInv
  <1>1. UNCHANGED <<plugin_list, loaded, threads>>
    BY DEF LeaveLoop
  <1>2. MainType'
    BY DEF MainType, LeaveLoop, Proceed, loaded
  <1>3. OptionType'
    BY <1>1 DEF OptionType, Of, LeaveLoop, loaded, options, config
  <1>4. SlotInv'
    BY DEF OptionType, SlotInv, LeaveLoop, Proceed, MainAt, options, config
  <1>5. ThreadInv'
    BY DEF ThreadInv, LeaveLoop, Proceed, MainAt, threads
  <1>6. parsed' = "CFG_PARSE_ERROR" => mpc' = "exited"
    BY DEF DataInv, LeaveLoop, Proceed, MainAt, options, config
  <1>7. mpc' # "crashed" => \A p \in 1 .. Len(plugins) : data[p] = Stage(p)'
    BY DEF MainType, DataInv, Stage, LeaveLoop, Proceed, MainAt, options, config
  <1> QED
    BY <1>1, <1>2, <1>3, <1>4, <1>5, <1>6, <1>7, MainMoves

\* No worker is left when main goes on.
LEMMA JoinKeeps ==
  ASSUME IndInv, JoinWorkers
  PROVE  IndInv'
  <1> USE DEF IndInv, WorkersInv, MainInv
  <1>1. UNCHANGED <<plugin_list, loaded, threads>>
    BY DEF JoinWorkers
  <1>2. MainType'
    BY DEF MainType, JoinWorkers, Proceed, loaded
  <1>3. OptionType'
    BY <1>1 DEF OptionType, Of, JoinWorkers, loaded, options, config
  <1>4. SlotInv'
    BY DEF OptionType, SlotInv, JoinWorkers, Proceed, MainAt, options, config
  <1>5. ThreadInv'
    BY DEF ThreadInv, JoinWorkers, Proceed, MainAt, threads
  <1>6. parsed' = "CFG_PARSE_ERROR" => mpc' = "exited"
    BY DEF DataInv, JoinWorkers, Proceed, MainAt, options, config
  <1>7. mpc' # "crashed" => \A p \in 1 .. Len(plugins) : data[p] = Stage(p)'
    BY DEF MainType, DataInv, Stage, JoinWorkers, Proceed, MainAt, options, config
  <1> QED
    BY <1>1, <1>2, <1>3, <1>4, <1>5, <1>6, <1>7, MainMoves

\* Plugin k is freed and its library closed once.
LEMMA FreeKeeps ==
  ASSUME IndInv, FreePlugin
  PROVE  IndInv'
  <1> USE DEF IndInv, WorkersInv, MainInv
  <1> DEFINE n == plugins[k]
  <1>1. /\ Len(plugins) \in Nat /\ k \in 1 .. Len(plugins) /\ DOMAIN data = 1 .. Len(plugins)
        /\ n \in Names
    BY DEF MainType, DataType, FreePlugin
  <1>2. /\ mpc = "free" /\ mpc' = "free" /\ k' = k + 1
        /\ UNCHANGED <<plugin_list, plugins, options, threads>>
        /\ data' = [data EXCEPT ![k] = "gone"]
        /\ watching' = watching \ {k}
        /\ mapped' = [mapped EXCEPT ![n] = @ - 1]
    BY DEF FreePlugin, plugin_free, plugin_unload, MainAt, Repeat
  <1> HIDE DEF n
  <1>3. \A p \in 1 .. Len(plugins) : data[p] = IF p < k THEN "gone" ELSE "ready"
    BY <1>2 DEF DataInv, Stage
  <1>4. \A p \in 1 .. Len(plugins) : data'[p] = IF p < k + 1 THEN "gone" ELSE "ready"
    BY <1>1, <1>2, <1>3
  <1>5. MainType'
    BY <1>2 DEF MainType
  <1>6. \A m : Live(m)' = IF m = n THEN Live(m) \ {k} ELSE Live(m)
    BY <1>1, <1>2, <1>3, <1>4 DEF Live, Of, n
  <1>7. ASSUME NEW m \in Names
        PROVE  mapped'[m] = Cardinality(Live(m)') /\ mapped'[m] \in Nat
    <2>1. /\ mapped[m] = Cardinality(Live(m)) /\ IsFiniteSet(Live(m)) /\ mapped[m] \in Nat
          /\ m = n => k \in Live(m)
      <3>1. mapped[m] = Cardinality(Live(m)) /\ mapped[m] \in Nat
        BY DEF DataInv, DataType
      <3>2. IsFiniteSet(Live(m))
        BY LiveFinite
      <3>3. m = n => k \in Live(m)
        BY <1>1, <1>3 DEF Live, Of, n
      <3> QED
        BY <3>1, <3>2, <3>3
    <2>2. m = n => Cardinality(Live(m) \ {k}) = Cardinality(Live(m)) - 1
      BY <2>1, FS_RemoveElement
    <2>3. mapped'[m] = IF m = n THEN mapped[m] - 1 ELSE mapped[m]
      BY <1>1, <1>2 DEF DataType
    <2>4. mapped'[m] = Cardinality(Live(m)')
      BY <1>6, <2>1, <2>2, <2>3
    <2>5. IsFiniteSet(Live(m)')
      BY <1>6, <2>1, FS_Subset
    <2> QED
      BY <2>4, <2>5, FS_CardinalityType
  <1>8. DataType'
    <2>1. data' \in Seq({"raw", "ready", "gone"}) /\ Len(data') = Len(data)
      BY <1>1, <1>2, ExceptSeq DEF DataType
    <2>2. mapped' \in [Names -> Nat]
      <3>1. DOMAIN mapped' = Names /\ mapped' = [m \in DOMAIN mapped' |-> mapped'[m]]
        BY <1>2 DEF DataType
      <3> QED
        BY <1>7, <3>1
    <2> QED
      BY <1>2, <2>1, <2>2 DEF DataType, Of
  <1>9. OptionType' /\ SlotInv'
    BY <1>2 DEF OptionType, SlotInv, Of, options, config
  <1>10. DataInv'
    <2>1. \A p \in 1 .. Len(plugins) : data'[p] = Stage(p)'
      BY <1>2, <1>4 DEF Stage
    <2>2. \A i \in watching' : data'[i] \in {"raw", "ready"}
      BY <1>1, <1>2 DEF DataInv, DataType, Of
    <2>3. parsed' = parsed
      BY <1>2 DEF options, config
    <2> QED
      BY <1>2, <1>7, <2>1, <2>2, <2>3 DEF DataInv
  <1>11. ThreadInv'
    BY <1>2 DEF ThreadInv, threads
  <1>12. ThreadType' /\ ConnInv'
    BY <1>2, ThreadsFrame
  <1> QED
    BY <1>5, <1>8, <1>9, <1>10, <1>11, <1>12

\* All plugins have been freed.
LEMMA ReturnKeeps ==
  ASSUME IndInv, Return
  PROVE  IndInv'
  <1> USE DEF IndInv, WorkersInv, MainInv
  <1>1. UNCHANGED <<plugin_list, loaded, threads>>
    BY DEF Return
  <1>2. MainType'
    BY DEF MainType, Return, Proceed, loaded
  <1>3. OptionType'
    BY <1>1 DEF OptionType, Of, Return, loaded, options, config
  <1>4. SlotInv'
    BY DEF OptionType, SlotInv, Return, Proceed, MainAt, options, config
  <1>5. ThreadInv'
    BY DEF ThreadInv, Return, Proceed, MainAt, threads
  <1>6. parsed' = "CFG_PARSE_ERROR" => mpc' = "exited"
    BY DEF DataInv, Return, Proceed, MainAt, options, config
  <1>7. mpc' # "crashed" => \A p \in 1 .. Len(plugins) : data[p] = Stage(p)'
    BY DEF MainType, DataInv, Stage, Return, Proceed, MainAt, options, config
  <1> QED
    BY <1>1, <1>2, <1>3, <1>4, <1>5, <1>6, <1>7, MainMoves

\* What the next plugin's hook does to the connections of a worker.
LEMMA ThreadInitConn ==
  ASSUME IndInv, NEW w \in Workers, thread_init(w)
  PROVE  ThreadType' /\ ConnInv'
  <1> USE DEF IndInv, WorkersInv, MainInv
  <1> DEFINE V == {"none", "open", "lost", "closed"}
             c == conn[w]
             d == conn'[w]
             L == Len(conn[w])
  <1>1. /\ c \in Seq(V) /\ L \in Nat /\ DOMAIN c = 1 .. L /\ \A i \in 1 .. L : c[i] \in V
        /\ Len(plugins) \in Nat /\ L + 1 <= Len(plugins)
    BY DEF ThreadType, MainType, thread_init, Hook
  <1>2. /\ wpc[w] = "init" /\ UNCHANGED <<plugins, wpc>> /\ conn' = [conn EXCEPT ![w] = d]
        /\ \A x \in Workers \ {w} : conn'[x] = conn[x]
    BY DEF thread_init, loaded, ThreadType
  <1>3. /\ d \in Seq(V) /\ Len(d) = L + 1 /\ d[L + 1] \in {"none", "open"}
        /\ plugins[L + 1] \in HasThreadKey => d[L + 1] = "open"
        /\ \A i \in 1 .. L :
             \/ d[i] = c[i] /\ ~(d[L + 1] = "open" /\ plugins[i] = plugins[L + 1] /\ c[i] = "open")
             \/ /\ c[i] = "open" /\ d[i] = "lost"
                /\ plugins[i] = plugins[L + 1] /\ d[L + 1] = "open"
    <2>1. CASE plugins[L + 1] \in HasThreadInit
      <3> DEFINE e == [j \in DOMAIN c |->
                         IF plugins[j] = plugins[L + 1] /\ c[j] = "open" THEN "lost" ELSE c[j]]
      <3>1. d = Append(e, "open")
        BY <2>1 DEF thread_init, Hook, Stored, ThreadType
      <3>2. e \in Seq(V) /\ Len(e) = L
        BY <1>1
      <3>3. \A i \in 1 .. L : e[i] = IF plugins[i] = plugins[L + 1] /\ c[i] = "open"
                                     THEN "lost" ELSE c[i]
        BY <1>1
      <3> HIDE DEF e
      <3>4. /\ d \in Seq(V) /\ Len(d) = L + 1 /\ d[L + 1] = "open"
            /\ \A i \in 1 .. L : d[i] = e[i]
        BY <1>1, <3>1, <3>2
      <3> QED
        BY <3>3, <3>4
    <2>2. CASE plugins[L + 1] \notin HasThreadInit
      <3>1. d = Append(c, "none")
        BY <2>2 DEF thread_init, Hook, ThreadType
      <3>2. /\ d \in Seq(V) /\ Len(d) = L + 1 /\ d[L + 1] = "none"
            /\ \A i \in 1 .. L : d[i] = c[i]
        BY <1>1, <3>1
      <3> QED
        BY <2>2, <3>2 DEF HasThreadInit, HasThreadKey
    <2> QED
      BY <2>1, <2>2
  <1>4. ThreadType'
    BY <1>2, <1>3 DEF ThreadType
  <1> HIDE DEF V, c, d, L
  <1>5. Called(w) = 1 .. L /\ Called(w)' = 1 .. L + 1
    BY <1>3 DEF Called, L, d
  <1>6. ASSUME NEW n \in HasThreadKey, \E i \in Called(w)' : plugins[i] = n
        PROVE  LatestOpen(w, n)'
    <2>1. CASE plugins[L + 1] = n
      <3>1. /\ L + 1 \in Called(w)' /\ plugins'[L + 1] = n /\ conn'[w][L + 1] = "open"
            /\ \A j \in Called(w)' : plugins'[j] = n => j <= L + 1
        BY <1>1, <1>2, <1>3, <1>5, <2>1 DEF d
      <3> QED
        BY <3>1 DEF LatestOpen
    <2>2. CASE plugins[L + 1] # n
      <3>1. \E i \in Called(w) : plugins[i] = n
        BY <1>1, <1>5, <1>6, <2>2
      <3>2. LatestOpen(w, n)
        BY <1>2, <3>1 DEF ConnInv
      <3>3. PICK i \in 1 .. L : /\ plugins[i] = n /\ c[i] = "open"
                               /\ \A j \in 1 .. L : plugins[j] = n => j <= i
        BY <1>5, <3>2 DEF LatestOpen, c
      <3>4. /\ i \in Called(w)' /\ plugins'[i] = n /\ conn'[w][i] = "open"
            /\ \A j \in Called(w)' : plugins'[j] = n => j <= i
        BY <1>1, <1>2, <1>3, <1>5, <2>2, <3>3 DEF d
      <3> QED
        BY <3>4 DEF LatestOpen
    <2> QED
      BY <2>1, <2>2
  <1>7. ASSUME NEW i \in Called(w)', conn'[w][i] = "lost"
        PROVE  Displaced(w, i)'
    <2>1. i \in 1 .. L /\ d[i] = "lost"
      BY <1>1, <1>3, <1>5, <1>7 DEF d
    <2>2. CASE c[i] = "open"
      <3>1. /\ L + 1 \in Called(w)' /\ i < L + 1 /\ plugins'[L + 1] = plugins'[i]
            /\ conn'[w][L + 1] \in {"open", "closed"}
        BY <1>1, <1>2, <1>3, <1>5, <2>1, <2>2 DEF d
      <3> QED
        BY <3>1 DEF Displaced
    <2>3. CASE c[i] = "lost"
      <3>1. Displaced(w, i)
        BY <1>2, <1>5, <2>1, <2>3 DEF ConnInv, c
      <3>2. PICK j \in 1 .. L : i < j /\ plugins[j] = plugins[i] /\ c[j] \in {"open", "closed"}
        BY <1>5, <3>1 DEF Displaced, c
      <3>3. CASE d[j] = c[j]
        <4>1. /\ j \in Called(w)' /\ i < j /\ plugins'[j] = plugins'[i]
              /\ conn'[w][j] \in {"open", "closed"}
          BY <1>1, <1>2, <1>5, <3>2, <3>3 DEF d
        <4> QED
          BY <4>1 DEF Displaced
      <3>4. CASE plugins[j] = plugins[L + 1] /\ d[L + 1] = "open"
        <4>1. /\ L + 1 \in Called(w)' /\ i < L + 1 /\ plugins'[L + 1] = plugins'[i]
              /\ conn'[w][L + 1] \in {"open", "closed"}
          BY <1>1, <1>2, <1>5, <2>1, <3>2, <3>4 DEF d
        <4> QED
          BY <4>1 DEF Displaced
      <3> QED
        BY <1>3, <3>2, <3>3, <3>4
    <2> QED
      BY <1>3, <2>1, <2>2, <2>3
  <1>8. Len(conn'[w]) <= Len(plugins') /\ wpc'[w] = "init"
    BY <1>1, <1>2, <1>3 DEF d
  <1>9. \A x \in Workers \ {w} :
          /\ Called(x)' = Called(x) /\ conn'[x] = conn[x] /\ wpc'[x] = wpc[x]
          /\ \A n : LatestOpen(x, n)' = LatestOpen(x, n)
          /\ \A i : Displaced(x, i)' = Displaced(x, i)
    BY <1>2 DEF Called, LatestOpen, Displaced
  <1>10. ConnInv'
    <2> SUFFICES ASSUME NEW x \in Workers
                 PROVE  /\ wpc'[x] = "none" => conn'[x] = << >>
                        /\ Len(conn'[x]) <= Len(plugins')
                        /\ wpc'[x] = "serve" => Len(conn'[x]) = Len(plugins')
                        /\ wpc'[x] = "gone" => \A i \in Called(x)' : conn'[x][i] # "open"
                        /\ wpc'[x] \in {"init", "serve"} =>
                             \A n \in HasThreadKey :
                               (\E i \in Called(x)' : plugins'[i] = n) => LatestOpen(x, n)'
                        /\ \A i \in Called(x)' : conn'[x][i] = "lost" =>
                             \/ wpc'[x] \in {"free", "exit", "gone"} /\ i = Len(conn'[x])
                             \/ Displaced(x, i)'
      BY DEF ConnInv
    <2>1. CASE x = w
      BY <1>2, <1>6, <1>7, <1>8, <2>1
    <2>2. CASE x # w
      BY <1>2, <1>9, <2>2 DEF ConnInv
    <2> QED
      BY <2>1, <2>2
  <1> QED
    BY <1>4, <1>10

\* A worker passes the next plugin: it is connected to it, and to it only of the
\* plugins of its library.
LEMMA ThreadInitKeeps ==
  ASSUME IndInv, NEW w \in Workers, thread_init(w)
  PROVE  IndInv'
  <1> USE DEF IndInv, WorkersInv, MainInv
  <1>1. MainInv'
    BY MainFrame DEF thread_init
  <1>2. ThreadType'
    BY ThreadInitConn
  <1>3. ThreadInv'
    BY DEF ThreadType, ThreadInv, thread_init
  <1>4. ConnInv'
    BY <1>2, ThreadInitConn
  <1> QED
    BY <1>1, <1>2, <1>3, <1>4

\* A worker that cannot connect ends; what it has left open is the last of its
\* connections.
LEMMA ThreadInitFailsKeeps ==
  ASSUME IndInv, NEW w \in Workers, thread_init_fails(w)
  PROVE  IndInv'
  <1> USE DEF IndInv, WorkersInv, MainInv
  <1>1. MainInv'
    BY MainFrame DEF thread_init_fails
  <1>2. ThreadType'
    <2>1. conn[w] \in Seq({"none", "open", "lost", "closed"})
      BY DEF ThreadType
    <2>2. /\ Append(conn[w], "none") \in Seq({"none", "open", "lost", "closed"})
          /\ Append(conn[w], "lost") \in Seq({"none", "open", "lost", "closed"})
      BY <2>1
    <2> QED
      BY <2>2 DEF ThreadType, thread_init_fails
  <1>3. ThreadInv'
    BY DEF ThreadType, ThreadInv, thread_init_fails
  <1>4. ConnInv'
    <2> DEFINE c == conn[w]
               d == conn'[w]
               L == Len(conn[w])
    <2>1. /\ c \in Seq({"none", "open", "lost", "closed"}) /\ L \in Nat
          /\ Len(plugins) \in Nat /\ L + 1 <= Len(plugins)
      BY DEF ThreadType, MainType, thread_init_fails, Hook
    <2>2. /\ wpc[w] = "init" /\ wpc'[w] = "free" /\ UNCHANGED plugins
          /\ \A x \in Workers \ {w} : conn'[x] = conn[x] /\ wpc'[x] = wpc[x]
          /\ (d = Append(c, "none") \/ d = Append(c, "lost"))
      BY DEF thread_init_fails, loaded, ThreadType
    <2>3. Len(d) = L + 1 /\ \A i \in 1 .. L : d[i] = c[i]
      BY <2>1, <2>2
    <2> HIDE DEF c, d, L
    <2>4. Called(w) = 1 .. L /\ Called(w)' = 1 .. L + 1
      BY <2>3 DEF Called, L, d
    <2>5. ASSUME NEW i \in Called(w)', conn'[w][i] = "lost", i # Len(conn'[w])
          PROVE  Displaced(w, i)'
      <3>1. i \in Called(w) /\ conn[w][i] = "lost"
        BY <2>1, <2>3, <2>4, <2>5 DEF c, d
      <3>2. Displaced(w, i)
        BY <2>2, <3>1 DEF ConnInv
      <3>3. PICK j \in Called(w) : /\ i < j /\ plugins[j] = plugins[i]
                                   /\ conn[w][j] \in {"open", "closed"}
        BY <3>2 DEF Displaced
      <3>4. j \in Called(w)' /\ conn'[w][j] = conn[w][j]
        BY <2>1, <2>3, <2>4 DEF c, d
      <3> QED
        BY <2>2, <3>3, <3>4 DEF Displaced
    <2>6. \A x \in Workers \ {w} :
            /\ Called(x)' = Called(x) /\ conn'[x] = conn[x] /\ wpc'[x] = wpc[x]
            /\ \A n : LatestOpen(x, n)' = LatestOpen(x, n)
            /\ \A i : Displaced(x, i)' = Displaced(x, i)
      BY <2>2 DEF Called, LatestOpen, Displaced
    <2>7. Len(conn'[w]) <= Len(plugins')
      BY <2>1, <2>2, <2>3 DEF d
    <2> SUFFICES ASSUME NEW x \in Workers
                 PROVE  /\ wpc'[x] = "none" => conn'[x] = << >>
                        /\ Len(conn'[x]) <= Len(plugins')
                        /\ wpc'[x] = "serve" => Len(conn'[x]) = Len(plugins')
                        /\ wpc'[x] = "gone" => \A i \in Called(x)' : conn'[x][i] # "open"
                        /\ wpc'[x] \in {"init", "serve"} =>
                             \A n \in HasThreadKey :
                               (\E i \in Called(x)' : plugins'[i] = n) => LatestOpen(x, n)'
                        /\ \A i \in Called(x)' : conn'[x][i] = "lost" =>
                             \/ wpc'[x] \in {"free", "exit", "gone"} /\ i = Len(conn'[x])
                             \/ Displaced(x, i)'
      BY DEF ConnInv
    <2>8. CASE x = w
      BY <2>2, <2>5, <2>7, <2>8
    <2>9. CASE x # w
      BY <2>2, <2>6, <2>9 DEF ConnInv
    <2> QED
      BY <2>8, <2>9
  <1> QED
    BY <1>1, <1>2, <1>3, <1>4

\* A worker that serves has passed all plugins.
LEMMA ServeKeeps ==
  ASSUME IndInv, NEW w \in Workers, Serve(w)
  PROVE  IndInv'
  <1> USE DEF IndInv, WorkersInv, MainInv
  <1>1. MainInv'
    BY MainFrame DEF Serve
  <1>2. ThreadType'
    BY DEF ThreadType, Serve
  <1>3. ThreadInv'
    BY DEF ThreadType, ThreadInv, Serve
  <1>4. ConnInv'
    <2>1. /\ UNCHANGED <<plugins, conn>>
          /\ \A x \in Workers \ {w} : wpc'[x] = wpc[x]
      BY DEF Serve, ThreadType, loaded
    <2>2. /\ \A x : Called(x)' = Called(x)
          /\ \A x, n : LatestOpen(x, n)' = LatestOpen(x, n)
          /\ \A x, i : Displaced(x, i)' = Displaced(x, i)
      BY <2>1 DEF Called, LatestOpen, Displaced
    <2>3. Len(plugins) \in Nat /\ Len(conn[w]) \in Nat
      BY DEF MainType, ThreadType
    <2> QED
      BY <2>1, <2>2, <2>3 DEF ThreadType, ConnInv, Serve, Hook
  <1> QED
    BY <1>1, <1>2, <1>3, <1>4

\* A worker is told to stop.
LEMMA StopServingKeeps ==
  ASSUME IndInv, NEW w \in Workers, StopServing(w)
  PROVE  IndInv'
  <1> USE DEF IndInv, WorkersInv, MainInv
  <1>1. MainInv'
    BY MainFrame DEF StopServing
  <1>2. ThreadType'
    BY DEF ThreadType, StopServing
  <1>3. ThreadInv'
    BY DEF ThreadType, ThreadInv, StopServing
  <1>4. ConnInv'
    <2>1. /\ UNCHANGED <<plugins, conn>>
          /\ \A x \in Workers \ {w} : wpc'[x] = wpc[x]
      BY DEF StopServing, ThreadType, loaded
    <2>2. /\ \A x : Called(x)' = Called(x)
          /\ \A x, n : LatestOpen(x, n)' = LatestOpen(x, n)
          /\ \A x, i : Displaced(x, i)' = Displaced(x, i)
      BY <2>1 DEF Called, LatestOpen, Displaced
    <2>3. Len(plugins) \in Nat /\ Len(conn[w]) \in Nat
      BY DEF MainType, ThreadType
    <2> QED
      BY <2>1, <2>2, <2>3 DEF ThreadType, ConnInv, StopServing
  <1> QED
    BY <1>1, <1>2, <1>3, <1>4

\* A worker calls the thread_free hooks.
LEMMA ThreadFreeKeeps ==
  ASSUME IndInv, NEW w \in Workers, thread_free(w)
  PROVE  IndInv'
  <1> USE DEF IndInv, WorkersInv, MainInv
  <1>1. MainInv'
    BY MainFrame DEF thread_free
  <1>2. ThreadType'
    BY DEF ThreadType, thread_free
  <1>3. ThreadInv'
    BY DEF ThreadType, ThreadInv, thread_free
  <1>4. ConnInv'
    <2>1. /\ UNCHANGED <<plugins, conn>>
          /\ \A x \in Workers \ {w} : wpc'[x] = wpc[x]
      BY DEF thread_free, ThreadType, loaded
    <2>2. /\ \A x : Called(x)' = Called(x)
          /\ \A x, n : LatestOpen(x, n)' = LatestOpen(x, n)
          /\ \A x, i : Displaced(x, i)' = Displaced(x, i)
      BY <2>1 DEF Called, LatestOpen, Displaced
    <2>3. Len(plugins) \in Nat /\ Len(conn[w]) \in Nat
      BY DEF MainType, ThreadType
    <2> QED
      BY <2>1, <2>2, <2>3 DEF ThreadType, ConnInv, thread_free
  <1> QED
    BY <1>1, <1>2, <1>3, <1>4

\* A worker's keys are destroyed.
LEMMA ThreadExitKeeps ==
  ASSUME IndInv, NEW w \in Workers, ThreadExit(w)
  PROVE  IndInv'
  <1> USE DEF IndInv, WorkersInv, MainInv
  <1>1. MainInv'
    BY MainFrame DEF ThreadExit
  <1>2. ThreadType'
    <2>1. conn[w] \in Seq({"none", "open", "lost", "closed"})
      BY DEF ThreadType
    <2>2. conn'[w] = [i \in DOMAIN conn[w] |->
                        IF conn[w][i] = "open" THEN "closed" ELSE conn[w][i]]
      BY DEF ThreadExit, ThreadType
    <2>3. conn'[w] \in Seq({"none", "open", "lost", "closed"})
      BY <2>1, <2>2
    <2>4. conn' = [conn EXCEPT ![w] = conn'[w]]
      BY <2>2 DEF ThreadExit, ThreadType
    <2> QED
      BY <2>3, <2>4 DEF ThreadType, ThreadExit
  <1>3. ThreadInv'
    BY DEF ThreadType, ThreadInv, ThreadExit
  <1>4. ConnInv'
    <2>1. /\ Len(conn[w]) \in Nat /\ DOMAIN conn[w] = 1 .. Len(conn[w])
          /\ conn[w] \in Seq({"none", "open", "lost", "closed"})
      BY DEF ThreadType
    <2>2. /\ wpc[w] = "exit" /\ wpc'[w] = "gone" /\ UNCHANGED plugins
          /\ \A x \in Workers \ {w} : conn'[x] = conn[x] /\ wpc'[x] = wpc[x]
          /\ conn'[w] = [i \in DOMAIN conn[w] |->
                           IF conn[w][i] = "open" THEN "closed" ELSE conn[w][i]]
      BY DEF ThreadExit, loaded, ThreadType
    <2>3. /\ Len(conn'[w]) = Len(conn[w])
          /\ \A i \in 1 .. Len(conn[w]) :
               conn'[w][i] = IF conn[w][i] = "open" THEN "closed" ELSE conn[w][i]
      BY <2>1, <2>2
    <2>4. Called(w)' = Called(w)
      BY <2>3 DEF Called
    <2>5. ASSUME NEW i \in Called(w), Displaced(w, i) PROVE Displaced(w, i)'
      BY <2>2, <2>3, <2>4, <2>5 DEF Displaced, Called
    <2>6. \A x \in Workers \ {w} :
            /\ Called(x)' = Called(x) /\ conn'[x] = conn[x] /\ wpc'[x] = wpc[x]
            /\ \A n : LatestOpen(x, n)' = LatestOpen(x, n)
            /\ \A i : Displaced(x, i)' = Displaced(x, i)
      BY <2>2 DEF Called, LatestOpen, Displaced
    <2>7. \A i \in Called(w) : conn'[w][i] # "open" /\ (conn'[w][i] = "lost" => conn[w][i] = "lost")
      BY <2>3 DEF Called
    <2> SUFFICES ASSUME NEW x \in Workers
                 PROVE  /\ wpc'[x] = "none" => conn'[x] = << >>
                        /\ Len(conn'[x]) <= Len(plugins')
                        /\ wpc'[x] = "serve" => Len(conn'[x]) = Len(plugins')
                        /\ wpc'[x] = "gone" => \A i \in Called(x)' : conn'[x][i] # "open"
                        /\ wpc'[x] \in {"init", "serve"} =>
                             \A n \in HasThreadKey :
                               (\E i \in Called(x)' : plugins'[i] = n) => LatestOpen(x, n)'
                        /\ \A i \in Called(x)' : conn'[x][i] = "lost" =>
                             \/ wpc'[x] \in {"free", "exit", "gone"} /\ i = Len(conn'[x])
                             \/ Displaced(x, i)'
      BY DEF ConnInv
    <2>8. CASE x = w
      <3>1. ASSUME NEW i \in Called(w), conn'[w][i] = "lost", i # Len(conn'[w])
            PROVE  Displaced(w, i)'
        BY <2>2, <2>3, <2>5, <2>7, <3>1 DEF ConnInv
      <3> QED
        BY <2>2, <2>3, <2>4, <2>7, <2>8, <3>1 DEF ConnInv
    <2>9. CASE x # w
      BY <2>2, <2>6, <2>9 DEF ConnInv
    <2> QED
      BY <2>8, <2>9
  <1> QED
    BY <1>1, <1>2, <1>3, <1>4

-----------------------------------------------------------------------------
(* The theorems *)

\* The invariant holds initially and every step of main or of a worker keeps it.
LEMMA Inductive == Spec => []IndInv
  <1>1. Init => IndInv
    <2> SUFFICES ASSUME Init PROVE IndInv
      OBVIOUS
    <2>1. /\ plugins = << >> /\ plugins \in Seq(Names) /\ Len(plugins) = 0
          /\ data = << >> /\ data \in Seq({"raw", "ready", "gone"}) /\ Len(data) = 0
      <3>1. plugins = << >> /\ data = << >>
        BY DEF Init
      <3> QED
        BY <3>1
    <2>2. MainType
      <3>1. k = 1 /\ mpc = "load" /\ plugin_list \in PluginLists
        BY DEF Init
      <3> QED
        BY <2>1, <3>1 DEF MainType
    <2>3. DataType /\ DataInv
      <3>1. mapped = [n \in Names |-> 0] /\ watching = {} /\ parsed = "not yet"
        BY DEF Init
      <3>2. DataType
        BY <2>1, <3>1 DEF DataType
      <3>3. \A n : Live(n) = {}
        BY <2>1 DEF Live, Of
      <3>4. \A n \in Names : mapped[n] = Cardinality(Live(n))
        BY <3>1, <3>3, FS_EmptySet
      <3>5. \A p \in 1 .. Len(plugins) : data[p] = Stage(p)
        BY <2>1
      <3> QED
        BY <3>1, <3>2, <3>4, <3>5 DEF DataInv
    <2>4. OptionType /\ SlotInv
      <3>1. num_opts = 0 /\ num_slots = 0 /\ mpc = "load"
        BY DEF Init
      <3>2. parsed = "not yet" /\ default_behavior = "NULL" /\ uri = {} /\ servers = "none"
        BY DEF Init
      <3>3. OptionType
        BY <3>1, <3>2 DEF OptionType
      <3>4. SlotInv
        BY <3>1 DEF SlotInv
      <3> QED
        BY <3>3, <3>4
    <2>5. ThreadType /\ ThreadInv /\ ConnInv
      <3>1. wpc = [w \in Workers |-> "none"] /\ conn = [w \in Workers |-> << >>]
        BY DEF Init
      <3>2. ThreadType
        BY <3>1 DEF ThreadType
      <3>3. \A w \in Workers : wpc[w] = "none" /\ conn[w] = << >> /\ Len(conn[w]) = 0
        BY <3>1
      <3>4. ThreadInv /\ ConnInv
        BY <2>1, <3>3 DEF ThreadInv, ConnInv, Called
      <3> QED
        BY <3>2, <3>4
    <2> QED
      BY <2>2, <2>3, <2>4, <2>5 DEF IndInv, MainInv, WorkersInv
  <1>2. IndInv /\ [Next]_vars => IndInv'
    <2> SUFFICES ASSUME IndInv, [Next]_vars PROVE IndInv'
      OBVIOUS
    <2>1. CASE MainStep
      BY <2>1, LoadKeeps, LoadFailsKeeps, CoreOptionsKeeps, AddSectionKeeps,
         EndOptionsKeeps, ParseFileErrorKeeps, ParseErrorKeeps, ParseSuccessKeeps,
         ApplyConfigKeeps, ConfigParsedKeeps, ConfigDiesKeeps, StartWorkersKeeps,
         LeaveLoopKeeps, JoinKeeps, FreeKeeps, ReturnKeeps DEF MainStep
    <2>2. ASSUME NEW w \in Workers, WorkerStep(w) PROVE IndInv'
      BY <2>2, ThreadInitKeeps, ThreadInitFailsKeeps, ServeKeeps, StopServingKeeps,
         ThreadFreeKeeps, ThreadExitKeeps DEF WorkerStep
    <2>3. CASE UNCHANGED vars
      <3>1. MainInv'
        BY <2>3, MainFrame DEF vars, IndInv
      <3>2. ThreadType' /\ ConnInv'
        BY <2>3, ThreadsFrame DEF vars, loaded, IndInv, WorkersInv
      <3>3. ThreadInv'
        BY <2>3 DEF vars, threads, IndInv, WorkersInv, ThreadInv
      <3> QED
        BY <3>1, <3>2, <3>3 DEF IndInv, WorkersInv
    <2> QED
      BY <2>1, <2>2, <2>3 DEF Next, Terminated
  <1> QED
    BY <1>1, <1>2, PTL DEF Spec

\* The variables keep their types; in particular the array of plugins holds
\* plugins only, whatever fails to load (webcontrol_plugin.c:44-52).
THEOREM TypeCorrect == Spec => []TypeOK
  <1>1. IndInv => TypeOK
    BY DEF IndInv, MainInv, WorkersInv, MainType, DataType, OptionType, ThreadType, TypeOK
  <1> QED
    BY <1>1, Inductive, PTL

\* No option, CFG_END included, is written outside the table, for as many plugins
\* as the array has room for, whether or not their names differ, and any block
\* size above the number of core options (main.c:457-468).
THEOREM TableLargeEnough == Spec => []OptionsFit
  <1>1. IndInv => OptionsFit
    BY DEF IndInv, MainInv, SlotInv, OptionsFit
  <1> QED
    BY <1>1, Inductive, PTL

\* Whoever runs a plugin's code finds its library mapped and its data configured:
\* a worker's hooks and destructors, the callbacks of the watchers, also when
\* several plugins share a library (main.c:494, 637, 665-678).
THEOREM HooksSafe == Spec => []HooksFindTheirPlugin
  <1>1. ASSUME IndInv PROVE HooksFindTheirPlugin
    <2> USE <1>1 DEF IndInv, MainInv, WorkersInv
    <2>1. ASSUME NEW w \in Workers, NEW i \in Runs(w)
          PROVE  mapped[plugins[i]] > 0 /\ data[i] = "ready"
      <3>1. i \in 1 .. Len(plugins) /\ wpc[w] \in {"init", "serve", "free", "exit"}
        BY <2>1 DEF Runs
      <3>2. mpc \in {"loop", "join"}
        BY <3>1 DEF ThreadInv, MainType
      <3>3. data[i] = "ready"
        BY <3>1, <3>2 DEF DataInv, Stage
      <3> QED
        BY <3>1, <3>3, LiveMapped
    <2>2. ASSUME NEW i \in watching
          PROVE  mapped[plugins[i]] > 0 /\ data[i] \in {"raw", "ready"}
      <3>1. i \in 1 .. Len(plugins) /\ data[i] \in {"raw", "ready"}
        BY DEF DataType, DataInv, Of
      <3> QED
        BY <3>1, LiveMapped
    <2> QED
      BY <2>1, <2>2 DEF HooksFindTheirPlugin
  <1> QED
    BY <1>1, Inductive, PTL

\* A worker that serves is connected, for every library that needs a connection,
\* by the last of its plugins (main.c:222-233).
THEOREM ServesConnected == Spec => []ConnectedWhileServing
  <1>1. ASSUME IndInv, NEW w \in Workers, wpc[w] = "serve",
               NEW n \in HasThreadKey, Of(n) # {}
        PROVE  \E i \in Of(n) : conn[w][i] = "open" /\ \A j \in Of(n) : j <= i
    <2>1. Called(w) = 1 .. Len(plugins)
      BY <1>1 DEF IndInv, WorkersInv, ConnInv, Called
    <2>2. \E i \in Called(w) : plugins[i] = n
      BY <1>1, <2>1 DEF Of
    <2>3. LatestOpen(w, n)
      BY <1>1, <2>2 DEF IndInv, WorkersInv, ConnInv
    <2> QED
      BY <2>1, <2>3 DEF LatestOpen, Of
  <1>2. IndInv => ConnectedWhileServing
    BY <1>1 DEF ConnectedWhileServing
  <1> QED
    BY <1>2, Inductive, PTL

\* What a thread leaves open when it has ended is the connection with which its
\* last hook failed, or one displaced by a later plugin of the same library, whose
\* own connection was closed (main.c:227; webcontrol_activedirectory.c:88-104,
\* webcontrol_memcached.c:61-68).
THEOREM LeaksExplained == Spec => []LeaksAccountedFor
  <1>1. ASSUME IndInv, NEW w \in Workers, wpc[w] = "gone",
               NEW i \in DOMAIN conn[w], conn[w][i] \notin {"none", "closed"}
        PROVE  /\ conn[w][i] = "lost"
               /\ \/ i = Len(conn[w])
                  \/ \E j \in i + 1 .. Len(conn[w]) :
                       plugins[j] = plugins[i] /\ conn[w][j] = "closed"
    <2> USE <1>1 DEF IndInv, WorkersInv
    <2>1. /\ conn[w] \in Seq({"none", "open", "lost", "closed"})
          /\ Len(conn[w]) \in Nat /\ i \in Called(w)
          /\ conn[w][i] \in {"none", "open", "lost", "closed"}
      BY DEF ThreadType, Called
    <2>2. conn[w][i] = "lost"
      BY <2>1 DEF ConnInv
    <2>3. i = Len(conn[w]) \/ Displaced(w, i)
      BY <2>1, <2>2 DEF ConnInv
    <2>4. ASSUME Displaced(w, i)
          PROVE  \E j \in i + 1 .. Len(conn[w]) :
                   plugins[j] = plugins[i] /\ conn[w][j] = "closed"
      <3>1. PICK j \in Called(w) : /\ i < j /\ plugins[j] = plugins[i]
                                   /\ conn[w][j] \in {"open", "closed"}
        BY <2>4 DEF Displaced
      <3>2. conn[w][j] = "closed"
        BY <3>1 DEF ConnInv
      <3>3. j \in i + 1 .. Len(conn[w])
        BY <2>1, <3>1 DEF Called
      <3> QED
        BY <3>1, <3>2, <3>3
    <2> QED
      BY <2>2, <2>3, <2>4
  <1>2. IndInv => LeaksAccountedFor
    BY <1>1 DEF LeaksAccountedFor
  <1> QED
    BY <1>2, Inductive, PTL

\* Every library is open once for each of its plugins that has data, and none is
\* left open when main returns (webcontrol_plugin.c:73, 98, 136).
THEOREM LibrariesClosed == Spec => []LibrariesBalanced
  <1>1. ASSUME IndInv PROVE LibrariesBalanced
    <2> USE <1>1 DEF IndInv, MainInv
    <2>1. ASSUME mpc = "exited", parsed # "CFG_PARSE_ERROR", NEW n \in Names
          PROVE  mapped[n] = 0
      <3>1. Live(n) = {}
        BY <2>1 DEF DataInv, Stage, Live, Of
      <3> QED
        BY <3>1, FS_EmptySet DEF DataInv
    <2> QED
      BY <2>1 DEF DataInv, LibrariesBalanced
  <1> QED
    BY <1>1, Inductive, PTL
=============================================================================
