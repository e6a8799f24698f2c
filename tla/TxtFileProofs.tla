--------------------------- MODULE TxtFileProofs ----------------------------
(***************************************************************************)
(* Proofs about TxtFile for any number of workers, any addresses and any     *)
(* contents of the files.                                                   *)
(***************************************************************************)
EXTENDS TxtFile, SequenceTheorems, TLAPS

-----------------------------------------------------------------------------
(* The inductive invariant *)

EntryType == [address : Addresses, flag : {"ALLOW", "DENY"}]

\* TypeOK in parts, so that a proof can cite what it needs.
FileType ==
  /\ disk \in [Files -> Contents \cup {Missing}] /\ edits \in 0 .. MaxEdits
  /\ filename \in Files /\ watched \in Files \cup {NoFile} /\ changed \in BOOLEAN
ListType ==
  /\ entry_chain \in Seq(EntryType)
  /\ handle \in Seq(FileLines) /\ loaded \in Seq(FileLines)
ThreadType ==
  /\ mtx \in Workers \cup {EventLoop, NoThread}
  /\ lpc \in LoopPlaces
  /\ wpc \in [Workers -> {"idle", "lock", "search", "unlock"}]
SearchType ==
  /\ addr \in [Workers -> Addresses]
  /\ entry \in [Workers -> Nat]
  /\ status \in [Workers -> Status]

\* The mutex is held by whoever is between its lock and its unlock.
LockInv ==
  /\ mtx = EventLoop <=> lpc = "read"
  /\ \A w \in Workers : mtx = w <=> wpc[w] \in {"search", "unlock"}
  /\ lpc = "freed" => \A w \in Workers : wpc[w] = "idle"

\* How many lines of the file that is being loaded have been read.
LinesRead == IF lpc = "read" THEN Len(loaded) - Len(handle) ELSE Len(loaded)

\* The list holds the entries of the first n of the lines, in their order.
Built(n, list, lines) ==
  \E pos \in [1 .. Len(list) -> 1 .. n] :
    /\ \A p, q \in 1 .. Len(list) : p < q => pos[p] < pos[q]
    /\ \A p \in 1 .. Len(list) :
         IsEntry(lines[pos[p]]) /\ list[p] = Entry(lines[pos[p]])
    /\ \A m \in 1 .. n : IsEntry(lines[m]) => \E p \in 1 .. Len(list) : pos[p] = m

\* What fgets has not returned is the rest of the file.
ChainInv ==
  /\ lpc = "read" =>
       /\ Len(handle) <= Len(loaded)
       /\ \A m \in 1 .. Len(handle) : handle[m] = loaded[Len(loaded) - Len(handle) + m]
  /\ lpc # "freed" => Built(LinesRead, entry_chain, loaded)

\* A search has passed only entries of other addresses, and ends with what the
\* loaded file says.
SearchInv ==
  \A w \in Workers :
    /\ wpc[w] \in {"lock", "search"} => status[w] = "GO_ON"
    /\ wpc[w] = "search" =>
         /\ entry[w] <= Len(entry_chain)
         /\ \A p \in entry[w] + 1 .. Len(entry_chain) : entry_chain[p].address # addr[w]
    /\ wpc[w] = "unlock" => status[w] = Decision(loaded, addr[w])

Types  == FileType /\ ListType /\ ThreadType /\ SearchType
IndInv == Types /\ LockInv /\ ChainInv /\ SearchInv

-----------------------------------------------------------------------------
(* Facts about the operators *)

\* The last line that names an address decides.
LEMMA LastDecides ==
  ASSUME NEW lines \in Seq(FileLines), NEW a \in Addresses, NEW m \in 1 .. Len(lines),
         lines[m].addr = a, \A j \in 1 .. Len(lines) : lines[j].addr = a => j <= m
  PROVE  Decision(lines, a) = Flag(lines[m].word)
  <1> DEFINE hits == {k \in DOMAIN lines : lines[k].addr = a}
  <1>1. Len(lines) \in Nat /\ DOMAIN lines = 1 .. Len(lines)
    OBVIOUS
  <1>2. m \in hits /\ \A j \in hits : j <= m
    BY <1>1
  <1>3. hits \subseteq Int
    BY <1>1
  <1>4. \A k \in hits : (\A j \in hits : j <= k) => k = m
    BY <1>2, <1>3
  <1> HIDE DEF hits
  <1>5. (CHOOSE k \in hits : \A j \in hits : j <= k) = m
    BY <1>2, <1>4
  <1> QED
    BY <1>2, <1>5 DEF Decision, hits

\* A file that does not name an address leaves it to others.
LEMMA NoneDecides ==
  ASSUME NEW lines \in Seq(FileLines), NEW a \in Addresses,
         \A j \in 1 .. Len(lines) : lines[j].addr # a
  PROVE  Decision(lines, a) = "GO_ON"
  BY DEF Decision

\* An entry has an address and a flag.
LEMMA EntryIsTyped ==
  ASSUME NEW l \in FileLines, IsEntry(l)
  PROVE  Entry(l) \in EntryType /\ Entry(l).address = l.addr /\ Entry(l).flag = Flag(l.word)
  BY DEF FileLines, IsEntry, Entry, EntryType, Flag

\* Before the first line is read the list is empty.
LEMMA BuiltEmpty ==
  ASSUME NEW lines
  PROVE  Built(0, << >>, lines)
  <1>1. Len(<< >>) = 0 /\ 1 .. 0 = {}
    OBVIOUS
  <1>2. [p \in 1 .. 0 |-> 0] \in [1 .. 0 -> 1 .. 0]
    BY <1>1
  <1> QED
    BY <1>1, <1>2 DEF Built

\* A line that is no entry leaves the list as it is.
LEMMA BuiltSkip ==
  ASSUME NEW n \in Nat, NEW list \in Seq(EntryType), NEW lines,
         Built(n, list, lines), ~IsEntry(lines[n + 1])
  PROVE  Built(n + 1, list, lines)
  <1> DEFINE c == Len(list)
  <1>1. PICK pos \in [1 .. c -> 1 .. n] :
          /\ \A p, q \in 1 .. c : p < q => pos[p] < pos[q]
          /\ \A p \in 1 .. c : IsEntry(lines[pos[p]]) /\ list[p] = Entry(lines[pos[p]])
          /\ \A m \in 1 .. n : IsEntry(lines[m]) => \E p \in 1 .. c : pos[p] = m
    BY DEF Built
  <1>2. \A m \in 1 .. n : m \in 1 .. n + 1
    OBVIOUS
  <1>3. pos \in [1 .. c -> 1 .. n + 1]
    BY <1>2
  <1>4. \A m \in 1 .. n + 1 : m = n + 1 \/ m \in 1 .. n
    OBVIOUS
  <1>5. \A m \in 1 .. n + 1 : IsEntry(lines[m]) => \E p \in 1 .. c : pos[p] = m
    BY <1>1, <1>4
  <1> QED
    BY <1>1, <1>3, <1>5 DEF Built

\* The entry of the next line goes behind the others.
LEMMA BuiltAppend ==
  ASSUME NEW n \in Nat, NEW list \in Seq(EntryType), NEW lines, NEW e \in EntryType,
         Built(n, list, lines), IsEntry(lines[n + 1]), e = Entry(lines[n + 1])
  PROVE  Built(n + 1, Append(list, e), lines)
  <1> DEFINE c == Len(list)
             longer == Append(list, e)
  <1>1. PICK pos \in [1 .. c -> 1 .. n] :
          /\ \A p, q \in 1 .. c : p < q => pos[p] < pos[q]
          /\ \A p \in 1 .. c : IsEntry(lines[pos[p]]) /\ list[p] = Entry(lines[pos[p]])
          /\ \A m \in 1 .. n : IsEntry(lines[m]) => \E p \in 1 .. c : pos[p] = m
    BY DEF Built
  <1> DEFINE new == [p \in 1 .. c + 1 |-> IF p = c + 1 THEN n + 1 ELSE pos[p]]
  <1>2. c \in Nat /\ Len(longer) = c + 1 /\ longer[c + 1] = e
        /\ \A p \in 1 .. c : longer[p] = list[p]
    OBVIOUS
  <1> HIDE DEF c, longer
  <1>3. /\ \A p \in 1 .. c + 1 : p = c + 1 \/ p \in 1 .. c
        /\ \A p \in 1 .. c : p \in 1 .. c + 1 /\ p # c + 1
        /\ c + 1 \in 1 .. c + 1 /\ n + 1 \in 1 .. n + 1
        /\ \A m \in 1 .. n : m \in 1 .. n + 1 /\ m < n + 1
        /\ \A m \in 1 .. n + 1 : m = n + 1 \/ m \in 1 .. n
    BY <1>2
  <1>4. new[c + 1] = n + 1 /\ \A p \in 1 .. c : new[p] = pos[p] /\ pos[p] \in 1 .. n
    BY <1>3
  <1>5. new \in [1 .. c + 1 -> 1 .. n + 1]
    BY <1>3
  <1> HIDE DEF new
  <1>6. ASSUME NEW p \in 1 .. c + 1, NEW q \in 1 .. c + 1, p < q PROVE new[p] < new[q]
    <2>1. p \in 1 .. c
      BY <1>2, <1>6
    <2>2. CASE q = c + 1
      BY <1>3, <1>4, <2>1, <2>2
    <2>3. CASE q \in 1 .. c
      BY <1>1, <1>4, <1>6, <2>1, <2>3
    <2> QED
      BY <1>3, <2>2, <2>3
  <1>7. \A p \in 1 .. c + 1 : IsEntry(lines[new[p]]) /\ longer[p] = Entry(lines[new[p]])
    BY <1>1, <1>2, <1>3, <1>4
  <1>8. ASSUME NEW m \in 1 .. n + 1, IsEntry(lines[m]) PROVE \E p \in 1 .. c + 1 : new[p] = m
    BY <1>1, <1>3, <1>4, <1>8
  <1>9. Built(n + 1, longer, lines)
    <2>1. Len(longer) = c + 1
      BY <1>2
    <2>2. \E f \in [1 .. c + 1 -> 1 .. n + 1] :
            /\ \A p, q \in 1 .. c + 1 : p < q => f[p] < f[q]
            /\ \A p \in 1 .. c + 1 : IsEntry(lines[f[p]]) /\ longer[p] = Entry(lines[f[p]])
            /\ \A m \in 1 .. n + 1 : IsEntry(lines[m]) => \E p \in 1 .. c + 1 : f[p] = m
      BY <1>5, <1>6, <1>7, <1>8
    <2> QED
      BY ONLY <2>1, <2>2 DEF Built
  <1> QED
    BY <1>9 DEF longer

-----------------------------------------------------------------------------
(* One lemma per part of the invariant *)

\* The files and the watcher.
LEMMA FileTypeKept ==
  ASSUME IndInv, [Next]_vars
  PROVE  FileType'
  <1> USE DEF IndInv, Types
  <1>1. ASSUME UNCHANGED <<disk, edits, filename, watched, changed>> PROVE FileType'
    BY <1>1 DEF FileType
  <1>2. ASSUME NEW f \in Files, NEW content \in Contents \cup {Missing}, EditFile(f, content)
        PROVE FileType'
    BY <1>2, TxtFileAssumption DEF FileType, Files, EditFile, files, plugin, loop, searches
  <1>3. CASE ParseConfig
    BY <1>3, TxtFileAssumption DEF FileType, Files, ParseConfig, files, plugin, loop,
                                   searches
  <1>4. CASE file_change_cb
    BY <1>4, TxtFileAssumption DEF FileType, Files, file_change_cb, files, plugin, loop,
                                   searches
  <1>5. CASE webcontrol_txtfile_free
    BY <1>5, TxtFileAssumption DEF FileType, Files, webcontrol_txtfile_free, files, plugin,
                                   loop, searches
  <1>6. CASE \/ OpenFile \/ LockAndClear \/ ReadLine \/ UnlockList
             \/ (\E w \in Workers, a \in Addresses : StartSearch(w, a))
             \/ (\E w \in Workers : LockSearch(w)) \/ (\E w \in Workers : CompareEntry(w))
             \/ (\E w \in Workers : EndSearch(w)) \/ (\E w \in Workers : UnlockSearch(w))
             \/ UNCHANGED vars
    BY <1>1, <1>6 DEF vars, OpenFile, LockAndClear, ReadLine, UnlockList, StartSearch,
                      LockSearch, CompareEntry, EndSearch, UnlockSearch, files, plugin,
                      loop, searches
  <1> QED
    BY <1>2, <1>3, <1>4, <1>5, <1>6 DEF Next, LoopStep, SearchStep, Freed

\* The list and the open file.
LEMMA ListTypeKept ==
  ASSUME IndInv, [Next]_vars
  PROVE  ListType'
  <1> USE DEF IndInv, Types
  <1>1. ASSUME UNCHANGED <<entry_chain, handle, loaded>> PROVE ListType'
    BY <1>1 DEF ListType
  <1>2. CASE OpenFile
    <2>1. disk[filename] # Missing => disk[filename] \in Seq(FileLines)
      BY TxtFileAssumption DEF FileType
    <2>2. handle' \in Seq(FileLines)
      BY <1>2, <2>1 DEF OpenFile, ListType
    <2> QED
      BY <1>2, <2>2 DEF OpenFile, ListType, plugin
  <1>3. CASE LockAndClear
    BY <1>3, TxtFileAssumption DEF ListType, LockAndClear, files, plugin, loop, searches
  <1>4. CASE ReadLine
    <2>1. Head(handle) \in FileLines /\ Tail(handle) \in Seq(FileLines)
      BY <1>4 DEF ReadLine, ListType
    <2>2. IsEntry(Head(handle)) => Entry(Head(handle)) \in EntryType
      BY <2>1, EntryIsTyped
    <2>3. entry_chain' \in Seq(EntryType)
      BY <1>4, <2>2 DEF ReadLine, ListType
    <2> QED
      BY <1>4, <2>1, <2>3 DEF ReadLine, ListType
  <1>5. CASE webcontrol_txtfile_free
    BY <1>5, TxtFileAssumption DEF ListType, webcontrol_txtfile_free, files, plugin, loop,
                                   searches
  <1>6. CASE 
             \/ (\E f \in Files, content \in Contents \cup {Missing} : EditFile(f, content))
             \/ ParseConfig \/ file_change_cb \/ UnlockList
             \/ (\E w \in Workers, a \in Addresses : StartSearch(w, a))
             \/ (\E w \in Workers : LockSearch(w)) \/ (\E w \in Workers : CompareEntry(w))
             \/ (\E w \in Workers : EndSearch(w)) \/ (\E w \in Workers : UnlockSearch(w))
             \/ UNCHANGED vars
    BY <1>1, <1>6 DEF vars, EditFile, ParseConfig, file_change_cb, UnlockList, StartSearch,
                      LockSearch, CompareEntry, EndSearch, UnlockSearch, files, plugin,
                      loop, searches
  <1> QED
    BY <1>2, <1>3, <1>4, <1>5, <1>6 DEF Next, LoopStep, SearchStep, Freed

\* The threads and the mutex.
LEMMA ThreadTypeKept ==
  ASSUME IndInv, [Next]_vars
  PROVE  ThreadType'
  <1> USE DEF IndInv, Types
  <1>1. ASSUME UNCHANGED <<mtx, lpc, wpc>> PROVE ThreadType'
    BY <1>1 DEF ThreadType, LoopPlaces
  <1>2. CASE ParseConfig
    BY <1>2, TxtFileAssumption DEF ThreadType, LoopPlaces, ParseConfig, files, plugin, loop,
                                   searches
  <1>3. CASE file_change_cb
    BY <1>3, TxtFileAssumption DEF ThreadType, LoopPlaces, file_change_cb, files, plugin,
                                   loop, searches
  <1>4. CASE OpenFile
    BY <1>4, TxtFileAssumption DEF ThreadType, LoopPlaces, OpenFile, files, plugin, loop,
                                   searches
  <1>5. CASE LockAndClear
    BY <1>5, TxtFileAssumption DEF ThreadType, LoopPlaces, LockAndClear, files, plugin,
                                   loop, searches
  <1>6. CASE UnlockList
    BY <1>6, TxtFileAssumption DEF ThreadType, LoopPlaces, UnlockList, files, plugin, loop,
                                   searches
  <1>7. CASE webcontrol_txtfile_free
    BY <1>7, TxtFileAssumption DEF ThreadType, LoopPlaces, webcontrol_txtfile_free, files,
                                   plugin, loop, searches
  <1>8. ASSUME NEW w \in Workers, NEW a \in Addresses, StartSearch(w, a) PROVE ThreadType'
    BY <1>8, TxtFileAssumption DEF ThreadType, LoopPlaces, StartSearch, files, plugin, loop,
                                   searches
  <1>9. ASSUME NEW w \in Workers, LockSearch(w) PROVE ThreadType'
    BY <1>9, TxtFileAssumption DEF ThreadType, LoopPlaces, LockSearch, files, plugin, loop,
                                   searches
  <1>10. ASSUME NEW w \in Workers, CompareEntry(w) PROVE ThreadType'
    BY <1>10, TxtFileAssumption DEF ThreadType, LoopPlaces, CompareEntry, files, plugin,
                                    loop, searches
  <1>11. ASSUME NEW w \in Workers, EndSearch(w) PROVE ThreadType'
    BY <1>11, TxtFileAssumption DEF ThreadType, LoopPlaces, EndSearch, files, plugin, loop,
                                    searches
  <1>12. ASSUME NEW w \in Workers, UnlockSearch(w) PROVE ThreadType'
    BY <1>12, TxtFileAssumption DEF ThreadType, LoopPlaces, UnlockSearch, files, plugin,
                                    loop, searches
  <1>13. CASE 
              \/ (\E f \in Files, content \in Contents \cup {Missing} : EditFile(f, content))
              \/ ReadLine \/ UNCHANGED vars
    BY <1>1, <1>13 DEF vars, EditFile, ReadLine, files, plugin, loop, searches
  <1> QED
    BY <1>2, <1>3, <1>4, <1>5, <1>6, <1>7, <1>8, <1>9, <1>10, <1>11, <1>12, <1>13 DEF Next,
       LoopStep, SearchStep, Freed

\* The searches.
LEMMA SearchTypeKept ==
  ASSUME IndInv, [Next]_vars
  PROVE  SearchType'
  <1> USE DEF IndInv, Types
  <1>1. ASSUME UNCHANGED <<addr, entry, status>> PROVE SearchType'
    BY <1>1 DEF SearchType
  <1>2. ASSUME NEW w \in Workers, NEW a \in Addresses, StartSearch(w, a) PROVE SearchType'
    BY <1>2, TxtFileAssumption DEF SearchType, Status, StartSearch, files, plugin, loop,
                                   searches
  <1>3. ASSUME NEW w \in Workers, LockSearch(w) PROVE SearchType'
    BY <1>3, TxtFileAssumption DEF SearchType, Status, LockSearch, files, plugin, loop,
                                   searches
  <1>4. ASSUME NEW w \in Workers, CompareEntry(w) PROVE SearchType'
    <2>1. entry[w] \in Nat /\ entry[w] \in 1 .. Len(entry_chain)
      BY <1>4 DEF SearchType, ListType, CompareEntry
    <2>2. entry_chain[entry[w]].flag \in Status
      <3>1. entry_chain[entry[w]] \in EntryType
        BY <2>1 DEF ListType
      <3> QED
        BY <3>1 DEF EntryType, Status
    <2>3. entry' \in [Workers -> Nat]
      BY <1>4, <2>1 DEF SearchType, CompareEntry
    <2>4. status' \in [Workers -> Status]
      BY <1>4, <2>2 DEF SearchType, CompareEntry
    <2> QED
      BY <1>4, <2>3, <2>4 DEF SearchType, CompareEntry
  <1>5. CASE 
             \/ (\E f \in Files, content \in Contents \cup {Missing} : EditFile(f, content))
             \/ ParseConfig \/ file_change_cb \/ OpenFile \/ LockAndClear \/ ReadLine
             \/ UnlockList \/ webcontrol_txtfile_free \/ (\E w \in Workers : EndSearch(w))
             \/ (\E w \in Workers : UnlockSearch(w)) \/ UNCHANGED vars
    BY <1>1, <1>5 DEF vars, EditFile, ParseConfig, file_change_cb, OpenFile, LockAndClear,
                      ReadLine, UnlockList, webcontrol_txtfile_free, EndSearch,
                      UnlockSearch, files, plugin, loop, searches
  <1> QED
    BY <1>2, <1>3, <1>4, <1>5 DEF Next, LoopStep, SearchStep, Freed

\* Nobody takes the mutex from another thread.
LEMMA LockInvKept ==
  ASSUME IndInv, [Next]_vars
  PROVE  LockInv'
  <1> USE DEF IndInv, Types
  <1>1. ASSUME UNCHANGED <<mtx, lpc, wpc>> PROVE LockInv'
    BY <1>1 DEF LockInv
  <1>2. CASE ParseConfig
    BY <1>2, TxtFileAssumption DEF LockInv, ThreadType, ParseConfig, files, plugin, loop,
                                   searches
  <1>3. CASE file_change_cb
    BY <1>3, TxtFileAssumption DEF LockInv, ThreadType, file_change_cb, files, plugin, loop,
                                   searches
  <1>4. CASE OpenFile
    BY <1>4, TxtFileAssumption DEF LockInv, ThreadType, OpenFile, files, plugin, loop,
                                   searches
  <1>5. CASE LockAndClear
    BY <1>5, TxtFileAssumption DEF LockInv, ThreadType, LockAndClear, files, plugin, loop,
                                   searches
  <1>6. CASE UnlockList
    BY <1>6, TxtFileAssumption DEF LockInv, ThreadType, UnlockList, files, plugin, loop,
                                   searches
  <1>7. CASE webcontrol_txtfile_free
    BY <1>7, TxtFileAssumption DEF LockInv, ThreadType, webcontrol_txtfile_free, files,
                                   plugin, loop, searches
  <1>8. ASSUME NEW w \in Workers, NEW a \in Addresses, StartSearch(w, a) PROVE LockInv'
    BY <1>8, TxtFileAssumption DEF LockInv, ThreadType, StartSearch, files, plugin, loop,
                                   searches
  <1>9. ASSUME NEW w \in Workers, LockSearch(w) PROVE LockInv'
    BY <1>9, TxtFileAssumption DEF LockInv, ThreadType, LockSearch, files, plugin, loop,
                                   searches
  <1>10. ASSUME NEW w \in Workers, CompareEntry(w) PROVE LockInv'
    BY <1>10, TxtFileAssumption DEF LockInv, ThreadType, CompareEntry, files, plugin, loop,
                                    searches
  <1>11. ASSUME NEW w \in Workers, EndSearch(w) PROVE LockInv'
    BY <1>11, TxtFileAssumption DEF LockInv, ThreadType, EndSearch, files, plugin, loop,
                                    searches
  <1>12. ASSUME NEW w \in Workers, UnlockSearch(w) PROVE LockInv'
    BY <1>12, TxtFileAssumption DEF LockInv, ThreadType, UnlockSearch, files, plugin, loop,
                                    searches
  <1>13. CASE 
              \/ (\E f \in Files, content \in Contents \cup {Missing} : EditFile(f, content))
              \/ ReadLine \/ UNCHANGED vars
    BY <1>1, <1>13 DEF vars, EditFile, ReadLine, files, plugin, loop, searches
  <1> QED
    BY <1>2, <1>3, <1>4, <1>5, <1>6, <1>7, <1>8, <1>9, <1>10, <1>11, <1>12, <1>13 DEF Next,
       LoopStep, SearchStep, Freed

\* Reading a line adds its entry behind those of the lines before.
LEMMA ChainInvKept ==
  ASSUME IndInv, [Next]_vars
  PROVE  ChainInv'
  <1> USE DEF IndInv, Types
  <1>1. ASSUME UNCHANGED <<entry_chain, handle, loaded, lpc>> PROVE ChainInv'
    BY <1>1 DEF ChainInv, LinesRead
  <1>2. CASE ParseConfig
    <2>1. lpc # "read" /\ lpc' # "read" /\ lpc # "freed" /\ UNCHANGED <<entry_chain, loaded>>
      BY <1>2 DEF ParseConfig, plugin
    <2> QED
      BY <2>1 DEF ChainInv, LinesRead
  <1>3. CASE file_change_cb
    <2>1. lpc # "read" /\ lpc' # "read" /\ lpc # "freed" /\ UNCHANGED <<entry_chain, loaded>>
      BY <1>3 DEF file_change_cb, plugin
    <2> QED
      BY <2>1 DEF ChainInv, LinesRead
  <1>4. CASE OpenFile
    <2>1. lpc # "read" /\ lpc' # "read" /\ lpc # "freed" /\ UNCHANGED <<entry_chain, loaded>>
      BY <1>4 DEF OpenFile, plugin
    <2> QED
      BY <2>1 DEF ChainInv, LinesRead
  <1>5. CASE LockAndClear
    <2>1. /\ lpc' = "read" /\ entry_chain' = << >> /\ loaded' = handle /\ handle' = handle
          /\ Len(handle) \in Nat
      BY <1>5 DEF LockAndClear, ListType
    <2>2. LinesRead' = 0
      BY <2>1 DEF LinesRead
    <2>3. Built(LinesRead', entry_chain', loaded')
      BY <2>1, <2>2, BuiltEmpty
    <2> QED
      BY <2>1, <2>3 DEF ChainInv
  <1>6. CASE ReadLine
    <2> DEFINE n == Len(loaded) - Len(handle)
    <2>1. /\ lpc = "read" /\ lpc' = "read" /\ loaded' = loaded /\ handle' = Tail(handle)
          /\ Len(loaded) \in Nat /\ Len(handle) \in Nat /\ Len(handle) > 0
          /\ Head(handle) = handle[1] /\ handle[1] \in FileLines
      BY <1>6 DEF ReadLine, ListType
    <2>2. /\ Len(handle') = Len(handle) - 1
          /\ \A m \in 1 .. Len(handle') : handle'[m] = handle[m + 1]
      BY <2>1 DEF ListType
    <2>3. /\ Len(handle) <= Len(loaded)
          /\ \A m \in 1 .. Len(handle) : handle[m] = loaded[n + m]
      BY <2>1 DEF ChainInv
    <2>4. n \in Nat /\ Len(handle') \in Nat /\ Len(handle') <= Len(loaded)
          /\ Len(loaded) - Len(handle') = n + 1
      <3>1. Len(handle') = Len(handle) - 1
        BY <2>2
      <3>2. Len(handle) <= Len(loaded) /\ Len(handle) > 0 /\ Len(handle) \in Nat
            /\ Len(loaded) \in Nat
        BY <2>1, <2>3
      <3> QED
        BY ONLY <3>1, <3>2
    <2>5. loaded[n + 1] = handle[1]
      BY <2>1, <2>3
    <2>6. LinesRead = n /\ LinesRead' = n + 1
      BY <2>1, <2>4 DEF LinesRead
    <2>7. Built(n, entry_chain, loaded)
      BY <2>1, <2>6 DEF ChainInv
    <2> HIDE DEF n
    <2>8. ASSUME NEW m \in 1 .. Len(handle')
          PROVE  handle'[m] = loaded[Len(loaded) - Len(handle') + m]
      <3>1. m + 1 \in 1 .. Len(handle) /\ n + (m + 1) = (n + 1) + m
        BY <2>1, <2>2, <2>4
      <3> QED
        BY <2>2, <2>3, <2>4, <3>1
    <2>9. Built(n + 1, entry_chain', loaded)
      <3>1. CASE ~IsEntry(handle[1])
        <4>1. entry_chain' = entry_chain
          BY <1>6, <2>1, <3>1 DEF ReadLine
        <4> QED
          BY <2>4, <2>5, <2>7, <3>1, <4>1, BuiltSkip DEF ListType
      <3>2. CASE IsEntry(handle[1])
        <4>1. entry_chain' = Append(entry_chain, Entry(handle[1]))
          BY <1>6, <2>1, <3>2 DEF ReadLine
        <4>2. Entry(handle[1]) \in EntryType
          BY <2>1, <3>2, EntryIsTyped
        <4> QED
          BY <2>4, <2>5, <2>7, <3>2, <4>1, <4>2, BuiltAppend DEF ListType
      <3> QED
        BY <3>1, <3>2
    <2> QED
      BY <2>1, <2>4, <2>6, <2>8, <2>9 DEF ChainInv
  <1>7. CASE UnlockList
    <2>1. lpc = "read" /\ lpc' = "idle" /\ UNCHANGED <<entry_chain, loaded>> /\ Len(handle) = 0
      BY <1>7 DEF UnlockList
    <2>2. LinesRead = Len(loaded) /\ LinesRead' = Len(loaded)
      BY <2>1 DEF LinesRead, ListType
    <2>3. Built(Len(loaded), entry_chain, loaded)
      BY <2>1, <2>2 DEF ChainInv
    <2>4. Built(LinesRead', entry_chain', loaded')
      BY <2>1, <2>2, <2>3
    <2> QED
      BY <2>1, <2>4 DEF ChainInv
  <1>8. CASE webcontrol_txtfile_free
    BY <1>8, TxtFileAssumption DEF ChainInv, ListType, webcontrol_txtfile_free, files,
                                   plugin, loop, searches
  <1>9. CASE 
             \/ (\E f \in Files, content \in Contents \cup {Missing} : EditFile(f, content))
             \/ (\E w \in Workers, a \in Addresses : StartSearch(w, a))
             \/ (\E w \in Workers : LockSearch(w)) \/ (\E w \in Workers : CompareEntry(w))
             \/ (\E w \in Workers : EndSearch(w)) \/ (\E w \in Workers : UnlockSearch(w))
             \/ UNCHANGED vars
    BY <1>1, <1>9 DEF vars, EditFile, StartSearch, LockSearch, CompareEntry, EndSearch,
                      UnlockSearch, files, plugin, loop, searches
  <1> QED
    BY <1>2, <1>3, <1>4, <1>5, <1>6, <1>7, <1>8, <1>9 DEF Next, LoopStep, SearchStep, Freed

\* A search sees one list.
LEMMA SearchInvKept ==
  ASSUME IndInv, [Next]_vars
  PROVE  SearchInv'
  <1> USE DEF IndInv, Types
  <1>1. ASSUME UNCHANGED <<entry_chain, loaded, wpc, addr, entry, status>> PROVE SearchInv'
    BY <1>1 DEF SearchInv
  <1>2. CASE LockAndClear
    <2>1. \A w \in Workers : wpc[w] \notin {"search", "unlock"}
      BY <1>2, TxtFileAssumption DEF LockInv, LockAndClear
    <2> QED
      BY <1>2, <2>1 DEF SearchInv, LockAndClear, searches
  <1>3. CASE ReadLine
    <2>1. \A w \in Workers : wpc[w] \notin {"search", "unlock"}
      BY <1>3, TxtFileAssumption DEF LockInv, ReadLine
    <2> QED
      BY <1>3, <2>1 DEF SearchInv, ReadLine, searches
  <1>4. CASE webcontrol_txtfile_free
    BY <1>4, TxtFileAssumption DEF SearchInv, SearchType, ThreadType,
                                   webcontrol_txtfile_free, files, plugin, loop, searches
  <1>5. ASSUME NEW w \in Workers, NEW a \in Addresses, StartSearch(w, a) PROVE SearchInv'
    BY <1>5, TxtFileAssumption DEF SearchInv, SearchType, ThreadType, StartSearch, files,
                                   plugin, loop, searches
  <1>6. ASSUME NEW w \in Workers, LockSearch(w) PROVE SearchInv'
    BY <1>6, TxtFileAssumption DEF SearchInv, SearchType, ThreadType, LockSearch, files,
                                   plugin, loop, searches
  <1>7. ASSUME NEW w \in Workers, CompareEntry(w) PROVE SearchInv'
    <2>1. mtx = w /\ lpc # "read" /\ lpc # "freed"
      BY <1>7, TxtFileAssumption DEF LockInv, CompareEntry
    <2>2. PICK pos \in [1 .. Len(entry_chain) -> 1 .. Len(loaded)] :
            /\ \A p, q \in 1 .. Len(entry_chain) : p < q => pos[p] < pos[q]
            /\ \A p \in 1 .. Len(entry_chain) :
                 IsEntry(loaded[pos[p]]) /\ entry_chain[p] = Entry(loaded[pos[p]])
            /\ \A m \in 1 .. Len(loaded) :
                 IsEntry(loaded[m]) => \E p \in 1 .. Len(entry_chain) : pos[p] = m
      BY <2>1 DEF ChainInv, LinesRead, Built
    <2>3. /\ loaded \in Seq(FileLines) /\ Len(loaded) \in Nat /\ Len(entry_chain) \in Nat
          /\ addr[w] \in Addresses /\ entry[w] \in Nat
          /\ \A m \in 1 .. Len(loaded) : loaded[m] \in FileLines
      BY DEF ListType, SearchType
    <2>4. \A p \in 1 .. Len(entry_chain) :
            /\ pos[p] \in 1 .. Len(loaded)
            /\ entry_chain[p].address = loaded[pos[p]].addr
            /\ entry_chain[p].flag = Flag(loaded[pos[p]].word)
      BY <2>2, <2>3, EntryIsTyped
    <2>5. ASSUME NEW m \in 1 .. Len(loaded), loaded[m].addr = addr[w]
          PROVE  \E p \in 1 .. Len(entry_chain) :
                   pos[p] = m /\ entry_chain[p].address = addr[w]
      BY <2>2, <2>3, <2>4, <2>5 DEF IsEntry
    <2>6. \A p \in entry[w] + 1 .. Len(entry_chain) : entry_chain[p].address # addr[w]
      BY <1>7 DEF SearchInv, CompareEntry
    <2>7. entry[w] \in 1 .. Len(entry_chain)
      BY <1>7 DEF ListType, CompareEntry
    <2>8. CASE entry_chain[entry[w]].address = addr[w]
      <3>1. loaded[pos[entry[w]]].addr = addr[w] /\ pos[entry[w]] \in 1 .. Len(loaded)
        BY <2>4, <2>7, <2>8
      <3>2. ASSUME NEW m \in 1 .. Len(loaded), loaded[m].addr = addr[w] PROVE m <= pos[entry[w]]
        <4>1. PICK p \in 1 .. Len(entry_chain) : pos[p] = m /\ entry_chain[p].address = addr[w]
          BY <2>5, <3>2
        <4>2. p <= entry[w]
          BY <2>3, <2>6, <4>1
        <4> QED
          BY <2>2, <2>3, <2>7, <4>1, <4>2
      <3>3. Decision(loaded, addr[w]) = Flag(loaded[pos[entry[w]]].word)
        BY <2>3, <3>1, <3>2, LastDecides
      <3>4. /\ status' = [status EXCEPT ![w] = entry_chain[entry[w]].flag]
            /\ wpc' = [wpc EXCEPT ![w] = "unlock"]
            /\ UNCHANGED <<entry, addr, entry_chain, loaded>>
        BY <1>7, <2>8 DEF CompareEntry, plugin
      <3>5. entry_chain[entry[w]].flag = Decision(loaded, addr[w])
        BY <2>4, <2>7, <3>3
      <3> QED
        BY <3>4, <3>5 DEF SearchInv, SearchType, ThreadType
    <2>9. CASE entry_chain[entry[w]].address # addr[w]
      <3>1. entry' = [entry EXCEPT ![w] = entry[w] - 1]
            /\ UNCHANGED <<status, wpc, addr, entry_chain, loaded>>
        BY <1>7, <2>9 DEF CompareEntry, plugin
      <3>2. entry'[w] = entry[w] - 1
        BY <3>1 DEF SearchType
      <3>3. /\ entry'[w] <= Len(entry_chain)
            /\ \A p \in entry'[w] + 1 .. Len(entry_chain) : entry_chain[p].address # addr[w]
        BY <2>3, <2>6, <2>7, <2>9, <3>2
      <3> QED
        BY <3>1, <3>3 DEF SearchInv, SearchType
    <2> QED
      BY <2>8, <2>9
  <1>8. ASSUME NEW w \in Workers, EndSearch(w) PROVE SearchInv'
    <2>1. mtx = w /\ lpc # "read" /\ lpc # "freed"
      BY <1>8, TxtFileAssumption DEF LockInv, EndSearch
    <2>2. PICK pos \in [1 .. Len(entry_chain) -> 1 .. Len(loaded)] :
            /\ \A p, q \in 1 .. Len(entry_chain) : p < q => pos[p] < pos[q]
            /\ \A p \in 1 .. Len(entry_chain) :
                 IsEntry(loaded[pos[p]]) /\ entry_chain[p] = Entry(loaded[pos[p]])
            /\ \A m \in 1 .. Len(loaded) :
                 IsEntry(loaded[m]) => \E p \in 1 .. Len(entry_chain) : pos[p] = m
      BY <2>1 DEF ChainInv, LinesRead, Built
    <2>3. /\ loaded \in Seq(FileLines) /\ Len(loaded) \in Nat /\ Len(entry_chain) \in Nat
          /\ addr[w] \in Addresses /\ entry[w] \in Nat
          /\ \A m \in 1 .. Len(loaded) : loaded[m] \in FileLines
      BY DEF ListType, SearchType
    <2>4. \A p \in 1 .. Len(entry_chain) :
            /\ pos[p] \in 1 .. Len(loaded)
            /\ entry_chain[p].address = loaded[pos[p]].addr
            /\ entry_chain[p].flag = Flag(loaded[pos[p]].word)
      BY <2>2, <2>3, EntryIsTyped
    <2>5. ASSUME NEW m \in 1 .. Len(loaded), loaded[m].addr = addr[w]
          PROVE  \E p \in 1 .. Len(entry_chain) :
                   pos[p] = m /\ entry_chain[p].address = addr[w]
      BY <2>2, <2>3, <2>4, <2>5 DEF IsEntry
    <2>6. \A p \in entry[w] + 1 .. Len(entry_chain) : entry_chain[p].address # addr[w]
      BY <1>8 DEF SearchInv, EndSearch
    <2>7. \A m \in 1 .. Len(loaded) : loaded[m].addr # addr[w]
      BY <1>8, <2>3, <2>5, <2>6 DEF EndSearch
    <2>8. Decision(loaded, addr[w]) = "GO_ON"
      BY <2>3, <2>7, NoneDecides
    <2>9. status[w] = "GO_ON"
      BY <1>8 DEF SearchInv, EndSearch
    <2> QED
      BY <1>8, <2>8, <2>9 DEF SearchInv, ThreadType, EndSearch, plugin
  <1>9. ASSUME NEW w \in Workers, UnlockSearch(w) PROVE SearchInv'
    BY <1>9, TxtFileAssumption DEF SearchInv, SearchType, ThreadType, UnlockSearch, files,
                                   plugin, loop, searches
  <1>10. CASE 
              \/ (\E f \in Files, content \in Contents \cup {Missing} : EditFile(f, content))
              \/ ParseConfig \/ file_change_cb \/ OpenFile \/ UnlockList \/ UNCHANGED vars
    BY <1>1, <1>10 DEF vars, EditFile, ParseConfig, file_change_cb, OpenFile, UnlockList,
                       files, plugin, loop, searches
  <1> QED
    BY <1>2, <1>3, <1>4, <1>5, <1>6, <1>7, <1>8, <1>9, <1>10 DEF Next, LoopStep, SearchStep,
       Freed

-----------------------------------------------------------------------------
(* The theorems *)

\* The invariant holds initially and every step of an administrator, of the event
\* loop or of a worker keeps it.
LEMMA Inductive == Spec => []IndInv
  <1>1. Init => IndInv
    <2> SUFFICES ASSUME Init PROVE IndInv
      OBVIOUS
    <2>1. entry_chain = << >> /\ handle = << >> /\ loaded = << >> /\ lpc = "config"
          /\ mtx = NoThread
      BY DEF Init
    <2>2. wpc = [w \in Workers |-> "idle"] /\ addr \in [Workers -> Addresses]
          /\ entry = [w \in Workers |-> 0] /\ status = [w \in Workers |-> "GO_ON"]
      BY DEF Init
    <2>3. FileType
      <3>1. edits = 0 /\ MaxEdits \in Nat
        BY TxtFileAssumption DEF Init
      <3>2. edits \in 0 .. MaxEdits
        BY <3>1
      <3>3. changed \in BOOLEAN
        BY DEF Init
      <3> QED
        BY <3>2, <3>3 DEF Init, FileType, Files
    <2>4. ListType
      BY <2>1 DEF ListType
    <2>5. ThreadType /\ LockInv
      BY <2>1, <2>2, TxtFileAssumption DEF ThreadType, LoopPlaces, LockInv
    <2>6. SearchType
      BY <2>2 DEF SearchType, Status
    <2>7. ChainInv
      <3>1. LinesRead = 0
        BY <2>1 DEF LinesRead
      <3> QED
        BY <2>1, <3>1, BuiltEmpty DEF ChainInv
    <2>8. SearchInv
      BY <2>2 DEF SearchInv
    <2> QED
      BY <2>3, <2>4, <2>5, <2>6, <2>7, <2>8 DEF IndInv, Types
  <1>2. IndInv /\ [Next]_vars => IndInv'
    BY FileTypeKept, ListTypeKept, ThreadTypeKept, SearchTypeKept, LockInvKept,
       ChainInvKept,
       SearchInvKept DEF IndInv, Types
  <1> QED
    BY <1>1, <1>2, PTL DEF Spec

\* The variables keep their types: the list holds entries with an address only
\* (webcontrol_txtfile.c:87-117).
THEOREM TypeCorrect == Spec => []TypeOK
  <1>1. IndInv => TypeOK
    BY DEF IndInv, Types, FileType, ListType, ThreadType, SearchType, EntryType, TypeOK
  <1> QED
    BY <1>1, Inductive, PTL

\* A search never follows a freed entry, and its answer is what one file, the one
\* loaded last, says about the address as a whole
\* (webcontrol_txtfile.c:119-132, 178-195).
THEOREM SearchesSeeOneFile == Spec => []SearchSeesOneFile
  <1>1. IndInv => SearchSeesOneFile
    BY DEF IndInv, SearchInv, SearchSeesOneFile
  <1> QED
    BY <1>1, Inductive, PTL

\* A step keeps a stale list noticed.  Only an edit changes the file, and ev_stat
\* sees one of the file it looks at; only fopen changes what the list is built
\* from, and it takes what the file holds at that moment.
LEMMA StaleIsNoticedKept ==
  ASSUME Types, StaleIsNoticed, [Next]_vars
  PROVE  StaleIsNoticed'
  <1> USE DEF StaleIsNoticed, Source
  <1>1. CASE UNCHANGED vars
    BY <1>1 DEF vars, files, plugin, loop
  <1>2. CASE ParseConfig
    BY <1>2 DEF ParseConfig
  <1>3. CASE file_change_cb
    BY <1>3 DEF file_change_cb
  <1>4. CASE OpenFile
    <2>1. disk' = disk /\ filename' = filename /\ watched' = watched
      BY <1>4 DEF OpenFile, files, plugin
    <2>2. CASE disk[filename] # Missing
      BY <1>4, <2>1, <2>2 DEF OpenFile
    <2>3. CASE disk[filename] = Missing
      BY <2>1, <2>3
    <2> QED
      BY <2>2, <2>3
  <1>5. CASE LockAndClear
    BY <1>5 DEF LockAndClear, files
  <1>6. CASE ReadLine
    BY <1>6 DEF ReadLine, files
  <1>7. CASE UnlockList
    BY <1>7 DEF UnlockList, files
  <1>8. CASE webcontrol_txtfile_free
    <2>1. watched' = NoFile /\ filename' = filename
      BY <1>8 DEF webcontrol_txtfile_free
    <2> QED
      BY <2>1, TxtFileAssumption DEF Types, FileType, Files
  <1>9. CASE Freed
    BY <1>9 DEF Freed, vars, files, plugin, loop
  <1>10. ASSUME NEW f \in Files, NEW content \in Contents \cup {Missing}, EditFile(f, content)
         PROVE  StaleIsNoticed'
    <2>1. filename' = filename /\ watched' = watched /\ loaded' = loaded /\ lpc' = lpc
          /\ handle' = handle
      BY <1>10 DEF EditFile, plugin
    <2>2. CASE f = watched
      BY <1>10, <2>1, <2>2 DEF EditFile
    <2>3. CASE f # watched /\ watched = filename
      <3>1. disk'[filename] = disk[filename]
        BY <1>10, <2>3 DEF EditFile, Types, FileType
      <3>2. changed => changed'
        BY <1>10 DEF EditFile
      <3> QED
        BY <2>1, <3>1, <3>2
    <2> QED
      BY <2>1, <2>2, <2>3
  <1>11. ASSUME NEW w \in Workers, SearchStep(w) \/ \E a \in Addresses : StartSearch(w, a)
         PROVE  StaleIsNoticed'
    <2>1. UNCHANGED <<disk, filename, watched, loaded, lpc, handle, changed>>
      BY <1>11 DEF SearchStep, StartSearch, LockSearch, CompareEntry, EndSearch,
                   UnlockSearch, files, plugin, loop
    <2> QED
      BY <2>1
  <1> QED
    BY <1>1, <1>2, <1>3, <1>4, <1>5, <1>6, <1>7, <1>8, <1>9, <1>10, <1>11
    DEF Next, LoopStep

\* No change of the watched file is forgotten, whenever it comes: as long as the
\* list differs from the file, libev has a change to report or a reload is about
\* to open the file (webcontrol_txtfile.c:109-134, 139-153).
THEOREM NoChangeForgotten == Spec => []StaleIsNoticed
  <1>1. Init => StaleIsNoticed
    BY DEF Init, StaleIsNoticed
  <1>2. IndInv /\ StaleIsNoticed /\ [Next]_vars => StaleIsNoticed'
    BY StaleIsNoticedKept DEF IndInv
  <1> QED
    BY <1>1, <1>2, Inductive, PTL DEF Spec
=============================================================================
