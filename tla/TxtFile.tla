------------------------------- MODULE TxtFile ------------------------------
(***************************************************************************)
(* src/plugins/mod_txtfile/webcontrol_txtfile.c: the list of hosts, read    *)
(* from a file, searched by the workers while the event loop rebuilds it    *)
(* whenever libev reports that the file has changed.                        *)
(*                                                                          *)
(* entry_chain is written oldest entry first.  The list's head, where the    *)
(* code inserts and where a search begins, is the LAST element, so that the  *)
(* position of an entry does not change when another is inserted; a         *)
(* position beyond the end is a pointer to an entry that has been freed.     *)
(***************************************************************************)
EXTENDS Integers, Sequences

CONSTANTS
  Workers,      \* the threads that handle requests
  Addresses,    \* the addresses of clients
  NoAddress,    \* a word inet_pton accepts neither as IPv6 nor as IPv4
  Contents,     \* what may be in a file: sequences of lines
  Missing,      \* the file cannot be opened
  DefaultFile,  \* WEBCONTROL_TXTFILE_DEFAULT_FILENAME
  ConfigFile,   \* the file named in the configuration
  NoFile,       \* a path at which there is nothing
  NoThread,     \* mtx is free
  EventLoop,    \* mtx is held by the event loop's thread
  MaxEdits      \* bound: how often the files are changed

\* A line of the file: an address and, after a blank, a word.
FileLines == [addr : Addresses \cup {NoAddress}, word : {"ALLOW", "allow", "DENY"}]

ASSUME TxtFileAssumption ==
  /\ Contents \subseteq Seq(FileLines)
  /\ Missing \notin Contents
  /\ NoAddress \notin Addresses
  /\ NoThread \notin Workers \cup {EventLoop} /\ EventLoop \notin Workers
  /\ DefaultFile # ConfigFile /\ NoFile \notin {DefaultFile, ConfigFile}
  /\ MaxEdits \in Nat

Files  == {DefaultFile, ConfigFile}
Status == {"ALLOW", "DENY", "GO_ON"}

VARIABLES
  disk,         \* what is in the files
  edits,        \* how often they have been changed
  filename,     \* pd->filename
  watched,      \* the path libev's ev_stat looks at
  changed,      \* that file differs from what ev_stat saw last
  entry_chain,  \* pd->entry_chain
  mtx,          \* the holder of pd->mtx
  started,      \* the configuration is processed and the workers are started
  lpc,          \* where the event loop's thread is
  handle,       \* the lines of the open file that fgets has not returned yet
  loaded,       \* the file the list was last built from
  wpc,          \* where each worker is
  addr,         \* request->ip_addr
  entry,        \* the entry a search looks at; 0 is NULL
  status        \* what a search has found

files   == <<disk, edits>>
plugin  == <<filename, watched, entry_chain, mtx, loaded>>
loop    == <<lpc, changed, handle, started>>
searches == <<wpc, addr, entry, status>>
vars == <<files, plugin, loop, searches>>

(* Where the event loop's thread can be:                                   *)
(*   config   the plugin is initialised, the configuration not parsed yet  *)
(*   first    in parse_file for the first time, before the workers exist   *)
(*   open     in parse_file, called by file_change_cb                      *)
(*   lock     the file is open, about to lock                              *)
(*   read     holds mtx, in the fgets loop                                 *)
(*   idle     in libev                                                     *)
(*   freed    plugin_free has been called                                  *)
LoopPlaces == {"config", "first", "open", "lock", "read", "idle", "freed"}

\* webcontrol_mod_txtfile_plugin_init
Init ==
  /\ disk \in [Files -> Contents \cup {Missing}] /\ edits = 0
  /\ filename = DefaultFile /\ watched = DefaultFile /\ changed = FALSE
  /\ entry_chain = << >> /\ mtx = NoThread
  /\ started = FALSE /\ lpc = "config" /\ handle = << >> /\ loaded = << >>
  /\ wpc = [w \in Workers |-> "idle"]
  /\ addr \in [Workers -> Addresses]
  /\ entry = [w \in Workers |-> 0]
  /\ status = [w \in Workers |-> "GO_ON"]

\* An administrator replaces a file.
EditFile(f, content) ==
  /\ edits < MaxEdits
  /\ content # disk[f]
  /\ disk' = [disk EXCEPT ![f] = content]
  /\ edits' = edits + 1
  /\ changed' = (changed \/ f = watched)
  /\ UNCHANGED <<plugin, lpc, handle, started, searches>>

-----------------------------------------------------------------------------
(* The event loop's thread *)

\* The configuration is parsed.  When it names a file, the option parser frees
\* the string ev_stat still points to and stores a new one: from then on the
\* path that is watched is whatever is in that memory, the old name, the new
\* one or neither.
ParseConfig ==
  /\ lpc = "config"
  /\ \/ UNCHANGED <<filename, watched, changed>>
     \/ /\ filename' = ConfigFile
        /\ watched' \in {DefaultFile, ConfigFile, NoFile}
        /\ changed' = (changed \/ watched' # DefaultFile)
  /\ lpc' = "first"
  /\ UNCHANGED <<files, entry_chain, mtx, loaded, handle, started, searches>>

\* libev compares the file's status with the last one and calls back.
file_change_cb ==
  /\ lpc = "idle" /\ changed
  /\ changed' = FALSE
  /\ lpc' = "open"
  /\ UNCHANGED <<files, plugin, handle, started, searches>>

\* parse_file: fopen.  A file that cannot be opened leaves the list as it is.
OpenFile ==
  /\ lpc \in {"first", "open"}
  /\ \/ disk[filename] # Missing /\ handle' = disk[filename] /\ lpc' = "lock"
        /\ UNCHANGED started
     \/ /\ disk[filename] = Missing
        /\ UNCHANGED handle /\ lpc' = "idle" /\ started' = TRUE
  /\ UNCHANGED <<files, plugin, changed, searches>>

\* pthread_mutex_lock, clear_entries
LockAndClear ==
  /\ lpc = "lock" /\ mtx = NoThread
  /\ mtx' = EventLoop
  /\ entry_chain' = << >> /\ loaded' = handle
  /\ lpc' = "read"
  /\ UNCHANGED <<files, filename, watched, changed, handle, started, searches>>

\* strtoupper and strcmp
Flag(word) == IF word \in {"ALLOW", "allow"} THEN "ALLOW" ELSE "DENY"

\* Mutant: what inet_pton returns is ignored.
IsEntry_Always(line) == TRUE

\* parse_line: NULL for a line that does not begin with an address.
IsEntry(line) == line.addr \in Addresses
Entry(line)   == [address |-> line.addr, flag |-> Flag(line.word)]

\* fgets, parse_line, and the insertion at the head
ReadLine ==
  /\ lpc = "read" /\ handle # << >>
  /\ entry_chain' = IF IsEntry(Head(handle)) THEN Append(entry_chain, Entry(Head(handle)))
                                             ELSE entry_chain
  /\ handle' = Tail(handle)
  /\ UNCHANGED <<files, filename, watched, mtx, loaded, lpc, changed, started, searches>>

\* Mutant: a change that came during the reload is taken as seen.
UnlockList_ForgetsChange ==
  /\ lpc = "read" /\ handle = << >>
  /\ mtx' = NoThread
  /\ lpc' = "idle" /\ started' = TRUE
  /\ changed' = FALSE
  /\ UNCHANGED <<files, filename, watched, entry_chain, loaded, handle, searches>>

\* The end of the file: pthread_mutex_unlock, fclose.
UnlockList ==
  /\ lpc = "read" /\ handle = << >>
  /\ mtx' = NoThread
  /\ lpc' = "idle" /\ started' = TRUE
  /\ UNCHANGED <<files, filename, watched, entry_chain, loaded, changed, handle, searches>>

\* webcontrol_txtfile_free, called by main when the workers are joined and the
\* event loop has ended.
webcontrol_txtfile_free ==
  /\ lpc = "idle" /\ mtx = NoThread
  /\ \A w \in Workers : wpc[w] = "idle"
  /\ lpc' = "freed"
  /\ changed' = FALSE /\ watched' = NoFile
  /\ entry_chain' = << >>
  /\ UNCHANGED <<files, filename, mtx, loaded, handle, started, searches>>

-----------------------------------------------------------------------------
(* A worker: webcontrol_txtfile_handle_request *)

\* A worker, started after the configuration and joined before plugin_free,
\* calls the hook.
StartSearch(w, a) ==
  /\ wpc[w] = "idle" /\ started /\ lpc # "freed"
  /\ addr' = [addr EXCEPT ![w] = a]
  /\ status' = [status EXCEPT ![w] = "GO_ON"]
  /\ wpc' = [wpc EXCEPT ![w] = "lock"]
  /\ UNCHANGED <<files, plugin, loop, entry>>

\* Mutant: the mutex protects only the reading of the head.
LockSearch_HeadOnly(w) ==
  /\ wpc[w] = "lock" /\ mtx = NoThread
  /\ entry' = [entry EXCEPT ![w] = Len(entry_chain)]
  /\ wpc' = [wpc EXCEPT ![w] = "search"]
  /\ UNCHANGED <<files, plugin, loop, addr, status>>

\* pthread_mutex_lock, and the head of the list
LockSearch(w) ==
  /\ wpc[w] = "lock" /\ mtx = NoThread
  /\ mtx' = w
  /\ entry' = [entry EXCEPT ![w] = Len(entry_chain)]
  /\ wpc' = [wpc EXCEPT ![w] = "search"]
  /\ UNCHANGED <<files, filename, watched, entry_chain, loaded, loop, addr, status>>

\* One iteration: a match ends the search with the entry's flag.
CompareEntry(w) ==
  /\ wpc[w] = "search" /\ entry[w] \in DOMAIN entry_chain
  /\ \/ /\ entry_chain[entry[w]].address = addr[w]
        /\ status' = [status EXCEPT ![w] = entry_chain[entry[w]].flag]
        /\ wpc' = [wpc EXCEPT ![w] = "unlock"]
        /\ UNCHANGED entry
     \/ /\ entry_chain[entry[w]].address # addr[w]
        /\ entry' = [entry EXCEPT ![w] = @ - 1]
        /\ UNCHANGED <<status, wpc>>
  /\ UNCHANGED <<files, plugin, loop, addr>>

\* The end of the list.
EndSearch(w) ==
  /\ wpc[w] = "search" /\ entry[w] = 0
  /\ wpc' = [wpc EXCEPT ![w] = "unlock"]
  /\ UNCHANGED <<files, plugin, loop, addr, entry, status>>

\* pthread_mutex_unlock; the status is returned.
UnlockSearch(w) ==
  /\ wpc[w] = "unlock"
  /\ mtx' = NoThread
  /\ wpc' = [wpc EXCEPT ![w] = "idle"]
  /\ UNCHANGED <<files, filename, watched, entry_chain, loaded, loop, addr, entry, status>>

-----------------------------------------------------------------------------
LoopStep ==
  \/ ParseConfig \/ file_change_cb \/ OpenFile \/ LockAndClear \/ ReadLine
  \/ UnlockList

SearchStep(w) == LockSearch(w) \/ CompareEntry(w) \/ EndSearch(w) \/ UnlockSearch(w)

\* Nothing is left to do once the plugin is freed.
Freed == lpc = "freed" /\ UNCHANGED vars

Next ==
  \/ LoopStep \/ webcontrol_txtfile_free \/ Freed
  \/ \E f \in Files, content \in Contents \cup {Missing} : EditFile(f, content)
  \/ \E w \in Workers : SearchStep(w) \/ \E a \in Addresses : StartSearch(w, a)

Spec == Init /\ [][Next]_vars

(* libev notices a changed file, the event loop and the workers run.  A     *)
(* mutex owes nothing to the thread that waits longest.                     *)
Fairness == WF_vars(LoopStep) /\ \A w \in Workers : WF_vars(SearchStep(w))

FairSpec == Spec /\ Fairness

-----------------------------------------------------------------------------
(* Properties *)

TypeOK ==
  /\ disk \in [Files -> Contents \cup {Missing}] /\ edits \in 0 .. MaxEdits
  /\ filename \in Files /\ watched \in Files \cup {NoFile} /\ changed \in BOOLEAN
  /\ entry_chain \in Seq([address : Addresses, flag : {"ALLOW", "DENY"}])
  /\ mtx \in Workers \cup {EventLoop, NoThread}
  /\ lpc \in LoopPlaces
  /\ handle \in Seq(FileLines) /\ loaded \in Seq(FileLines)
  /\ wpc \in [Workers -> {"idle", "lock", "search", "unlock"}]
  /\ addr \in [Workers -> Addresses]
  /\ entry \in [Workers -> Nat]
  /\ status \in [Workers -> Status]

\* What a file says about an address: the last line that names it counts.
Decision(lines, a) ==
  LET hits == {k \in DOMAIN lines : lines[k].addr = a}
  IN  IF hits = {} THEN "GO_ON"
      ELSE Flag(lines[CHOOSE k \in hits : \A j \in hits : j <= k].word)

\* A search never follows a pointer to an entry that a reload has freed, and it
\* answers what ONE file said as a whole, the one loaded last: never a mixture
\* of two versions and never a list that is only partly built.  Of two lines
\* about one address the later one wins (webcontrol_txtfile.c:119-132 against
\* 178-195).
SearchSeesOneFile ==
  \A w \in Workers :
    /\ wpc[w] = "search" => entry[w] <= Len(entry_chain)
    /\ wpc[w] = "unlock" => status[w] = Decision(loaded, addr[w])

\* What the list is built from: the open file until it is read.
Source == IF lpc = "lock" THEN handle ELSE loaded

\* A list that is not, and will not become, that of the configured file never
\* goes unnoticed: either libev still has a change to report, or parse_file has
\* been called and has not opened the file yet.  A change that comes between
\* fopen and fclose, or after an fopen that failed, is no exception
\* (webcontrol_txtfile.c:109-134, 139-153).
StaleIsNoticed ==
  watched = filename /\ disk[filename] # Missing /\ Source # disk[filename] =>
    changed \/ lpc \in {"config", "first", "open"}

\* A change of the watched file is not lost, even when it comes while the file
\* is being read: when searches cease to keep the event loop from the mutex, the
\* list becomes that of the file, unless the file cannot be opened
\* (webcontrol_txtfile.c:139-153, 247-248).
SearchesCease == <>[][\A w \in Workers, a \in Addresses : ~StartSearch(w, a)]_vars
UpToDate == disk[filename] # Missing => loaded = disk[filename]
ChangesTakeEffect ==
  SearchesCease => <>[](watched = filename => UpToDate)

\* "dynamically deny/allow internet access for clients" (README.md:4) and "File
\* changed." (webcontrol_txtfile.c:141): the same for the file that is
\* configured.
ConfiguredChangesTakeEffect ==
  SearchesCease => <>[](lpc = "freed" \/ UpToDate)
=============================================================================
