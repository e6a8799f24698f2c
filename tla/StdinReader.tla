---------------------------- MODULE StdinReader -----------------------------
(***************************************************************************)
(* stdin_read_cb (src/core/main.c:48-146) byte by byte: how request lines   *)
(* are cut out of a stream that arrives in pieces of any size.              *)
(*                                                                          *)
(* One step per iteration of the for loop.  After a newline the code sets    *)
(* line_start = ++i and the for loop adds one more, so the byte after a      *)
(* newline is never itself tested for being a newline.  The queue the lines  *)
(* go to is unbounded here: blocking is the subject of Webcontrol.           *)
(***************************************************************************)
EXTENDS Integers, Sequences

CONSTANTS
  Chars,      \* the bytes of a request, the newline not among them
  NL,         \* '\n'
  NUL,        \* '\0', never sent by Squid
  ChunkSize,  \* the bytes one read asks for (STDIN_BUF_CHUNKSIZE - 1)
  MaxInput    \* bound: the bytes Squid sends

ASSUME ReaderAssumption ==
  /\ ChunkSize \in Nat \ {0}
  /\ MaxInput \in Nat
  /\ NL \notin Chars /\ NUL \notin Chars /\ NL # NUL

Bytes == Chars \cup {NL}

VARIABLES
  input,        \* everything Squid sends before it closes the pipe
  consumed,     \* how many bytes of it have been read
  readbuf,      \* the bytes of the last read and the '\0' after them
  bytes,        \* what read returned
  i,            \* the loop index
  line_start,
  tmp_line_buf, \* the remainder of the chunks before
  job_queue,    \* the lines delivered
  pc            \* "read", "scan" or "stopped"

vars == <<input, consumed, readbuf, bytes, i, line_start, tmp_line_buf, job_queue, pc>>

Init ==
  /\ \E n \in 0 .. MaxInput : input \in [1 .. n -> Bytes]
  /\ consumed = 0
  /\ readbuf = [k \in {0} |-> NUL]
  /\ bytes = 0
  /\ i = 0
  /\ line_start = 0
  /\ tmp_line_buf = << >>
  /\ job_queue = << >>
  /\ pc = "read"

\* The C string that begins at an index of a buffer of bytes + 1 characters.
CString(buf, from) ==
  LET end == CHOOSE e \in from .. bytes :
               /\ buf[e] = NUL
               /\ \A k \in from .. e - 1 : buf[k] # NUL
  IN  [k \in 1 .. end - from |-> buf[from + k - 1]]

\* Mutant: the scan of a chunk begins at its second byte.
ReadChunk_FromSecond ==
  /\ pc = "read" /\ consumed < Len(input)
  /\ \E n \in 1 .. ChunkSize :
       /\ consumed + n <= Len(input)
       /\ bytes' = n
       /\ readbuf' = [k \in 0 .. n |-> IF k = n THEN NUL ELSE input[consumed + k + 1]]
       /\ consumed' = consumed + n
  /\ i' = 1
  /\ line_start' = 0
  /\ pc' = "scan"
  /\ UNCHANGED <<input, tmp_line_buf, job_queue>>

\* read() > 0 returns any part of what is there, up to the size asked for.
ReadChunk ==
  /\ pc = "read" /\ consumed < Len(input)
  /\ \E n \in 1 .. ChunkSize :
       /\ consumed + n <= Len(input)
       /\ bytes' = n
       /\ readbuf' = [k \in 0 .. n |-> IF k = n THEN NUL ELSE input[consumed + k + 1]]
       /\ consumed' = consumed + n
  /\ i' = 0
  /\ line_start' = 0
  /\ pc' = "scan"
  /\ UNCHANGED <<input, tmp_line_buf, job_queue>>

\* read() == 0: the watcher is stopped; a remainder is left where it is.
ReadEof ==
  /\ pc = "read" /\ consumed = Len(input)
  /\ pc' = "stopped"
  /\ UNCHANGED <<input, consumed, readbuf, bytes, i, line_start, tmp_line_buf, job_queue>>

\* An ordinary byte.
ScanByte ==
  /\ pc = "scan" /\ i < bytes /\ readbuf[i] # NL
  /\ i' = i + 1
  /\ UNCHANGED <<input, consumed, readbuf, bytes, line_start, tmp_line_buf, job_queue, pc>>

\* Mutant: the line forgets the remainder it begins with.
ScanNewline_NoRemainder ==
  /\ pc = "scan" /\ i < bytes /\ readbuf[i] = NL
  /\ readbuf' = [readbuf EXCEPT ![i] = NUL]
  /\ job_queue' = Append(job_queue, CString(readbuf', line_start))
  /\ tmp_line_buf' = << >>
  /\ line_start' = i + 1
  /\ i' = i + 2
  /\ UNCHANGED <<input, consumed, bytes, pc>>

\* Mutant: the next line begins where the for loop goes on.
ScanNewline_StartsLate ==
  /\ pc = "scan" /\ i < bytes /\ readbuf[i] = NL
  /\ readbuf' = [readbuf EXCEPT ![i] = NUL]
  /\ job_queue' = Append(job_queue, tmp_line_buf \o CString(readbuf', line_start))
  /\ tmp_line_buf' = << >>
  /\ line_start' = i + 2
  /\ i' = i + 2
  /\ UNCHANGED <<input, consumed, bytes, pc>>

\* Mutant: the two bytes after a newline are not tested.
ScanNewline_SkipsTwo ==
  /\ pc = "scan" /\ i < bytes /\ readbuf[i] = NL
  /\ readbuf' = [readbuf EXCEPT ![i] = NUL]
  /\ job_queue' = Append(job_queue, tmp_line_buf \o CString(readbuf', line_start))
  /\ tmp_line_buf' = << >>
  /\ line_start' = i + 1
  /\ i' = i + 3
  /\ UNCHANGED <<input, consumed, bytes, pc>>

\* A newline ends the line that begins with the remainder, if there is one.
ScanNewline ==
  /\ pc = "scan" /\ i < bytes /\ readbuf[i] = NL
  /\ readbuf' = [readbuf EXCEPT ![i] = NUL]
  /\ job_queue' = Append(job_queue, tmp_line_buf \o CString(readbuf', line_start))
  /\ tmp_line_buf' = << >>
  /\ line_start' = i + 1
  /\ i' = i + 2
  /\ UNCHANGED <<input, consumed, bytes, pc>>

\* Mutant: the new remainder goes in front of the old one.
EndChunk_InFront ==
  /\ pc = "scan" /\ i >= bytes
  /\ tmp_line_buf' = IF readbuf[line_start] # NUL
                     THEN [k \in 1 .. bytes - line_start |->
                             readbuf[line_start + k - 1]] \o tmp_line_buf
                     ELSE << >>
  /\ pc' = "read"
  /\ UNCHANGED <<input, consumed, readbuf, bytes, i, line_start, job_queue>>

\* The end of the chunk: what follows the last newline is kept.  With a
\* remainder the callback reads again at once, without one it returns and is
\* called again when stdin is readable.
EndChunk ==
  /\ pc = "scan" /\ i >= bytes
  /\ tmp_line_buf' = IF readbuf[line_start] # NUL
                     THEN tmp_line_buf \o [k \in 1 .. bytes - line_start |->
                                             readbuf[line_start + k - 1]]
                     ELSE << >>
  /\ pc' = "read"
  /\ UNCHANGED <<input, consumed, readbuf, bytes, i, line_start, job_queue>>

\* Nothing is read once the watcher is stopped.
Stopped == pc = "stopped" /\ UNCHANGED vars

Next == ReadChunk \/ ReadEof \/ ScanByte \/ ScanNewline \/ EndChunk \/ Stopped

Spec == Init /\ [][Next]_vars

-----------------------------------------------------------------------------
(* Properties *)

\* The indices stay inside readbuf, its terminator included: main.c:110 reads
\* readbuf[line_start] after line_start has been moved past a final newline.
TypeOK ==
  /\ input \in Seq(Bytes)
  /\ consumed \in 0 .. Len(input)
  /\ bytes \in 0 .. ChunkSize /\ bytes <= consumed
  /\ readbuf \in [0 .. bytes -> Bytes \cup {NUL}]
  /\ i \in 0 .. bytes + 1
  /\ line_start \in 0 .. bytes /\ line_start <= i
  /\ tmp_line_buf \in Seq(Bytes)
  /\ job_queue \in Seq(Seq(Bytes))
  /\ pc \in {"read", "scan", "stopped"}

\* What has been read and is not part of a line yet: the remainder, and the
\* bytes of the chunk from line_start on.
Unscanned == IF pc = "scan" THEN [k \in 1 .. bytes - line_start |-> readbuf[line_start + k - 1]]
                            ELSE << >>
Pending == tmp_line_buf \o Unscanned

\* How many bytes of the input have gone into lines, their newlines included.
Delivered == consumed - Len(Pending)

\* Whatever the sizes of the reads, no byte is lost, repeated or moved between
\* the pipe and the line it belongs to: what is pending is the end of what has
\* been read (main.c:83-93, 110-118).
PendingIsInput == Pending = SubSeq(input, Delivered + 1, consumed)

\* A worker is never given two requests as one, however the stream was cut: a
\* newline is in a line at most as its first byte, where the worker's sscanf
\* skips it.  The byte after a newline is the only one the loop does not test
\* (main.c:74-77, 104).
NoNewlineInside(s) == \A k \in 2 .. Len(s) : s[k] # NL
OneRequestPerLine  == \A n \in DOMAIN job_queue : NoNewlineInside(job_queue[n])

\* The positions at which lines were cut out of a stream, up to and with byte end.
IsCut(cut, lines, stream, end) ==
  /\ \A n \in 1 .. Len(lines) :
       LET from == IF n = 1 THEN 1 ELSE cut[n - 1] + 1
       IN  from <= cut[n] /\ lines[n] = SubSeq(stream, from, cut[n] - 1)
  /\ end = IF lines = << >> THEN 0 ELSE cut[Len(lines)]
Newlines(stream) == {p \in 1 .. Len(stream) : stream[p] = NL}

\* The lines are the stream: joined with newlines they are the bytes that were
\* delivered, in order and without a gap, whatever the reads cut in two; and when
\* the callback is done with a chunk, no complete line is left in the remainder
\* (main.c:59-142).
LinesAreStream ==
  /\ \E cut \in [1 .. Len(job_queue) -> Newlines(input)] :
       IsCut(cut, job_queue, input, Delivered)
  /\ pc # "scan" => NoNewlineInside(Pending)

\* The lines a step enqueues.
NewLines == SubSeq(job_queue', Len(job_queue) + 1, Len(job_queue'))

\* Lines are delivered in the order of the stream: a step that enqueues a line
\* enqueues the next bytes of the input up to a newline, and that newline is
\* consumed with them; no other step gives bytes away (main.c:77-106).
NextLineOnly ==
  /\ SubSeq(job_queue', 1, Len(job_queue)) = job_queue
  /\ \/ NewLines = << >> /\ Delivered' = Delivered
     \/ LET line == Head(NewLines)
        IN  /\ Len(NewLines) = 1
            /\ line = SubSeq(input, Delivered + 1, Delivered + Len(line))
            /\ input[Delivered + Len(line) + 1] = NL
            /\ Delivered' = Delivered + Len(line) + 1
DeliversNextLine == [][NextLineOnly]_vars
=============================================================================
