------------------------- MODULE StdinReaderProofs --------------------------
(***************************************************************************)
(* Proofs about StdinReader for every alphabet, every size of the reads and  *)
(* every length of the input.                                               *)
(***************************************************************************)
EXTENDS StdinReader, SequenceTheorems, TLAPS

-----------------------------------------------------------------------------
(* The inductive invariant *)

\* TypeOK in parts, so that a proof can cite what it needs.
InputType ==
  /\ input \in Seq(Bytes)
  /\ consumed \in 0 .. Len(input)
  /\ bytes \in 0 .. ChunkSize /\ bytes <= consumed
BufferType == readbuf \in [0 .. bytes -> Bytes \cup {NUL}]
IndexType ==
  /\ i \in 0 .. bytes + 1
  /\ line_start \in 0 .. bytes /\ line_start <= i
PlaceType == pc \in {"read", "scan", "stopped"}
LineType ==
  /\ tmp_line_buf \in Seq(Bytes)
  /\ job_queue \in Seq(Seq(Bytes))

\* The string s is what the stream holds just before its byte e + 1.
Ends(s, stream, e) ==
  /\ Len(s) <= e
  /\ \A k \in 1 .. Len(s) : s[k] = stream[e - Len(s) + k]

\* The bytes of a buffer from one index up to, and without, another.
Slice(buf, from, to) == [k \in 1 .. to - from |-> buf[from + k - 1]]

\* How many bytes had been read when the remainder was kept.
Before == IF pc = "scan" THEN consumed - bytes ELSE consumed

\* The remainder is the end of what had been read.
RemainderInv == Ends(tmp_line_buf, input, Before)

\* From line_start on the chunk is as it was read, and the terminator behind it
\* is the only one there; a remainder belongs to the chunk's first line alone.
ChunkInv ==
  pc = "scan" =>
    /\ bytes > 0
    /\ \A k \in line_start .. bytes - 1 : readbuf[k] = input[consumed - bytes + k + 1]
    /\ readbuf[bytes] = NUL
    /\ line_start > 0 => tmp_line_buf = << >>

\* What has been tested holds no newline: everything in a chunk's first line, and
\* all but the first byte of its other lines.  The remainder and the lines
\* delivered hold a newline at most in front.
TestedInv ==
  /\ OneRequestPerLine
  /\ NoNewlineInside(tmp_line_buf)
  /\ pc = "scan" =>
       \A k \in line_start .. i - 1 : line_start = 0 \/ k > line_start => readbuf[k] # NL

Types  == InputType /\ BufferType /\ IndexType /\ PlaceType /\ LineType
IndInv == Types /\ RemainderInv /\ ChunkInv

-----------------------------------------------------------------------------
(* Facts about the operators *)

\* Nothing is the end of any stream.
LEMMA EndsEmpty ==
  ASSUME NEW stream, NEW e \in Nat
  PROVE  Ends(<< >>, stream, e)
  BY DEF Ends

\* Two neighbouring pieces of a stream are one piece of it.
LEMMA EndsConcat ==
  ASSUME NEW stream, NEW e \in Nat, NEW s \in Seq(Bytes), NEW t \in Seq(Bytes),
         Ends(s, stream, e - Len(t)), Ends(t, stream, e)
  PROVE  Ends(s \o t, stream, e) /\ s \o t \in Seq(Bytes) /\ Len(s \o t) = Len(s) + Len(t)
  <1> DEFINE st == s \o t
  <1>1. /\ st \in Seq(Bytes) /\ Len(st) = Len(s) + Len(t)
        /\ Len(s) \in Nat /\ Len(t) \in Nat
    OBVIOUS
  <1>2. ASSUME NEW k \in 1 .. Len(st) PROVE st[k] = stream[e - Len(st) + k]
    <2>1. CASE k <= Len(s)
      <3>1. st[k] = s[k] /\ k \in 1 .. Len(s)
        BY <2>1
      <3>2. s[k] = stream[e - Len(t) - Len(s) + k]
        BY <3>1 DEF Ends
      <3>3. e - Len(t) - Len(s) + k = e - Len(st) + k
        BY <1>1
      <3> QED
        BY <3>1, <3>2, <3>3
    <2>2. CASE k > Len(s)
      <3>1. st[k] = t[k - Len(s)]
        BY <2>2
      <3>2. k - Len(s) \in 1 .. Len(t)
        BY <1>1, <2>2
      <3>3. t[k - Len(s)] = stream[e - Len(t) + (k - Len(s))]
        BY <3>2 DEF Ends
      <3>4. e - Len(t) + (k - Len(s)) = e - Len(st) + k
        BY <1>1
      <3> QED
        BY <3>1, <3>3, <3>4
    <2> QED
      BY <1>1, <2>1, <2>2
  <1>3. Len(st) <= e
    BY <1>1 DEF Ends
  <1> QED
    BY <1>1, <1>2, <1>3 DEF Ends

\* What ends a stream is a subsequence of it.
LEMMA EndsSub ==
  ASSUME NEW stream \in Seq(Bytes), NEW e \in 0 .. Len(stream), NEW s \in Seq(Bytes),
         Ends(s, stream, e)
  PROVE  s = SubSeq(stream, e - Len(s) + 1, e)
  <1> DEFINE from == e - Len(s) + 1
             sub == SubSeq(stream, from, e)
  <1>1. Len(s) \in Nat /\ Len(stream) \in Nat /\ Len(s) <= e
    BY DEF Ends
  <1>2. from \in 1 .. e + 1 /\ e - from + 1 = Len(s)
    BY <1>1
  <1>3. /\ sub \in Seq(Bytes) /\ Len(sub) = Len(s)
        /\ \A k \in 1 .. Len(s) : sub[k] = stream[from + k - 1]
    <2>1. \A k \in from .. e : k \in 1 .. Len(stream)
      BY <1>1, <1>2
    <2> QED
      BY <1>1, <1>2, <2>1
  <1>4. ASSUME NEW k \in 1 .. Len(s) PROVE s[k] = sub[k]
    <2>1. from + k - 1 = e - Len(s) + k
      BY <1>1
    <2> QED
      BY <1>3, <2>1 DEF Ends
  <1> HIDE DEF sub
  <1>5. s = sub
    BY <1>3, <1>4, SeqEqual
  <1> QED
    BY <1>5 DEF sub

\* The same, reckoned from where the subsequence begins.
LEMMA EndsSubFrom ==
  ASSUME NEW stream \in Seq(Bytes), NEW d \in Nat, NEW s \in Seq(Bytes),
         d + Len(s) <= Len(stream), Ends(s, stream, d + Len(s))
  PROVE  s = SubSeq(stream, d + 1, d + Len(s))
  <1> DEFINE e == d + Len(s)
  <1>1. e \in 0 .. Len(stream) /\ e - Len(s) = d /\ Ends(s, stream, e)
    OBVIOUS
  <1> HIDE DEF e
  <1>2. s = SubSeq(stream, e - Len(s) + 1, e)
    BY <1>1, EndsSub
  <1>3. s = SubSeq(stream, d + 1, e)
    BY <1>1, <1>2
  <1> QED
    BY <1>3 DEF e

\* A part of a buffer that agrees with the stream ends it.
LEMMA SliceEnds ==
  ASSUME NEW stream \in Seq(Bytes), NEW buf, NEW from \in Nat, NEW to \in Nat, NEW e \in Nat,
         from <= to, to <= e, e <= Len(stream),
         \A k \in from .. to - 1 : buf[k] = stream[e - to + k + 1]
  PROVE  /\ Slice(buf, from, to) \in Seq(Bytes) /\ Len(Slice(buf, from, to)) = to - from
         /\ Ends(Slice(buf, from, to), stream, e)
  <1> DEFINE slice == [k \in 1 .. to - from |-> buf[from + k - 1]]
  <1>1. ASSUME NEW k \in 1 .. to - from
        PROVE  /\ buf[from + k - 1] \in Bytes
               /\ buf[from + k - 1] = stream[e - (to - from) + k]
    <2>1. from + k - 1 \in from .. to - 1 /\ e - to + (from + k - 1) + 1 \in 1 .. Len(stream)
      OBVIOUS
    <2>2. e - to + (from + k - 1) + 1 = e - (to - from) + k
      OBVIOUS
    <2>3. buf[from + k - 1] = stream[e - to + (from + k - 1) + 1]
      BY <2>1
    <2> QED
      BY <2>1, <2>2, <2>3
  <1>2. to - from \in Nat /\ to - from <= e
    OBVIOUS
  <1>3. slice \in Seq(Bytes) /\ Len(slice) = to - from
    BY <1>1, <1>2
  <1>4. \A k \in 1 .. to - from : slice[k] = stream[e - (to - from) + k]
    BY <1>1
  <1> HIDE DEF slice
  <1>5. Ends(slice, stream, e)
    BY <1>2, <1>3, <1>4 DEF Ends
  <1> QED
    BY <1>3, <1>5 DEF slice, Slice

\* The bytes of a stream are no terminators.
LEMMA BytesNotNul == NUL \notin Bytes
  BY ReaderAssumption DEF Bytes

-----------------------------------------------------------------------------
(* What is pending, and the line a newline ends *)

\* The numbers the indices are reckoned with.
LEMMA Numbers ==
  ASSUME Types
  PROVE  /\ consumed \in Nat /\ bytes \in Nat /\ Len(input) \in Nat /\ i \in Nat
         /\ line_start \in Nat /\ consumed - bytes \in Nat /\ Before \in Nat
         /\ bytes <= consumed /\ consumed <= Len(input) /\ line_start <= bytes
         /\ Before <= Len(input)
  <1>1. /\ consumed \in Nat /\ bytes \in Nat /\ Len(input) \in Nat /\ i \in Nat
        /\ line_start \in Nat /\ bytes <= consumed /\ consumed <= Len(input)
        /\ line_start <= bytes
    BY ReaderAssumption DEF Types, InputType, IndexType
  <1> QED
    BY <1>1 DEF Before

\* The remainder goes on where line_start points to: a chunk's later lines begin
\* in it, its first line in the chunks before.
LEMMA RemainderAtLineStart ==
  ASSUME IndInv, pc = "scan"
  PROVE  Ends(tmp_line_buf, input, consumed - bytes + line_start)
  <1>1. consumed - bytes + line_start \in Nat
    BY Numbers DEF IndInv
  <1>2. CASE line_start > 0
    BY <1>1, <1>2, EndsEmpty DEF IndInv, ChunkInv
  <1>3. CASE line_start = 0
    <2>1. consumed - bytes + line_start = Before
      BY <1>3, Numbers DEF IndInv, Before
    <2> QED
      BY <2>1 DEF IndInv, RemainderInv
  <1> QED
    BY <1>2, <1>3, Numbers DEF IndInv

\* A piece of the chunk, from line_start to a later index, continues the remainder.
LEMMA LineSoFar ==
  ASSUME IndInv, pc = "scan", NEW to \in Nat, line_start <= to, to <= bytes, NEW buf,
         \A k \in line_start .. to - 1 : buf[k] = readbuf[k]
  PROVE  LET slice == Slice(buf, line_start, to)
             line  == tmp_line_buf \o slice
         IN  /\ slice \in Seq(Bytes) /\ Len(slice) = to - line_start
             /\ line \in Seq(Bytes) /\ Len(line) = Len(tmp_line_buf) + (to - line_start)
             /\ Ends(line, input, consumed - bytes + to)
  <1> DEFINE slice == Slice(buf, line_start, to)
             e == consumed - bytes + to
  <1>1. /\ line_start \in Nat /\ e \in Nat /\ to <= e /\ e <= Len(input)
        /\ e - (to - line_start) = consumed - bytes + line_start
    BY Numbers DEF IndInv
  <1>2. ASSUME NEW k \in line_start .. to - 1 PROVE buf[k] = input[e - to + k + 1]
    <2>1. k \in line_start .. bytes - 1
      BY Numbers DEF IndInv
    <2>2. e - to + k + 1 = consumed - bytes + k + 1
      BY Numbers DEF IndInv
    <2>3. buf[k] = readbuf[k]
      OBVIOUS
    <2>4. readbuf[k] = input[consumed - bytes + k + 1]
      BY <2>1 DEF IndInv, ChunkInv
    <2> QED
      BY <2>2, <2>3, <2>4
  <1>3. Ends(tmp_line_buf, input, e - (to - line_start))
    BY <1>1, RemainderAtLineStart
  <1>4. input \in Seq(Bytes) /\ tmp_line_buf \in Seq(Bytes)
    BY DEF IndInv, Types, InputType, LineType
  <1> HIDE DEF e
  <1>5. slice \in Seq(Bytes) /\ Len(slice) = to - line_start /\ Ends(slice, input, e)
    BY <1>1, <1>2, <1>4, SliceEnds
  <1> HIDE DEF slice
  <1>6. /\ tmp_line_buf \o slice \in Seq(Bytes)
        /\ Len(tmp_line_buf \o slice) = Len(tmp_line_buf) + Len(slice)
        /\ Ends(tmp_line_buf \o slice, input, e)
    <2>1. Ends(tmp_line_buf, input, e - Len(slice))
      BY <1>3, <1>5
    <2>2. /\ e \in Nat /\ tmp_line_buf \in Seq(Bytes) /\ slice \in Seq(Bytes)
          /\ Ends(slice, input, e)
      BY <1>1, <1>4, <1>5
    <2> QED
      BY ONLY <2>1, <2>2, EndsConcat
  <1> QED
    BY <1>5, <1>6 DEF slice, e

\* What is pending is the end of what has been read.
LEMMA PendingEnds ==
  ASSUME IndInv
  PROVE  /\ Pending \in Seq(Bytes) /\ Ends(Pending, input, consumed)
         /\ Len(Pending) = Len(tmp_line_buf) + (IF pc = "scan" THEN bytes - line_start ELSE 0)
  <1>1. CASE pc = "scan"
    <2>1. consumed - bytes + bytes = consumed /\ bytes \in Nat /\ line_start <= bytes
      BY Numbers DEF IndInv
    <2>2. Pending = tmp_line_buf \o Slice(readbuf, line_start, bytes)
      BY <1>1 DEF Pending, Unscanned, Slice
    <2>3. /\ Pending \in Seq(Bytes)
          /\ Len(Pending) = Len(tmp_line_buf) + (bytes - line_start)
          /\ Ends(Pending, input, consumed - bytes + bytes)
      BY <1>1, <2>1, <2>2, LineSoFar
    <2> QED
      BY <1>1, <2>1, <2>3
  <1>2. CASE pc # "scan"
    <2>1. tmp_line_buf \in Seq(Bytes) /\ Len(tmp_line_buf) \in Nat
      BY DEF IndInv, Types, LineType
    <2>2. Pending = tmp_line_buf
      BY <1>2, <2>1 DEF Pending, Unscanned
    <2>3. Ends(tmp_line_buf, input, consumed)
      BY <1>2 DEF IndInv, RemainderInv, Before
    <2> QED
      BY <1>2, <2>1, <2>2, <2>3
  <1> QED
    BY <1>1, <1>2

\* The string that begins at line_start ends at the newline that was replaced:
\* there is no terminator before it.
LEMMA LineEnds ==
  ASSUME IndInv, ScanNewline
  PROVE  /\ i \in line_start .. bytes - 1
         /\ CString(readbuf', line_start) = Slice(readbuf', line_start, i)
         /\ \A k \in line_start .. i - 1 : readbuf'[k] = readbuf[k]
         /\ \A k \in i + 1 .. bytes : readbuf'[k] = readbuf[k]
  <1>1. i \in line_start .. bytes - 1 /\ i \in 0 .. bytes
    BY Numbers DEF IndInv, Types, IndexType, ScanNewline
  <1>2. /\ \A k \in 0 .. bytes : k # i => readbuf'[k] = readbuf[k]
        /\ readbuf'[i] = NUL
    BY <1>1 DEF IndInv, Types, BufferType, ScanNewline
  <1>3. /\ \A k \in line_start .. i - 1 :
             k \in 0 .. bytes /\ k # i /\ k \in line_start .. bytes - 1
        /\ \A k \in i + 1 .. bytes : k \in 0 .. bytes /\ k # i
    BY <1>1, Numbers DEF IndInv
  <1>4. \A k \in line_start .. i - 1 : readbuf'[k] # NUL
    <2> SUFFICES ASSUME NEW k \in line_start .. i - 1 PROVE readbuf'[k] # NUL
      OBVIOUS
    <2>1. readbuf'[k] = input[consumed - bytes + k + 1]
      BY <1>2, <1>3 DEF IndInv, ChunkInv, ScanNewline
    <2>2. consumed - bytes + k + 1 \in 1 .. Len(input)
      BY <1>1, <1>3, Numbers DEF IndInv
    <2>3. input[consumed - bytes + k + 1] \in Bytes
      BY <2>2 DEF IndInv, Types, InputType
    <2> QED
      BY <2>1, <2>3, BytesNotNul
  <1> DEFINE IsEnd(e) == readbuf'[e] = NUL /\ \A k \in line_start .. e - 1 : readbuf'[k] # NUL
             end == CHOOSE e \in line_start .. bytes : IsEnd(e)
  <1>5. i \in line_start .. bytes /\ IsEnd(i)
    BY <1>1, <1>2, <1>4, Numbers DEF IndInv
  <1>6. ASSUME NEW e \in line_start .. bytes, IsEnd(e) PROVE e = i
    <2>1. ~(e < i)
      <3> SUFFICES ASSUME e < i PROVE FALSE
        OBVIOUS
      <3>1. e \in line_start .. i - 1
        BY <1>5, Numbers DEF IndInv
      <3> QED
        BY <1>4, <1>6, <3>1
    <2>2. ~(i < e)
      <3> SUFFICES ASSUME i < e PROVE FALSE
        OBVIOUS
      <3>1. i \in line_start .. e - 1
        BY <1>5, Numbers DEF IndInv
      <3> QED
        BY <1>2, <1>6, <3>1
    <2> QED
      BY <1>5, <2>1, <2>2, Numbers DEF IndInv
  <1> HIDE DEF IsEnd
  <1>7. end = i
    BY <1>5, <1>6
  <1>8. CString(readbuf', line_start) = Slice(readbuf', line_start, end)
    BY DEF CString, Slice, end, IsEnd
  <1> HIDE DEF end
  <1> QED
    BY <1>1, <1>2, <1>3, <1>7, <1>8

\* The line that is put into the queue is the end of what has been scanned.
LEMMA NewLine ==
  ASSUME IndInv, ScanNewline
  PROVE  LET line == tmp_line_buf \o CString(readbuf', line_start)
         IN  /\ line \in Seq(Bytes)
             /\ Len(line) = Len(tmp_line_buf) + (i - line_start)
             /\ Ends(line, input, consumed - bytes + i)
  <1>1. pc = "scan" /\ i \in Nat /\ line_start <= i /\ i <= bytes
    BY LineEnds, Numbers DEF IndInv, ScanNewline
  <1> QED
    BY <1>1, LineEnds, LineSoFar

-----------------------------------------------------------------------------
(* One lemma per step of the callback *)

\* A chunk is read behind the remainder.
LEMMA ReadChunkKeeps ==
  ASSUME IndInv, ReadChunk
  PROVE  IndInv'
  <1>1. PICK n \in 1 .. ChunkSize :
          /\ consumed + n <= Len(input)
          /\ bytes' = n
          /\ readbuf' = [k \in 0 .. n |-> IF k = n THEN NUL ELSE input[consumed + k + 1]]
          /\ consumed' = consumed + n
    BY DEF ReadChunk
  <1>2. /\ pc = "read" /\ pc' = "scan" /\ i' = 0 /\ line_start' = 0
        /\ UNCHANGED <<input, tmp_line_buf, job_queue>>
    BY DEF ReadChunk
  <1>3. n \in Nat /\ n > 0 /\ n <= ChunkSize /\ ChunkSize \in Nat
    BY ReaderAssumption
  <1>4. InputType' /\ IndexType'
    BY <1>1, <1>2, <1>3, Numbers DEF IndInv, Types, InputType, IndexType
  <1>5. \A k \in 0 .. n - 1 : /\ readbuf'[k] = input[consumed + k + 1]
                              /\ consumed + k + 1 \in 1 .. Len(input)
    BY <1>1, <1>3, Numbers DEF IndInv
  <1>6. readbuf'[n] = NUL
    BY <1>1, <1>3
  <1>7. BufferType'
    <2>1. \A k \in 0 .. n : k = n \/ k \in 0 .. n - 1
      BY <1>3
    <2>2. \A k \in 0 .. n : readbuf'[k] \in Bytes \cup {NUL}
      BY <1>5, <1>6, <2>1 DEF IndInv, Types, InputType
    <2> QED
      BY <1>1, <2>2 DEF BufferType
  <1>8. consumed' - bytes' = consumed
    BY <1>1, <1>3, Numbers DEF IndInv
  <1>9. RemainderInv'
    <2>1. Before' = Before
      BY <1>2, <1>8 DEF Before
    <2> QED
      BY <1>2, <2>1 DEF IndInv, RemainderInv, Ends
  <1>10. ChunkInv'
    BY <1>1, <1>2, <1>3, <1>5, <1>6, <1>8 DEF ChunkInv
  <1>11. LineType' /\ PlaceType'
    BY <1>2 DEF IndInv, Types, LineType, PlaceType
  <1> QED
    BY <1>4, <1>7, <1>9, <1>10, <1>11 DEF IndInv, Types

\* The end of the stream changes nothing.
LEMMA ReadEofKeeps ==
  ASSUME IndInv, ReadEof
  PROVE  IndInv'
  <1>1. /\ pc = "read" /\ pc' = "stopped"
        /\ UNCHANGED <<input, consumed, readbuf, bytes, i, line_start, tmp_line_buf, job_queue>>
    BY DEF ReadEof
  <1>2. Types'
    BY <1>1 DEF IndInv, Types, InputType, BufferType, IndexType, PlaceType, LineType
  <1>3. RemainderInv' /\ ChunkInv'
    BY <1>1 DEF IndInv, RemainderInv, Ends, Before, ChunkInv
  <1> QED
    BY <1>2, <1>3 DEF IndInv

\* An ordinary byte is passed.
LEMMA ScanByteKeeps ==
  ASSUME IndInv, ScanByte
  PROVE  IndInv'
  <1>1. /\ i < bytes /\ i' = i + 1
        /\ UNCHANGED <<input, consumed, readbuf, bytes, line_start, tmp_line_buf, job_queue, pc>>
    BY DEF ScanByte
  <1>2. IndexType'
    BY <1>1, Numbers DEF IndInv, Types, IndexType
  <1>3. InputType' /\ BufferType' /\ PlaceType' /\ LineType'
    BY <1>1 DEF IndInv, Types, InputType, BufferType, PlaceType, LineType
  <1>4. RemainderInv' /\ ChunkInv'
    BY <1>1 DEF IndInv, RemainderInv, Ends, Before, ChunkInv
  <1> QED
    BY <1>2, <1>3, <1>4 DEF IndInv, Types

\* A newline ends a line: the next one begins behind it, without a remainder.
LEMMA ScanNewlineKeeps ==
  ASSUME IndInv, ScanNewline
  PROVE  IndInv'
  <1> DEFINE line == tmp_line_buf \o CString(readbuf', line_start)
  <1>1. /\ pc = "scan" /\ pc' = "scan" /\ readbuf' = [readbuf EXCEPT ![i] = NUL]
        /\ job_queue' = Append(job_queue, line) /\ tmp_line_buf' = << >>
        /\ line_start' = i + 1 /\ i' = i + 2 /\ UNCHANGED <<input, consumed, bytes>>
    BY DEF ScanNewline
  <1>2. line \in Seq(Bytes)
    BY NewLine
  <1> HIDE DEF line
  <1>3. i \in line_start .. bytes - 1 /\ \A k \in i + 1 .. bytes : readbuf'[k] = readbuf[k]
    BY LineEnds
  <1>4. IndexType'
    BY <1>1, <1>3, Numbers DEF IndInv, Types, IndexType
  <1>5. InputType' /\ PlaceType'
    BY <1>1 DEF IndInv, Types, InputType, PlaceType
  <1>6. BufferType'
    BY <1>1 DEF IndInv, Types, BufferType
  <1>7. LineType'
    BY <1>1, <1>2 DEF IndInv, Types, LineType
  <1>8. RemainderInv'
    <2>1. Before' = Before /\ Before \in Nat
      BY <1>1, Numbers DEF IndInv, Before
    <2> QED
      BY <1>1, <2>1, EndsEmpty DEF RemainderInv
  <1>9. ChunkInv'
    <2>1. /\ \A k \in i + 1 .. bytes - 1 : k \in i + 1 .. bytes /\ k \in line_start .. bytes - 1
          /\ bytes \in i + 1 .. bytes
      BY <1>3, Numbers DEF IndInv
    <2> QED
      BY <1>1, <1>3, <2>1 DEF IndInv, ChunkInv
  <1> QED
    BY <1>4, <1>5, <1>6, <1>7, <1>8, <1>9 DEF IndInv, Types

\* The rest of the chunk is the new remainder.
LEMMA EndChunkKeeps ==
  ASSUME IndInv, EndChunk
  PROVE  /\ IndInv'
         /\ tmp_line_buf' = Pending
  <1>1. /\ pc = "scan" /\ pc' = "read"
        /\ UNCHANGED <<input, consumed, readbuf, bytes, i, line_start, job_queue>>
    BY DEF EndChunk
  <1>2. ASSUME readbuf[line_start] # NUL PROVE tmp_line_buf' = Pending
    <2>1. tmp_line_buf' = tmp_line_buf \o Slice(readbuf, line_start, bytes)
      BY <1>2 DEF EndChunk, Slice
    <2>2. Unscanned = Slice(readbuf, line_start, bytes)
      BY <1>1 DEF Unscanned, Slice
    <2> QED
      BY <2>1, <2>2 DEF Pending
  <1>3. ASSUME readbuf[line_start] = NUL PROVE tmp_line_buf' = Pending
    <2>1. ~(line_start < bytes)
      <3> SUFFICES ASSUME line_start < bytes PROVE FALSE
        OBVIOUS
      <3>1. line_start \in line_start .. bytes - 1
            /\ consumed - bytes + line_start + 1 \in 1 .. Len(input)
        BY Numbers DEF IndInv
      <3>2. input[consumed - bytes + line_start + 1] \in Bytes
        BY <3>1 DEF IndInv, Types, InputType
      <3>3. readbuf[line_start] = input[consumed - bytes + line_start + 1]
        BY <1>1, <3>1 DEF IndInv, ChunkInv
      <3> QED
        BY <1>3, <3>2, <3>3, BytesNotNul
    <2>2. line_start = bytes /\ line_start > 0 /\ bytes - line_start = 0
      BY <1>1, <2>1, Numbers DEF IndInv, ChunkInv
    <2>3. tmp_line_buf = << >>
      BY <1>1, <2>2 DEF IndInv, ChunkInv
    <2>4. Pending \in Seq(Bytes) /\ Len(Pending) = 0
      BY <1>1, <2>2, <2>3, PendingEnds
    <2>5. Pending = << >>
      BY <2>4
    <2>6. tmp_line_buf' = << >>
      BY <1>3, Zenon DEF EndChunk
    <2> QED
      BY <2>5, <2>6
  <1>4. tmp_line_buf' = Pending
    BY <1>2, <1>3
  <1>5. Types'
    BY <1>1, <1>4, PendingEnds
    DEF IndInv, Types, InputType, BufferType, IndexType, PlaceType, LineType
  <1>6. RemainderInv'
    <2>1. Before' = consumed
      BY <1>1 DEF Before
    <2> QED
      BY <1>1, <1>4, <2>1, PendingEnds DEF RemainderInv
  <1>7. ChunkInv'
    BY <1>1 DEF ChunkInv
  <1> QED
    BY <1>4, <1>5, <1>6, <1>7 DEF IndInv

-----------------------------------------------------------------------------
(* The theorems *)

\* The invariant holds initially and every step keeps it.
LEMMA Inductive == Spec => []IndInv
  <1>1. Init => IndInv
    <2> SUFFICES ASSUME Init PROVE IndInv
      OBVIOUS
    <2>1. /\ consumed = 0 /\ bytes = 0 /\ i = 0 /\ line_start = 0 /\ pc = "read"
          /\ tmp_line_buf = << >> /\ job_queue = << >>
          /\ readbuf = [k \in {0} |-> NUL]
      BY DEF Init
    <2>2. input \in Seq(Bytes) /\ Len(input) \in Nat
      <3>1. PICK n \in 0 .. MaxInput : input \in [1 .. n -> Bytes]
        BY DEF Init
      <3>2. n \in Nat
        BY ReaderAssumption
      <3> QED
        BY <3>1, <3>2
    <2>3. InputType /\ IndexType /\ PlaceType
      BY <2>1, <2>2, ReaderAssumption DEF InputType, IndexType, PlaceType
    <2>4. BufferType
      <3>1. 0 .. 0 = {0}
        OBVIOUS
      <3> QED
        BY <2>1, <3>1 DEF BufferType
    <2>5. LineType
      BY <2>1 DEF LineType
    <2>6. Before \in Nat
      BY <2>1 DEF Before
    <2>7. RemainderInv /\ ChunkInv
      BY <2>1, <2>6, EndsEmpty DEF RemainderInv, ChunkInv
    <2> QED
      BY <2>3, <2>4, <2>5, <2>7 DEF IndInv, Types
  <1>2. IndInv /\ [Next]_vars => IndInv'
    <2> SUFFICES ASSUME IndInv, [Next]_vars PROVE IndInv'
      OBVIOUS
    <2>1. CASE Stopped \/ UNCHANGED vars
      BY <2>1 DEF Stopped, vars, IndInv, Types, InputType, BufferType, IndexType, PlaceType,
                  LineType, RemainderInv, Ends, Before, ChunkInv
    <2> QED
      BY <2>1, ReadChunkKeeps, ReadEofKeeps, ScanByteKeeps, ScanNewlineKeeps, EndChunkKeeps
         DEF Next
  <1> QED
    BY <1>1, <1>2, PTL DEF Spec

\* The line so far holds a newline at most in front, if all of it has been tested.
LEMMA LineSoFarTested ==
  ASSUME IndInv, TestedInv, pc = "scan", NEW to \in Nat, line_start <= to, to <= bytes, to <= i,
         NEW buf, \A k \in line_start .. to - 1 : buf[k] = readbuf[k]
  PROVE  NoNewlineInside(tmp_line_buf \o Slice(buf, line_start, to))
  <1> DEFINE slice == Slice(buf, line_start, to)
             r == Len(tmp_line_buf)
  <1>1. line_start \in Nat /\ i \in Nat /\ tmp_line_buf \in Seq(Bytes) /\ r \in Nat
    BY Numbers DEF IndInv, Types, LineType
  <1>2. /\ tmp_line_buf \o slice \in Seq(Bytes)
        /\ Len(tmp_line_buf \o slice) = r + (to - line_start)
    BY LineSoFar
  <1>3. slice \in Seq(Bytes) /\ Len(slice) = to - line_start
    BY LineSoFar
  <1>4. ASSUME NEW k \in 1 .. to - line_start, line_start = 0 \/ k > 1 PROVE slice[k] # NL
    <2>1. slice[k] = buf[line_start + k - 1]
      BY DEF Slice
    <2>2. /\ line_start + k - 1 \in line_start .. to - 1
          /\ line_start + k - 1 \in line_start .. i - 1
          /\ line_start = 0 \/ line_start + k - 1 > line_start
      BY <1>1, <1>4
    <2>3. readbuf[line_start + k - 1] # NL
      BY <2>2 DEF TestedInv
    <2> QED
      BY <2>1, <2>2, <2>3
  <1> HIDE DEF slice, r
  <1>5. ASSUME NEW k \in 2 .. r + (to - line_start) PROVE (tmp_line_buf \o slice)[k] # NL
    <2>1. CASE k <= r
      <3>1. (tmp_line_buf \o slice)[k] = tmp_line_buf[k] /\ k \in 2 .. Len(tmp_line_buf)
        BY <1>1, <1>3, <2>1 DEF r
      <3> QED
        BY <3>1 DEF TestedInv, NoNewlineInside
    <2>2. CASE k > r
      <3>1. k - r \in 1 .. to - line_start /\ (k - r > 1 \/ r > 0)
        BY <1>1, <2>2
      <3>2. (tmp_line_buf \o slice)[k] = slice[k - r]
        BY <1>1, <1>3, <2>2 DEF r
      <3>3. r > 0 => line_start = 0
        BY <1>1 DEF IndInv, ChunkInv, r
      <3> QED
        BY <1>4, <3>1, <3>2, <3>3
    <2>3. k <= r \/ k > r
      BY <1>1
    <2> QED
      BY <2>1, <2>2, <2>3
  <1> QED
    BY <1>2, <1>5 DEF NoNewlineInside, slice

\* Every step keeps what is known of the bytes that have been tested.
LEMMA TestedInvKept ==
  ASSUME IndInv, TestedInv, [Next]_vars
  PROVE  TestedInv'
  <1>1. CASE ReadChunk
    BY <1>1 DEF ReadChunk, TestedInv, OneRequestPerLine, NoNewlineInside
  <1>2. CASE ReadEof \/ Stopped \/ UNCHANGED vars
    BY <1>2 DEF ReadEof, Stopped, vars, TestedInv, OneRequestPerLine, NoNewlineInside
  <1>3. CASE ScanByte
    <2>1. /\ pc = "scan" /\ readbuf[i] # NL /\ i' = i + 1
          /\ UNCHANGED <<readbuf, line_start, tmp_line_buf, job_queue, pc>>
      BY <1>3 DEF ScanByte
    <2>2. OneRequestPerLine' /\ NoNewlineInside(tmp_line_buf')
      BY <2>1 DEF TestedInv, OneRequestPerLine, NoNewlineInside
    <2>3. \A k \in line_start .. i - 1 : line_start = 0 \/ k > line_start => readbuf[k] # NL
      BY <2>1 DEF TestedInv
    <2>4. \A k \in line_start' .. i' - 1 : line_start' = 0 \/ k > line_start' => readbuf'[k] # NL
      <3> SUFFICES ASSUME NEW k \in line_start' .. i' - 1, line_start' = 0 \/ k > line_start'
                   PROVE  readbuf'[k] # NL
        OBVIOUS
      <3>1. line_start' = line_start /\ i' = i + 1 /\ readbuf' = readbuf /\ readbuf[i] # NL
        BY <2>1
      <3>2. k = i \/ k \in line_start .. i - 1
        BY <3>1, Numbers DEF IndInv
      <3> QED
        BY <2>3, <3>1, <3>2
    <2> QED
      BY <2>2, <2>4 DEF TestedInv, NoNewlineInside
  <1>4. CASE ScanNewline
    <2> DEFINE line == tmp_line_buf \o CString(readbuf', line_start)
    <2>1. /\ pc = "scan" /\ job_queue' = Append(job_queue, line) /\ tmp_line_buf' = << >>
          /\ line_start' = i + 1 /\ i' = i + 2
      BY <1>4 DEF ScanNewline
    <2>2. line \in Seq(Bytes)
      BY <1>4, NewLine
    <2>3. NoNewlineInside(line)
      <3>1. /\ line_start <= i /\ i <= bytes /\ i \in Nat
            /\ \A k \in line_start .. i - 1 : readbuf'[k] = readbuf[k]
            /\ line = tmp_line_buf \o Slice(readbuf', line_start, i)
        BY <1>4, LineEnds, Numbers DEF IndInv
      <3> QED
        BY <2>1, <3>1, LineSoFarTested
    <2> HIDE DEF line
    <2>4. OneRequestPerLine'
      <3>1. job_queue \in Seq(Seq(Bytes))
        BY DEF IndInv, Types, LineType
      <3>2. \A n \in DOMAIN job_queue' :
              job_queue'[n] = line \/ (n \in DOMAIN job_queue /\ job_queue'[n] = job_queue[n])
        <4> DEFINE q == Append(job_queue, line)
        <4>1. /\ DOMAIN q = 1 .. Len(job_queue) + 1 /\ DOMAIN job_queue = 1 .. Len(job_queue)
              /\ Len(job_queue) \in Nat
          BY <2>2, <3>1
        <4>2. /\ q[Len(job_queue) + 1] = line
              /\ \A n \in 1 .. Len(job_queue) : q[n] = job_queue[n]
          BY <2>2, <3>1
        <4> HIDE DEF q
        <4>3. \A n \in DOMAIN q : n = Len(job_queue) + 1 \/ n \in 1 .. Len(job_queue)
          BY <4>1
        <4>4. job_queue' = q
          BY <2>1 DEF q
        <4>5. \A n \in DOMAIN q : q[n] = line \/ (n \in DOMAIN job_queue /\ q[n] = job_queue[n])
          BY <4>1, <4>2, <4>3
        <4> QED
          BY <4>4, <4>5
      <3> QED
        BY <2>3, <3>2 DEF TestedInv, OneRequestPerLine, NoNewlineInside
    <2>5. NoNewlineInside(tmp_line_buf')
      BY <2>1 DEF NoNewlineInside
    <2>6. \A k \in line_start' .. i' - 1 : ~(line_start' = 0 \/ k > line_start')
      BY <2>1, Numbers DEF IndInv
    <2> QED
      BY <2>4, <2>5, <2>6 DEF TestedInv, NoNewlineInside
  <1>5. CASE EndChunk
    <2>1. /\ pc = "scan" /\ pc' = "read" /\ i >= bytes /\ job_queue' = job_queue
          /\ tmp_line_buf' = Pending
      BY <1>5, EndChunkKeeps DEF EndChunk
    <2>2. Pending = tmp_line_buf \o Slice(readbuf, line_start, bytes)
      BY <2>1 DEF Pending, Unscanned, Slice
    <2>3. bytes \in Nat /\ bytes <= i /\ line_start <= bytes
      BY <2>1, Numbers DEF IndInv
    <2>4. NoNewlineInside(Pending)
      BY <2>1, <2>2, <2>3, LineSoFarTested
    <2> QED
      BY <2>1, <2>4 DEF TestedInv, OneRequestPerLine, NoNewlineInside
  <1> QED
    BY <1>1, <1>2, <1>3, <1>4, <1>5 DEF Next

\* What has been tested holds no newline inside, in every state.
LEMMA Tested == Spec => []TestedInv
  <1>1. Init => TestedInv
    BY DEF Init, TestedInv, OneRequestPerLine, NoNewlineInside
  <1>2. IndInv /\ TestedInv /\ [Next]_vars => TestedInv'
    BY TestedInvKept
  <1> QED
    BY <1>1, <1>2, Inductive, PTL DEF Spec

\* The variables keep their types: no index leaves the buffer, line_start not
\* even when a newline is the last byte of a chunk (main.c:74-110), and neither a
\* line nor a remainder holds a terminator.
THEOREM TypeCorrect == Spec => []TypeOK
  <1>1. IndInv => TypeOK
    BY DEF IndInv, Types, InputType, BufferType, IndexType, PlaceType, LineType, TypeOK
  <1> QED
    BY <1>1, Inductive, PTL

\* Whatever the sizes of the reads, what is pending is the end of what has been
\* read (main.c:83-93, 110-118).
THEOREM NoByteLost == Spec => []PendingIsInput
  <1>1. IndInv => PendingIsInput
    <2> SUFFICES ASSUME IndInv PROVE PendingIsInput
      OBVIOUS
    <2>1. input \in Seq(Bytes) /\ consumed \in 0 .. Len(input)
      BY DEF IndInv, Types, InputType
    <2>2. Pending = SubSeq(input, consumed - Len(Pending) + 1, consumed)
      BY <2>1, PendingEnds, EndsSub
    <2> QED
      BY <2>2 DEF PendingIsInput, Delivered
  <1> QED
    BY <1>1, Inductive, PTL

\* No line holds two requests, however the stream was cut into reads: a newline
\* is in a line at most as its first byte (main.c:74-77, 104).
THEOREM RequestsAreApart == Spec => []OneRequestPerLine
  <1>1. TestedInv => OneRequestPerLine
    BY DEF TestedInv
  <1> QED
    BY <1>1, Tested, PTL

\* How many bytes have gone into lines, reckoned from the indices.
LineFrom == consumed - (Len(tmp_line_buf) + (IF pc = "scan" THEN bytes - line_start ELSE 0))

\* The bytes that are not pending have been delivered.
LEMMA DeliveredAt == IndInv => Delivered = LineFrom
  BY PendingEnds DEF Delivered, LineFrom

\* The line a newline delivers is the next part of the stream, and the newline is
\* delivered with it.
LEMMA NewlineDelivers ==
  ASSUME IndInv, ScanNewline, Delivered' = LineFrom'
  PROVE  LET line == tmp_line_buf \o CString(readbuf', line_start)
         IN  /\ line \in Seq(Bytes) /\ Len(line) \in Nat
             /\ job_queue' = Append(job_queue, line) /\ UNCHANGED input
             /\ Delivered \in Nat /\ Delivered + Len(line) + 1 \in 1 .. Len(input)
             /\ line = SubSeq(input, Delivered + 1, Delivered + Len(line))
             /\ input[Delivered + Len(line) + 1] = NL
             /\ Delivered' = Delivered + Len(line) + 1
  <1> DEFINE line == tmp_line_buf \o CString(readbuf', line_start)
             base == consumed - bytes
  <1>0. tmp_line_buf \in Seq(Bytes) /\ Len(tmp_line_buf) \in Nat
    BY DEF IndInv, Types, LineType
  <1>1. /\ pc = "scan" /\ pc' = "scan" /\ readbuf[i] = NL
        /\ job_queue' = Append(job_queue, line) /\ tmp_line_buf' = << >>
        /\ line_start' = i + 1 /\ UNCHANGED <<input, consumed, bytes>>
    BY DEF ScanNewline
  <1>2. /\ line \in Seq(Bytes) /\ Len(line) = Len(tmp_line_buf) + (i - line_start)
        /\ Ends(line, input, base + i)
    BY NewLine
  <1>3. i \in line_start .. bytes - 1
    BY LineEnds
  <1>4. /\ base \in Nat /\ i \in Nat /\ base + i \in 0 .. Len(input) /\ line_start \in Nat
        /\ bytes \in Nat /\ consumed \in Nat
    BY <1>3, Numbers DEF IndInv
  <1>5. input[base + i + 1] = NL
    BY <1>1, <1>3 DEF IndInv, ChunkInv
  <1> HIDE DEF line
  <1>6. Delivered = base + i - Len(line)
    <2>1. Delivered = consumed - (Len(tmp_line_buf) + (bytes - line_start))
      BY DeliveredAt, <1>1 DEF LineFrom
    <2> QED
      BY <1>0, <1>2, <1>4, <2>1
  <1>7. Delivered' = base + i + 1
    <2>1. Delivered' = consumed - (0 + (bytes - (i + 1)))
      BY <1>1 DEF LineFrom
    <2> QED
      BY <1>4, <2>1
  <1>8. Delivered + Len(line) = base + i /\ Len(line) \in Nat
    BY <1>2, <1>4, <1>6
  <1>9. line = SubSeq(input, Delivered + 1, Delivered + Len(line))
    <2>1. /\ input \in Seq(Bytes) /\ line \in Seq(Bytes) /\ Delivered \in Nat
          /\ Delivered + Len(line) <= Len(input)
      BY <1>2, <1>4, <1>6, <1>8 DEF IndInv, Types, InputType, Ends
    <2>2. Ends(line, input, Delivered + Len(line))
      BY <1>2, <1>8
    <2> QED
      BY <2>1, <2>2, EndsSubFrom
  <1>10. Delivered \in Nat /\ base + i + 1 \in 1 .. Len(input)
    BY <1>2, <1>3, <1>4, <1>6, Numbers DEF IndInv, Ends
  <1> HIDE DEF base
  <1>11. Delivered + Len(line) + 1 = base + i + 1
    BY <1>8
  <1> QED
    BY <1>1, <1>2, <1>5, <1>7, <1>8, <1>9, <1>10, <1>11 DEF line

\* Every step delivers the next line of the stream or nothing.
LEMMA StepDelivers ==
  ASSUME IndInv, Next, Delivered' = LineFrom'
  PROVE  NextLineOnly \/ UNCHANGED vars
  <1>1. /\ job_queue \in Seq(Seq(Bytes)) /\ Len(job_queue) \in Nat
        /\ tmp_line_buf \in Seq(Bytes) /\ Len(tmp_line_buf) \in Nat
    BY DEF IndInv, Types, LineType
  <1>2. Delivered = LineFrom
    BY DeliveredAt
  <1>3. ASSUME job_queue' = job_queue, LineFrom' = LineFrom PROVE NextLineOnly
    <2>1. SubSeq(job_queue', 1, Len(job_queue)) = job_queue
      BY <1>1, <1>3
    <2>2. NewLines = << >>
      BY <1>1, <1>3 DEF NewLines
    <2> QED
      BY <1>2, <1>3, <2>1, <2>2 DEF NextLineOnly
  <1>4. CASE ReadChunk
    <2>1. PICK n \in 1 .. ChunkSize : bytes' = n /\ consumed' = consumed + n
      BY <1>4 DEF ReadChunk
    <2>2. /\ pc = "read" /\ pc' = "scan" /\ line_start' = 0
          /\ UNCHANGED <<tmp_line_buf, job_queue>>
      BY <1>4 DEF ReadChunk
    <2>3. n \in Nat
      OBVIOUS
    <2>4. LineFrom = consumed - Len(tmp_line_buf)
          /\ LineFrom' = consumed + n - (Len(tmp_line_buf) + (n - 0))
      BY <1>1, <2>1, <2>2, Numbers DEF LineFrom, IndInv
    <2>5. LineFrom' = LineFrom
      BY <1>1, <2>3, <2>4, Numbers DEF IndInv
    <2> QED
      BY <1>3, <2>2, <2>5
  <1>5. CASE ReadEof
    BY <1>3, <1>5 DEF ReadEof, LineFrom
  <1>6. CASE ScanByte
    BY <1>3, <1>6 DEF ScanByte, LineFrom
  <1>7. CASE EndChunk
    <2>1. /\ pc = "scan" /\ pc' = "read" /\ UNCHANGED <<consumed, job_queue>>
          /\ tmp_line_buf' = Pending
      BY <1>7, EndChunkKeeps DEF EndChunk
    <2>2. Len(Pending) = Len(tmp_line_buf) + (bytes - line_start) /\ Len(Pending) \in Nat
      BY <2>1, PendingEnds
    <2>3. LineFrom' = LineFrom
      BY <2>1, <2>2 DEF LineFrom
    <2> QED
      BY <1>3, <2>1, <2>3
  <1>8. CASE ScanNewline
    <2> DEFINE line == tmp_line_buf \o CString(readbuf', line_start)
    <2>1. /\ line \in Seq(Bytes) /\ job_queue' = Append(job_queue, line)
          /\ line = SubSeq(input, Delivered + 1, Delivered + Len(line))
          /\ input[Delivered + Len(line) + 1] = NL
          /\ Delivered' = Delivered + Len(line) + 1
      BY <1>8, NewlineDelivers
    <2> HIDE DEF line
    <2>2. SubSeq(job_queue', 1, Len(job_queue)) = job_queue
      BY <1>1, <2>1
    <2>3. Len(NewLines) = 1 /\ Head(NewLines) = line
      <3>1. NewLines = << line >>
        <4> DEFINE q == Append(job_queue, line)
                   c == Len(job_queue)
        <4>1. q \in Seq(Seq(Bytes)) /\ Len(q) = c + 1 /\ q[c + 1] = line
          BY <1>1, <2>1
        <4> HIDE DEF q
        <4>2. SubSeq(q, c + 1, c + 1) = << q[c + 1] >>
          <5> DEFINE one == SubSeq(q, c + 1, c + 1)
          <5>1. one \in Seq(Seq(Bytes)) /\ Len(one) = 1 /\ one[1] = q[c + 1]
            BY <1>1, <4>1
          <5> HIDE DEF one
          <5>2. << q[c + 1] >> \in Seq(Seq(Bytes)) /\ Len(<< q[c + 1] >>) = 1
            BY <2>1, <4>1
          <5>3. one = << q[c + 1] >>
            BY <5>1, <5>2, SeqEqual
          <5> QED
            BY <5>3 DEF one
        <4> QED
          BY <2>1, <4>1, <4>2 DEF NewLines, q
      <3> QED
        BY <3>1
    <2> QED
      BY <2>1, <2>2, <2>3 DEF NextLineOnly
  <1>9. CASE Stopped
    BY <1>9 DEF Stopped
  <1> QED
    BY <1>4, <1>5, <1>6, <1>7, <1>8, <1>9 DEF Next

\* Lines are delivered in the order of the stream, each the next bytes of the
\* input up to a newline, and no other step gives bytes away (main.c:77-106).
THEOREM LinesInOrder == Spec => DeliversNextLine
  <1>1. (IndInv => Delivered = LineFrom)'
    BY DeliveredAt, PTL
  <1>2. IndInv /\ IndInv' /\ [Next]_vars => [NextLineOnly]_vars
    BY <1>1, StepDelivers
  <1> QED
    BY <1>2, Inductive, PTL DEF Spec, DeliversNextLine

\* A line that is put behind the lines cut so far is one more cut.
LEMMA CutAppend ==
  ASSUME NEW lines \in Seq(Seq(Bytes)), NEW line \in Seq(Bytes), NEW stream, NEW d \in Nat,
         NEW e \in Newlines(stream), NEW cut \in [1 .. Len(lines) -> Newlines(stream)],
         IsCut(cut, lines, stream, d), line = SubSeq(stream, d + 1, e - 1), d < e
  PROVE  \E c \in [1 .. Len(Append(lines, line)) -> Newlines(stream)] :
           IsCut(c, Append(lines, line), stream, e)
  <1> DEFINE q == Append(lines, line)
             m == Len(lines)
             c == [n \in 1 .. m + 1 |-> IF n = m + 1 THEN e ELSE cut[n]]
  <1>1. /\ m \in Nat /\ Len(q) = m + 1 /\ q # << >>
        /\ q[m + 1] = line /\ \A n \in 1 .. m : q[n] = lines[n]
    <2>1. q \in Seq(Seq(Bytes)) /\ m \in Nat /\ Len(q) = m + 1
      OBVIOUS
    <2>2. q[m + 1] = line
      BY AppendProperties
    <2>3. \A n \in 1 .. m : q[n] = lines[n]
      OBVIOUS
    <2>4. q # << >>
      BY AppendProperties
    <2> QED
      BY <2>1, <2>2, <2>3, <2>4
  <1>2. c \in [1 .. m + 1 -> Newlines(stream)]
    BY <1>1
  <1>3. c[m + 1] = e /\ \A n \in 1 .. m : c[n] = cut[n]
    BY <1>1
  <1> HIDE DEF q, c
  <1>4. ASSUME NEW n \in 1 .. m + 1
        PROVE  LET from == IF n = 1 THEN 1 ELSE c[n - 1] + 1
               IN  from <= c[n] /\ q[n] = SubSeq(stream, from, c[n] - 1)
    <2>1. CASE n \in 1 .. m
      <3>1. n - 1 \in 1 .. m \/ n = 1
        BY <1>1, <2>1
      <3>2. c[n] = cut[n] /\ q[n] = lines[n] /\ (n # 1 => c[n - 1] = cut[n - 1])
        BY <1>1, <1>3, <2>1, <3>1
      <3> QED
        BY <2>1, <3>2 DEF IsCut
    <2>2. CASE n = m + 1
      <3>1. (IF n = 1 THEN 1 ELSE c[n - 1] + 1) = d + 1
        <4>1. CASE m = 0
          <5>1. lines = << >> /\ d = 0 /\ n = 1
            BY <2>2, <4>1 DEF IsCut
          <5> QED
            BY <5>1
        <4>2. CASE m # 0
          <5>1. lines # << >> /\ n # 1 /\ n - 1 = m /\ m \in 1 .. m
            BY <1>1, <2>2, <4>2
          <5>2. d = cut[m] /\ c[m] = cut[m]
            BY <1>3, <5>1 DEF IsCut
          <5> QED
            BY <5>1, <5>2
        <4> QED
          BY <4>1, <4>2
      <3>2. e \in Nat /\ d + 1 <= e
        BY DEF Newlines
      <3> QED
        BY <1>1, <1>3, <2>2, <3>1, <3>2
    <2>3. n \in 1 .. m \/ n = m + 1
      BY <1>1
    <2> QED
      BY <2>1, <2>2, <2>3
  <1>5. IsCut(c, q, stream, e)
    BY <1>1, <1>3, <1>4 DEF IsCut
  <1> QED
    BY <1>1, <1>2, <1>5 DEF q

\* The lines that were delivered have been cut out of the stream one behind the
\* other.
CutInv == \E cut \in [1 .. Len(job_queue) -> Newlines(input)] :
            IsCut(cut, job_queue, input, Delivered)

\* Every step delivers the next line or none.
LEMMA CutInvKept ==
  ASSUME IndInv, CutInv, [Next]_vars, Delivered' = LineFrom'
  PROVE  CutInv'
  <1>1. PICK cut \in [1 .. Len(job_queue) -> Newlines(input)] :
          IsCut(cut, job_queue, input, Delivered)
    BY DEF CutInv
  <1>2. job_queue \in Seq(Seq(Bytes))
    BY DEF IndInv, Types, LineType
  <1>3. ASSUME UNCHANGED <<input, job_queue>>, Delivered' = Delivered PROVE CutInv'
    BY <1>1, <1>3 DEF CutInv, IsCut
  <1>4. CASE ScanNewline
    <2> DEFINE line == tmp_line_buf \o CString(readbuf', line_start)
               e == Delivered + Len(line) + 1
    <2>1. /\ line \in Seq(Bytes) /\ Len(line) \in Nat
          /\ job_queue' = Append(job_queue, line) /\ UNCHANGED input
          /\ Delivered \in Nat /\ e \in 1 .. Len(input) /\ input[e] = NL
          /\ line = SubSeq(input, Delivered + 1, Delivered + Len(line))
          /\ Delivered' = e
      BY <1>4, NewlineDelivers
    <2>2. e - 1 = Delivered + Len(line) /\ Delivered < e /\ e \in Newlines(input)
      BY <2>1 DEF Newlines
    <2>3. line = SubSeq(input, Delivered + 1, e - 1)
      BY <2>1, <2>2
    <2> HIDE DEF line, e
    <2>4. \E c \in [1 .. Len(Append(job_queue, line)) -> Newlines(input)] :
            IsCut(c, Append(job_queue, line), input, e)
      BY <1>1, <1>2, <2>1, <2>2, <2>3, CutAppend
    <2> QED
      BY <2>1, <2>4 DEF CutInv
  <1>5. CASE \/ ReadChunk \/ ReadEof \/ ScanByte \/ EndChunk
    <2>1. UNCHANGED <<input, job_queue>> /\ Next
      BY <1>5 DEF ReadChunk, ReadEof, ScanByte, EndChunk, Next
    <2>2. NewLines = << >>
      BY <1>2, <2>1 DEF NewLines
    <2>3. NextLineOnly \/ UNCHANGED vars
      BY <2>1, StepDelivers
    <2>4. UNCHANGED vars => Delivered' = Delivered
      BY DEF vars, Delivered, Pending, Unscanned
    <2>5. NextLineOnly => Delivered' = Delivered
      BY <2>2 DEF NextLineOnly
    <2> QED
      BY <1>3, <2>1, <2>3, <2>4, <2>5
  <1>6. CASE Stopped \/ UNCHANGED vars
    BY <1>3, <1>6 DEF Stopped, vars, Delivered, Pending, Unscanned
  <1> QED
    BY <1>4, <1>5, <1>6 DEF Next

\* The lines are the stream, cut at newlines without a gap, and between two chunks
\* no complete line waits in the remainder (main.c:59-142).
THEOREM StreamIsLines == Spec => []LinesAreStream
  <1>1. Init => CutInv
    <2> SUFFICES ASSUME Init PROVE CutInv
      OBVIOUS
    <2>1. job_queue = << >> /\ Delivered = 0
      <3>1. /\ consumed = 0 /\ tmp_line_buf = << >> /\ pc = "read" /\ job_queue = << >>
        BY DEF Init
      <3>2. Pending = << >>
        BY <3>1 DEF Pending, Unscanned
      <3>3. Len(Pending) = 0
        BY <3>2
      <3> QED
        BY <3>1, <3>3 DEF Delivered
    <2>2. << >> \in [1 .. Len(job_queue) -> Newlines(input)]
      BY <2>1
    <2>3. IsCut(<< >>, job_queue, input, Delivered)
      BY <2>1 DEF IsCut
    <2> QED
      BY <2>2, <2>3 DEF CutInv
  <1>2. (IndInv => Delivered = LineFrom)'
    BY DeliveredAt, PTL
  <1>3. IndInv /\ IndInv' /\ CutInv /\ [Next]_vars => CutInv'
    BY <1>2, CutInvKept
  <1>4. Spec => []CutInv
    BY <1>1, <1>3, Inductive, PTL DEF Spec
  <1>5. ASSUME IndInv, TestedInv, CutInv PROVE LinesAreStream
    <2>1. tmp_line_buf \in Seq(Bytes)
      BY <1>5 DEF IndInv, Types, LineType
    <2>2. pc # "scan" => Pending = tmp_line_buf
      BY <2>1 DEF Pending, Unscanned
    <2> QED
      BY <1>5, <2>2 DEF LinesAreStream, CutInv, TestedInv, NoNewlineInside
  <1> QED
    BY <1>4, <1>5, Inductive, Tested, PTL
=============================================================================
