------------------------------- MODULE Buffer -------------------------------
(***************************************************************************)
(* src/core/webcontrol_buffer.c: a C string in memory that grows in pieces. *)
(* len counts the terminating '\0'; 0 means that there is no string.        *)
(*                                                                          *)
(* Memory is explicit: ptr maps the allocated offsets to bytes, fresh bytes *)
(* are Junk, and reach is one past the last byte an operation has written,  *)
(* so that a write behind the end of the allocation can be seen.  text is   *)
(* what the caller believes the buffer holds.                               *)
(*                                                                          *)
(* activedirectory uses a buffer in its own way: it has room made and lets   *)
(* sprintf write the filter of its search there.  filter says so.           *)
(***************************************************************************)
EXTENDS Integers, Sequences

CONSTANTS
  Chars,         \* bytes of a string
  NUL,           \* '\0'
  Junk,          \* the content of fresh memory
  Strings,       \* the C strings callers pass
  PieceSize,     \* BUFFER_PIECE_SIZE (64)
  MaxReuseSize,  \* BUFFER_MAX_REUSE_SIZE (256)
  MaxText        \* bound: the longest text that is built

ASSUME BufferAssumption ==
  /\ PieceSize \in Nat \ {0}
  /\ MaxReuseSize \in Nat
  /\ MaxText \in Nat
  /\ Strings \subseteq Seq(Chars)
  /\ NUL \notin Chars

VARIABLES ptr, len, capacity, reach, text, filter

vars == <<ptr, len, capacity, reach, text, filter>>

\* ptr == NULL: no memory.
NoMemory == [k \in {} |-> Junk]

\* buffer_init; buffer_init_string and its like go on with a copy.
Init ==
  /\ ptr = NoMemory /\ len = 0 /\ capacity = 0
  /\ reach = 0 /\ text = << >> /\ filter = FALSE

Mem == Chars \cup {NUL, Junk}

\* malloc and realloc: size bytes, of which the first ones are kept.
Allocate(size, old, kept) ==
  [k \in 0 .. size - 1 |-> IF k < kept THEN old[k] ELSE Junk]

\* memcpy(ptr + at, s, Len(s)); a byte beyond the end has no place in the model.
Write(mem, at, s) ==
  [k \in DOMAIN mem |-> IF k >= at /\ k < at + Len(s) THEN s[k - at + 1] ELSE mem[k]]

\* Mutant: the size asked for is allocated as it is.
RoundUp_Exact(size) == size

\* Mutant: a size that is a whole number of pieces is left as it is.
RoundUp_IfNeeded(size) ==
  IF size % PieceSize = 0 THEN size ELSE size + (PieceSize - (size % PieceSize))

\* "always allocate a multiply of BUFFER_PIECE_SIZE"; always more than asked for.
RoundUp(size) == size + (PieceSize - (size % PieceSize))

\* buffer_prepare_copy: the capacity and the memory it leaves.
CopyCapacity(size) ==
  IF capacity = 0 \/ size > capacity THEN RoundUp(size) ELSE capacity
CopyMemory(size) ==
  IF capacity = 0 \/ size > capacity THEN Allocate(RoundUp(size), NoMemory, 0) ELSE ptr

\* Mutant: the terminator is not counted when the room is computed.
AppendCapacity_NoTerminator(size) ==
  IF capacity = 0 THEN RoundUp(size)
  ELSE IF len + size - 1 > capacity THEN RoundUp(capacity + size) ELSE capacity

\* buffer_prepare_append: the capacity and the memory it leaves.
AppendCapacity(size) ==
  IF capacity = 0 THEN RoundUp(size)
  ELSE IF len + size > capacity THEN RoundUp(capacity + size) ELSE capacity
AppendMemory(size) ==
  IF AppendCapacity(size) = capacity THEN ptr
  ELSE Allocate(AppendCapacity(size), ptr, capacity)

-----------------------------------------------------------------------------
\* The buffer is used through the functions of webcontrol_buffer.c only.
AsString == ~filter /\ UNCHANGED filter

\* buffer_copy_string and buffer_copy_string_len: s and a terminator.
buffer_copy_string(s) ==
  /\ AsString /\ Len(s) <= MaxText
  /\ capacity' = CopyCapacity(Len(s) + 1)
  /\ ptr' = Write(CopyMemory(Len(s) + 1), 0, Append(s, NUL))
  /\ reach' = Len(s) + 1
  /\ len' = Len(s) + 1
  /\ text' = s

\* Mutant: the string is appended behind the terminator.
buffer_append_string_BehindTerminator(s) ==
  /\ AsString /\ Len(text) + Len(s) <= MaxText
  /\ LET old == IF len = 0 THEN 1 ELSE len
     IN  /\ capacity' = AppendCapacity(Len(s) + 1)
         /\ ptr' = Write(AppendMemory(Len(s) + 1), old, Append(s, NUL))
         /\ reach' = old + Len(s)
         /\ len' = old + Len(s)
  /\ text' = text \o s

\* buffer_append_string: over the old terminator, with a new one.
buffer_append_string(s) ==
  /\ AsString /\ Len(text) + Len(s) <= MaxText
  /\ LET old == IF len = 0 THEN 1 ELSE len
     IN  /\ capacity' = AppendCapacity(Len(s) + 1)
         /\ ptr' = Write(AppendMemory(Len(s) + 1), old - 1, Append(s, NUL))
         /\ reach' = old + Len(s)
         /\ len' = old + Len(s)
  /\ text' = text \o s

\* buffer_append_string_len: the same, except that nothing happens for no bytes.
buffer_append_string_len(s) ==
  \/ s = << >> /\ UNCHANGED vars
  \/ s # << >> /\ buffer_append_string(s)

\* buffer_reset: large memory is given back, small memory is kept.
buffer_reset ==
  /\ AsString
  /\ \/ /\ capacity > MaxReuseSize
        /\ ptr' = NoMemory /\ capacity' = 0 /\ reach' = 0
     \/ /\ capacity <= MaxReuseSize
        /\ ptr' = Write(ptr, 0, IF capacity > 0 THEN <<NUL>> ELSE << >>)
        /\ reach' = IF capacity > 0 THEN 1 ELSE 0
        /\ UNCHANGED capacity
  /\ len' = 0
  /\ text' = << >>

\* buffer_copy_string_buffer, from a buffer that holds s or, if s is empty and
\* fresh, no string at all.
buffer_copy_string_buffer(s, fresh) ==
  \/ fresh /\ buffer_reset
  \/ ~fresh /\ buffer_copy_string(s)

\* activedirectory's search filter s, in a new buffer: room for s is asked for,
\* s and a terminator are written by sprintf, and the terminator is not counted.
assemble_filter(s) ==
  /\ capacity = 0 /\ len = 0 /\ Len(s) <= MaxText
  /\ capacity' = CopyCapacity(Len(s))
  /\ ptr' = Write(CopyMemory(Len(s)), 0, Append(s, NUL))
  /\ reach' = Len(s) + 1
  /\ len' = Len(s)
  /\ text' = s
  /\ filter' = TRUE

\* buffer_free, and buffer_init of the next buffer.
buffer_free ==
  /\ ptr' = NoMemory /\ capacity' = 0 /\ len' = 0
  /\ reach' = 0 /\ text' = << >> /\ filter' = FALSE

Next ==
  \/ buffer_reset \/ buffer_free
  \/ \E s \in Strings :
       \/ buffer_copy_string(s) \/ buffer_append_string(s)
       \/ buffer_append_string_len(s) \/ assemble_filter(s)
       \/ \E fresh \in BOOLEAN : buffer_copy_string_buffer(s, fresh)

Spec == Init /\ [][Next]_vars

-----------------------------------------------------------------------------
(* Properties *)

\* len counts a string that fits, and the capacity is a whole number of pieces
\* (webcontrol_buffer.c:76-77, 138-139, 147-148).
TypeOK ==
  /\ capacity \in Nat /\ capacity % PieceSize = 0
  /\ len \in 0 .. capacity
  /\ ptr \in [0 .. capacity - 1 -> Mem]
  /\ reach \in Nat
  /\ text \in Seq(Chars) /\ filter \in BOOLEAN

\* No operation writes behind the end of the memory, whatever was copied,
\* appended and reset before: the growth arithmetic leaves room for the
\* terminator in every case (webcontrol_buffer.c:95, 124, 167, 181-183, 205), also
\* for the filter, for whose terminator nobody asks
\* (webcontrol_activedirectory.c:162-164).
WritesFit == reach <= capacity

\* After any sequence of operations the memory holds exactly the text the
\* caller built, terminated; len = 0 stands for the empty text, and otherwise
\* counts the terminator, unless it is a filter (webcontrol_buffer.c:86-209,
\* webcontrol_activedirectory.c:164-166).
HoldsText ==
  /\ len = 0 => text = << >>
  /\ len > 0 => /\ len = Len(text) + (IF filter THEN 0 ELSE 1)
                /\ \A k \in 1 .. Len(text) : ptr[k - 1] = text[k]
                /\ ptr[Len(text)] = NUL
=============================================================================
