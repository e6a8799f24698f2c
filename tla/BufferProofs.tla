---------------------------- MODULE BufferProofs ----------------------------
(***************************************************************************)
(* Proofs about Buffer for every piece size, every reuse limit and every    *)
(* set of strings.                                                          *)
(***************************************************************************)
EXTENDS Buffer, SequenceTheorems, TLAPS

-----------------------------------------------------------------------------
(* Growth arithmetic *)

\* Rounding up gives a whole number of pieces, and more than was asked for.
LEMMA RoundUpGrows ==
  ASSUME NEW size \in Nat
  PROVE  /\ RoundUp(size) \in Nat
         /\ RoundUp(size) > size
  <1>1. PieceSize \in Nat \ {0}
    BY BufferAssumption
  <1>2. size % PieceSize \in 0 .. PieceSize - 1
    BY <1>1
  <1> QED
    BY <1>1, <1>2 DEF RoundUp

\* The other half: the result is a whole number of pieces.
LEMMA RoundUpWhole ==
  ASSUME NEW size \in Nat
  PROVE  RoundUp(size) % PieceSize = 0
  <1> DEFINE q == size \div PieceSize
             r == size % PieceSize
  <1>1. PieceSize \in Nat \ {0}
    BY BufferAssumption
  <1>2. q \in Int /\ r \in 0 .. PieceSize - 1
    BY <1>1
  <1>3. size = PieceSize * q + r
    BY <1>1
  <1>4. RoundUp(size) = PieceSize * (q + 1)
    <2>1. RoundUp(size) = PieceSize * q + r + (PieceSize - r)
      BY <1>3 DEF RoundUp
    <2> HIDE DEF q, r
    <2> QED
      BY <1>1, <1>2, <2>1
  <1>5. (PieceSize * (q + 1)) % PieceSize = 0
    <2> HIDE DEF q, r
    <2> QED
      BY <1>1, <1>2
  <1> QED
    BY <1>4, <1>5

-----------------------------------------------------------------------------
(* The inductive invariant and the memory operations *)

IndInv == TypeOK /\ WritesFit /\ HoldsText

\* memcpy changes the bytes it covers and no others.
LEMMA WriteMemory ==
  ASSUME NEW c \in Nat, NEW mem \in [0 .. c - 1 -> Mem],
         NEW s \in Seq(Mem), NEW at \in Nat
  PROVE  /\ Write(mem, at, s) \in [0 .. c - 1 -> Mem]
         /\ \A k \in 0 .. c - 1 :
              Write(mem, at, s)[k] = IF k >= at /\ k < at + Len(s) THEN s[k - at + 1] ELSE mem[k]
  <1>1. Len(s) \in Nat /\ \A n \in 1 .. Len(s) : s[n] \in Mem
    BY LenProperties, ElementOfSeq
  <1>2. ASSUME NEW k \in 0 .. c - 1, k >= at, k < at + Len(s) PROVE s[k - at + 1] \in Mem
    BY <1>1, <1>2
  <1> QED
    BY <1>1, <1>2 DEF Write

\* Writing a string and its terminator where there is room for both.
LEMMA WriteString ==
  ASSUME NEW c \in Nat, NEW mem \in [0 .. c - 1 -> Mem],
         NEW s \in Seq(Chars), NEW at \in Nat, at + (Len(s) + 1) <= c
  PROVE  /\ Write(mem, at, Append(s, NUL)) \in [0 .. c - 1 -> Mem]
         /\ \A k \in 0 .. at - 1 : Write(mem, at, Append(s, NUL))[k] = mem[k]
         /\ \A k \in 1 .. Len(s) : Write(mem, at, Append(s, NUL))[at + (k - 1)] = s[k]
         /\ Write(mem, at, Append(s, NUL))[at + Len(s)] = NUL
  <1>1. s \in Seq(Mem) /\ NUL \in Mem
    BY SeqMonotonic DEF Mem
  <1>2. PICK z \in Seq(Mem) : z = Append(s, NUL)
    BY <1>1, AppendProperties
  <1>3. PICK m \in Nat : m = Len(s)
    BY LenProperties
  <1>4. /\ Len(z) = m + 1
        /\ \A k \in 1 .. m : z[k] = s[k]
        /\ z[m + 1] = NUL
    BY <1>1, <1>2, <1>3, AppendProperties
  <1>5. /\ Write(mem, at, z) \in [0 .. c - 1 -> Mem]
        /\ \A k \in 0 .. c - 1 :
             Write(mem, at, z)[k] = IF k >= at /\ k < at + (m + 1) THEN z[k - at + 1] ELSE mem[k]
    <2>1. /\ Write(mem, at, z) \in [0 .. c - 1 -> Mem]
          /\ \A k \in 0 .. c - 1 :
               Write(mem, at, z)[k] = IF k >= at /\ k < at + Len(z) THEN z[k - at + 1] ELSE mem[k]
      BY WriteMemory
    <2>2. Len(z) = m + 1
      BY <1>4
    <2> QED
      BY <2>1, <2>2
  <1>6. at + (m + 1) <= c
    BY <1>3
  <1>7. \A k \in 0 .. at - 1 : Write(mem, at, z)[k] = mem[k]
    BY <1>5, <1>6
  <1>8. ASSUME NEW k \in 1 .. m PROVE Write(mem, at, z)[at + (k - 1)] = s[k]
    <2>1. PICK j \in Nat : j = at + (k - 1)
      OBVIOUS
    <2>2. j \in 0 .. c - 1 /\ j >= at /\ j < at + (m + 1) /\ j - at + 1 = k
      BY <1>6, <2>1
    <2>3. Write(mem, at, z)[j] = z[j - at + 1]
      BY <1>5, <2>2
    <2> QED
      BY <1>4, <2>1, <2>2, <2>3
  <1>9. Write(mem, at, z)[at + m] = NUL
    <2>1. PICK j \in Nat : j = at + m
      OBVIOUS
    <2>2. j \in 0 .. c - 1 /\ j >= at /\ j < at + (m + 1) /\ j - at + 1 = m + 1
      BY <1>6, <2>1
    <2>3. Write(mem, at, z)[j] = z[j - at + 1]
      BY <1>5, <2>2
    <2> QED
      BY <1>4, <2>1, <2>2, <2>3
  <1> QED
    BY <1>2, <1>3, <1>5, <1>7, <1>8, <1>9

\* buffer_prepare_copy leaves the room it was asked for.
LEMMA PrepareCopy ==
  ASSUME IndInv, NEW size \in Nat
  PROVE  /\ CopyCapacity(size) \in Nat
         /\ CopyCapacity(size) >= size
         /\ CopyCapacity(size) % PieceSize = 0
         /\ CopyMemory(size) \in [0 .. CopyCapacity(size) - 1 -> Mem]
         /\ capacity = 0 => CopyCapacity(size) > size
  <1>1. RoundUp(size) \in Nat /\ RoundUp(size) > size /\ RoundUp(size) % PieceSize = 0
    BY RoundUpGrows, RoundUpWhole
  <1>2. capacity \in Nat /\ capacity % PieceSize = 0 /\ ptr \in [0 .. capacity - 1 -> Mem]
    BY DEF IndInv, TypeOK
  <1>3. Allocate(RoundUp(size), NoMemory, 0) \in [0 .. RoundUp(size) - 1 -> Mem]
    BY <1>1 DEF Allocate, Mem
  <1> QED
    BY <1>1, <1>2, <1>3 DEF CopyCapacity, CopyMemory

\* buffer_prepare_append leaves room behind the string, and the string as it is.
LEMMA PrepareAppend ==
  ASSUME IndInv, NEW size \in Nat \ {0}
  PROVE  /\ AppendCapacity(size) \in Nat
         /\ AppendCapacity(size) >= len + size
         /\ AppendCapacity(size) % PieceSize = 0
         /\ AppendMemory(size) \in [0 .. AppendCapacity(size) - 1 -> Mem]
         /\ \A k \in 0 .. len - 1 : AppendMemory(size)[k] = ptr[k]
  <1>1. /\ capacity \in Nat /\ capacity % PieceSize = 0 /\ ptr \in [0 .. capacity - 1 -> Mem]
        /\ len \in 0 .. capacity
    BY DEF IndInv, TypeOK
  <1>2. RoundUp(size) \in Nat /\ RoundUp(size) > size /\ RoundUp(size) % PieceSize = 0
    BY RoundUpGrows, RoundUpWhole
  <1>3. /\ RoundUp(capacity + size) \in Nat /\ RoundUp(capacity + size) > capacity + size
        /\ RoundUp(capacity + size) % PieceSize = 0
    BY <1>1, RoundUpGrows, RoundUpWhole
  <1>4. CASE AppendCapacity(size) = capacity
    <2>1. capacity # 0 /\ len + size <= capacity
      BY <1>1, <1>2, <1>3, <1>4 DEF AppendCapacity
    <2> QED
      BY <1>1, <1>4, <2>1 DEF AppendMemory
  <1>5. CASE AppendCapacity(size) # capacity
    <2>1. /\ AppendCapacity(size) \in Nat /\ AppendCapacity(size) >= capacity + size
          /\ AppendCapacity(size) % PieceSize = 0
      BY <1>1, <1>2, <1>3, <1>5 DEF AppendCapacity
    <2>2. AppendMemory(size) = Allocate(AppendCapacity(size), ptr, capacity)
      BY <1>5 DEF AppendMemory
    <2> HIDE DEF AppendCapacity
    <2>3. AppendMemory(size) \in [0 .. AppendCapacity(size) - 1 -> Mem]
      BY <1>1, <2>1, <2>2 DEF Allocate, Mem
    <2>4. \A k \in 0 .. len - 1 : AppendMemory(size)[k] = ptr[k]
      BY <1>1, <2>1, <2>2 DEF Allocate
    <2> QED
      BY <1>1, <2>1, <2>3, <2>4
  <1> QED
    BY <1>4, <1>5

-----------------------------------------------------------------------------
(* The operations *)

\* A copy replaces the text.
LEMMA CopyIndInv ==
  ASSUME IndInv, NEW s \in Strings, buffer_copy_string(s)
  PROVE  IndInv'
  <1>1. s \in Seq(Chars) /\ Len(s) \in Nat
    BY BufferAssumption, LenProperties
  <1>2. capacity' % PieceSize = 0
    BY <1>1, PrepareCopy DEF buffer_copy_string
  <1>3. /\ capacity' \in Nat /\ capacity' >= Len(s) + 1
        /\ CopyMemory(Len(s) + 1) \in [0 .. capacity' - 1 -> Mem]
    BY <1>1, PrepareCopy DEF buffer_copy_string
  <1>4. /\ ptr' = Write(CopyMemory(Len(s) + 1), 0, Append(s, NUL))
        /\ len' = Len(s) + 1 /\ reach' = Len(s) + 1 /\ text' = s /\ filter' = FALSE
    BY DEF buffer_copy_string, AsString, IndInv, TypeOK
  <1>5. 0 \in Nat /\ 0 + (Len(s) + 1) <= capacity'
    BY <1>1, <1>3
  <1>6. /\ ptr' \in [0 .. capacity' - 1 -> Mem]
        /\ \A k \in 1 .. Len(s) : ptr'[0 + (k - 1)] = s[k]
        /\ ptr'[0 + Len(s)] = NUL
    BY <1>1, <1>3, <1>4, <1>5, WriteString
  <1>7. TypeOK'
    <2>1. len' \in 0 .. capacity' /\ reach' \in Nat
      BY <1>1, <1>3, <1>4
    <2> QED
      BY <1>1, <1>2, <1>3, <1>4, <1>6, <2>1 DEF TypeOK
  <1>8. WritesFit'
    BY <1>3, <1>4 DEF WritesFit
  <1>9. HoldsText'
    BY <1>1, <1>4, <1>6 DEF HoldsText
  <1> QED
    BY <1>7, <1>8, <1>9 DEF IndInv

\* Where the next string goes: behind the text.
LEMMA TextLength ==
  ASSUME IndInv, ~filter
  PROVE  /\ Len(text) \in Nat /\ len \in Nat
         /\ (IF len = 0 THEN 1 ELSE len) = Len(text) + 1
         /\ len = 0 => Len(text) = 0
         /\ len # 0 => len = Len(text) + 1
  <1>1. capacity \in Nat /\ len \in 0 .. capacity /\ text \in Seq(Chars)
    BY DEF IndInv, TypeOK
  <1>2. len \in Nat /\ Len(text) \in Nat
    BY <1>1, LenProperties
  <1>3. CASE len = 0
    <2>1. Len(text) = 0
      BY <1>3, EmptySeq DEF IndInv, HoldsText
    <2> QED
      BY <1>2, <1>3, <2>1
  <1>4. CASE len # 0
    BY <1>2, <1>4 DEF IndInv, HoldsText
  <1> QED
    BY <1>3, <1>4

\* An append keeps the text in front of it.
LEMMA AppendIndInv ==
  ASSUME IndInv, NEW s \in Strings, buffer_append_string(s)
  PROVE  IndInv'
  <1>1. s \in Seq(Chars) /\ Len(s) \in Nat /\ text \in Seq(Chars)
    BY BufferAssumption, LenProperties DEF IndInv, TypeOK
  <1>2. PICK n \in Nat : n = Len(text)
    BY <1>1, LenProperties
  <1>3. /\ len \in Nat /\ (IF len = 0 THEN 1 ELSE len) = n + 1
        /\ len = 0 => n = 0
        /\ len # 0 => len = n + 1
    BY <1>2, TextLength DEF buffer_append_string, AsString
  <1>4. \A k \in 1 .. n : ptr[k - 1] = text[k]
    <2>1. CASE len = 0
      BY <1>3, <2>1
    <2>2. CASE len # 0
      <3>1. len > 0
        BY <1>3, <2>2
      <3>2. \A k \in 1 .. Len(text) : ptr[k - 1] = text[k]
        BY <3>1 DEF IndInv, HoldsText
      <3> QED
        BY <1>2, <3>2
    <2> QED
      BY <2>1, <2>2
  <1>5. capacity' % PieceSize = 0
    BY <1>1, PrepareAppend DEF buffer_append_string
  <1>6. /\ capacity' \in Nat /\ capacity' >= len + (Len(s) + 1)
        /\ AppendMemory(Len(s) + 1) \in [0 .. capacity' - 1 -> Mem]
        /\ \A k \in 0 .. len - 1 : AppendMemory(Len(s) + 1)[k] = ptr[k]
    <2>1. capacity' = AppendCapacity(Len(s) + 1)
      BY DEF buffer_append_string
    <2>2. Len(s) + 1 \in Nat \ {0}
      BY <1>1
    <2>3. /\ AppendCapacity(Len(s) + 1) \in Nat /\ AppendCapacity(Len(s) + 1) >= len + (Len(s) + 1)
          /\ AppendMemory(Len(s) + 1) \in [0 .. AppendCapacity(Len(s) + 1) - 1 -> Mem]
          /\ \A k \in 0 .. len - 1 : AppendMemory(Len(s) + 1)[k] = ptr[k]
      BY <2>2, PrepareAppend
    <2> QED
      BY <2>1, <2>3
  <1>7. (n + 1) - 1 = n /\ n + (Len(s) + 1) <= capacity' /\ (n + 1) + Len(s) = n + Len(s) + 1
    BY <1>1, <1>3, <1>6
  <1>8. /\ ptr' = Write(AppendMemory(Len(s) + 1), n, Append(s, NUL))
        /\ len' = n + Len(s) + 1 /\ reach' = n + Len(s) + 1 /\ text' = text \o s
        /\ filter' = FALSE
    BY <1>3, <1>7 DEF buffer_append_string, AsString, IndInv, TypeOK
  <1>9. /\ ptr' \in [0 .. capacity' - 1 -> Mem]
        /\ \A k \in 0 .. n - 1 : ptr'[k] = AppendMemory(Len(s) + 1)[k]
        /\ \A k \in 1 .. Len(s) : ptr'[n + (k - 1)] = s[k]
        /\ ptr'[n + Len(s)] = NUL
    <2>1. PICK c \in Nat : c = capacity'
      BY <1>6
    <2>2. PICK mem \in [0 .. c - 1 -> Mem] : mem = AppendMemory(Len(s) + 1)
      BY <1>6, <2>1
    <2>3. s \in Seq(Chars) /\ n + (Len(s) + 1) <= c
      BY <1>1, <1>7, <2>1
    <2>4. /\ Write(mem, n, Append(s, NUL)) \in [0 .. c - 1 -> Mem]
          /\ \A k \in 0 .. n - 1 : Write(mem, n, Append(s, NUL))[k] = mem[k]
          /\ \A k \in 1 .. Len(s) : Write(mem, n, Append(s, NUL))[n + (k - 1)] = s[k]
          /\ Write(mem, n, Append(s, NUL))[n + Len(s)] = NUL
      BY <2>3, WriteString
    <2>5. ptr' = Write(mem, n, Append(s, NUL))
      BY <1>8, <2>2
    <2> QED
      BY <2>1, <2>2, <2>4, <2>5
  <1>10. /\ text' \in Seq(Chars) /\ Len(text') = n + Len(s)
         /\ \A k \in 1 .. n + Len(s) : text'[k] = IF k <= n THEN text[k] ELSE s[k - n]
    BY <1>1, <1>2, <1>8, ConcatProperties
  <1>11. TypeOK'
    <2>1. len' \in 0 .. capacity' /\ reach' \in Nat
      BY <1>1, <1>6, <1>7, <1>8
    <2> QED
      BY <1>5, <1>6, <1>8, <1>9, <1>10, <2>1 DEF TypeOK
  <1>12. WritesFit'
    BY <1>1, <1>6, <1>7, <1>8 DEF WritesFit
  <1>13. ASSUME NEW k \in 1 .. n + Len(s) PROVE ptr'[k - 1] = text'[k]
    <2>1. CASE k <= n
      <3>1. k - 1 \in 0 .. n - 1 /\ k - 1 \in 0 .. len - 1 /\ k \in 1 .. n
        BY <1>1, <1>3, <2>1
      <3> QED
        BY <1>4, <1>6, <1>9, <1>10, <2>1, <3>1
    <2>2. CASE k > n
      <3>1. k - n \in 1 .. Len(s) /\ n + ((k - n) - 1) = k - 1 /\ ~(k <= n)
        BY <1>1, <2>2
      <3> QED
        BY <1>9, <1>10, <3>1
    <2> QED
      BY <1>1, <2>1, <2>2
  <1>14. len' - 1 = n + Len(s) /\ len' > 0 /\ len' # 0
    BY <1>1, <1>8
  <1>15. HoldsText'
    BY <1>8, <1>9, <1>10, <1>13, <1>14 DEF HoldsText
  <1> QED
    BY <1>11, <1>12, <1>15 DEF IndInv

\* A reset leaves no text, and memory only up to the reuse limit.
LEMMA ResetIndInv ==
  ASSUME IndInv, buffer_reset
  PROVE  IndInv'
  <1>1. capacity \in Nat /\ capacity % PieceSize = 0 /\ ptr \in [0 .. capacity - 1 -> Mem]
    BY DEF IndInv, TypeOK
  <1>2. len' = 0 /\ text' = << >> /\ << >> \in Seq(Chars) /\ filter' \in BOOLEAN
    BY EmptySeq DEF buffer_reset, AsString, IndInv, TypeOK
  <1>3. CASE ptr' = NoMemory /\ capacity' = 0 /\ reach' = 0
    <2>1. 0 % PieceSize = 0
      BY BufferAssumption
    <2>2. ptr' \in [0 .. capacity' - 1 -> Mem]
      BY <1>3 DEF NoMemory
    <2> QED
      BY <1>2, <1>3, <2>1, <2>2 DEF IndInv, TypeOK, WritesFit, HoldsText
  <1>4. CASE /\ ptr' = Write(ptr, 0, IF capacity > 0 THEN <<NUL>> ELSE << >>)
             /\ reach' = IF capacity > 0 THEN 1 ELSE 0
             /\ UNCHANGED capacity
    <2>1. (IF capacity > 0 THEN <<NUL>> ELSE << >>) \in Seq(Mem)
      <3>1. NUL \in Mem
        BY DEF Mem
      <3>2. <<NUL>> \in Seq(Mem) /\ << >> \in Seq(Mem)
        BY <3>1, EmptySeq
      <3> QED
        BY <3>2
    <2>2. ptr' \in [0 .. capacity' - 1 -> Mem]
      BY <1>1, <1>4, <2>1, WriteMemory
    <2> QED
      BY <1>1, <1>2, <1>4, <2>2 DEF IndInv, TypeOK, WritesFit, HoldsText
  <1> QED
    BY <1>3, <1>4 DEF buffer_reset

\* The filter fits with its terminator, because its buffer is new: fresh memory is
\* always larger than what was asked for.
LEMMA FilterIndInv ==
  ASSUME IndInv, NEW s \in Strings, assemble_filter(s)
  PROVE  IndInv'
  <1>1. s \in Seq(Chars) /\ Len(s) \in Nat
    BY BufferAssumption, LenProperties
  <1>2. capacity' % PieceSize = 0
    BY <1>1, PrepareCopy DEF assemble_filter
  <1>3. /\ capacity' \in Nat /\ capacity' > Len(s)
        /\ CopyMemory(Len(s)) \in [0 .. capacity' - 1 -> Mem]
    BY <1>1, PrepareCopy DEF assemble_filter
  <1>4. /\ ptr' = Write(CopyMemory(Len(s)), 0, Append(s, NUL))
        /\ len' = Len(s) /\ reach' = Len(s) + 1 /\ text' = s /\ filter' = TRUE
    BY DEF assemble_filter
  <1>5. 0 \in Nat /\ 0 + (Len(s) + 1) <= capacity'
    BY <1>1, <1>3
  <1>6. /\ ptr' \in [0 .. capacity' - 1 -> Mem]
        /\ \A k \in 1 .. Len(s) : ptr'[0 + (k - 1)] = s[k]
        /\ ptr'[0 + Len(s)] = NUL
    BY <1>1, <1>3, <1>4, <1>5, WriteString
  <1>7. TypeOK'
    <2>1. len' \in 0 .. capacity' /\ reach' \in Nat
      BY <1>1, <1>3, <1>4
    <2> QED
      BY <1>1, <1>2, <1>3, <1>4, <1>6, <2>1 DEF TypeOK
  <1>8. WritesFit'
    BY <1>1, <1>4, <1>5 DEF WritesFit
  <1>9. HoldsText'
    <2>1. len' = 0 => text' = << >>
      BY <1>1, <1>4, EmptySeq
    <2> QED
      BY <1>1, <1>4, <1>6, <2>1 DEF HoldsText
  <1> QED
    BY <1>7, <1>8, <1>9 DEF IndInv

\* A freed buffer, and the next one, hold nothing.
LEMMA FreeIndInv ==
  ASSUME buffer_free
  PROVE  IndInv'
  <1>1. 0 % PieceSize = 0
    BY BufferAssumption
  <1>2. ptr' \in [0 .. capacity' - 1 -> Mem] /\ << >> \in Seq(Chars)
    BY EmptySeq DEF buffer_free, NoMemory
  <1>3. /\ capacity' = 0 /\ len' = 0 /\ reach' = 0 /\ text' = << >> /\ filter' = FALSE
    BY DEF buffer_free
  <1>4. TypeOK'
    <2>1. len' \in 0 .. capacity' /\ reach' \in Nat
      BY <1>3
    <2>2. filter' \in BOOLEAN
      BY <1>3, Zenon
    <2> QED
      BY <1>1, <1>2, <1>3, <2>1, <2>2 DEF TypeOK
  <1>5. WritesFit' /\ HoldsText'
    BY <1>3 DEF WritesFit, HoldsText
  <1> QED
    BY <1>4, <1>5 DEF IndInv

\* The three parts together are preserved by every operation.
LEMMA Inductive == Spec => []IndInv
  <1>1. Init => IndInv
    <2> SUFFICES ASSUME Init PROVE IndInv
      OBVIOUS
    <2>1. 0 % PieceSize = 0
      BY BufferAssumption
    <2>2. ptr \in [0 .. capacity - 1 -> Mem] /\ << >> \in Seq(Chars)
      BY EmptySeq DEF Init, NoMemory
    <2>3. capacity = 0 /\ len = 0 /\ reach = 0 /\ text = << >> /\ filter = FALSE
      BY DEF Init
    <2>4. TypeOK
      <3>1. len \in 0 .. capacity /\ reach \in Nat
        BY <2>3
      <3>2. filter \in BOOLEAN
        BY <2>3, Zenon
      <3> QED
        BY <2>1, <2>2, <2>3, <3>1, <3>2 DEF TypeOK
    <2>5. WritesFit /\ HoldsText
      BY <2>3 DEF WritesFit, HoldsText
    <2> QED
      BY <2>4, <2>5 DEF IndInv
  <1>2. IndInv /\ [Next]_vars => IndInv'
    <2> SUFFICES ASSUME IndInv, [Next]_vars PROVE IndInv'
      OBVIOUS
    <2>1. CASE UNCHANGED vars
      BY <2>1 DEF IndInv, TypeOK, WritesFit, HoldsText, vars
    <2>2. CASE buffer_reset
      BY <2>2, ResetIndInv
    <2>3. ASSUME NEW s \in Strings, buffer_copy_string(s) PROVE IndInv'
      BY <2>3, CopyIndInv
    <2>4. ASSUME NEW s \in Strings, buffer_append_string(s) PROVE IndInv'
      BY <2>4, AppendIndInv
    <2>5. ASSUME NEW s \in Strings, assemble_filter(s) PROVE IndInv'
      BY <2>5, FilterIndInv
    <2>6. CASE buffer_free
      BY <2>6, FreeIndInv
    <2> QED
      BY <2>1, <2>2, <2>3, <2>4, <2>5, <2>6
         DEF Next, buffer_append_string_len, buffer_copy_string_buffer
  <1> QED
    BY <1>1, <1>2, PTL DEF Spec

\* No sequence of copies, appends and resets writes outside the allocation.
THEOREM NoOverrun == Spec => []WritesFit
  <1>1. IndInv => WritesFit
    BY DEF IndInv
  <1> QED
    BY <1>1, Inductive, PTL

\* The buffer holds what its caller put into it.
THEOREM ContentCorrect == Spec => []HoldsText
  <1>1. IndInv => HoldsText
    BY DEF IndInv
  <1> QED
    BY <1>1, Inductive, PTL

\* len never exceeds the capacity, and the capacity is a multiple of the piece.
THEOREM TypeCorrect == Spec => []TypeOK
  <1>1. IndInv => TypeOK
    BY DEF IndInv
  <1> QED
    BY <1>1, Inductive, PTL
=============================================================================
