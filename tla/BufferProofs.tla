----------------------------- MODULE BufferProofs -----------------------------
(***************************************************************************)
(* Proofs about the buffers that what ends in the terminal is written      *)
(* into.  DynamicBuffer, for every set of texts and sizes: it never         *)
(* overflows, its string ends where its text does, and it implements       *)
(* ByteBuffer whatever allocations fail.  TextView, for every text: it      *)
(* stays in its memory.  EscapeOutput, for every text, every buffer size   *)
(* and every number of digits: nothing is written past the buffer, and one *)
(* that is large enough gets the whole clipboard sequence, which decodes   *)
(* to the text.                                                            *)
(***************************************************************************)
EXTENDS DynamicBuffer, TextView, EscapeOutput, SequenceTheorems, Induction, TLAPS

----------------------------------------------------------------------------
(* The dynamic buffer                                                      *)

\* What a growth in progress has promised.
GrowthOwed ==
  /\ growing = "append" => /\ required_size = len + Len(adding) + 1
                           /\ adding \in Strings
  /\ growing = "caller" => required_size > size
  /\ new_size \in Nat

BufferInv == DBTypeOK /\ WithinBuffer /\ EndsAtLen /\ GrowthOwed

----------------------------------------------------------------------------
(* Memory                                                                  *)

\* Writing a text and its NUL gives memory of the same size.
LEMMA WrittenType ==
  ASSUME NEW n \in Nat, NEW d \in [0 .. n - 1 -> Memory], NEW at \in Nat,
         NEW s \in Seq(Byte)
  PROVE  Written(d, at, s) \in [0 .. n - 1 -> Memory]
<1>1. \A j \in 0 .. n - 1 : j \in at .. at + Len(s) - 1 => s[j - at + 1] \in Byte
  BY ElementOfSeq, LenProperties
<1>2. \A j \in 0 .. n - 1 : Written(d, at, s)[j] \in Memory
  BY <1>1 DEF Written, Memory
<1> QED BY <1>2 DEF Written

\* When there is room, the NUL is behind the text, and the bytes before the
\* text stay.
LEMMA WrittenContents ==
  ASSUME NEW n \in Nat, NEW d \in [0 .. n - 1 -> Memory], NEW at \in Nat,
         NEW s \in Seq(Byte), at + Len(s) < n
  PROVE  /\ Written(d, at, s)[at + Len(s)] = NUL
         /\ \A j \in 1 .. at : Written(d, at, s)[j - 1] = d[j - 1]
         /\ \A j \in at + 1 .. at + Len(s) : Written(d, at, s)[j - 1] = s[j - at]
<1>1. Len(s) \in Nat
  BY LenProperties
<1>2. at + Len(s) \in 0 .. n - 1 /\ at + Len(s) \notin at .. at + Len(s) - 1
  BY <1>1
<1>3. \A j \in 1 .. at : j - 1 \in 0 .. n - 1 /\ j - 1 \notin at .. at + Len(s) - 1
                          /\ j - 1 # at + Len(s)
  BY <1>1
<1>4. \A j \in at + 1 .. at + Len(s) : /\ j - 1 \in 0 .. n - 1
                                         /\ j - 1 \in at .. at + Len(s) - 1
                                         /\ (j - 1) - at + 1 = j - at
  BY <1>1
<1> QED BY <1>2, <1>3, <1>4 DEF Written

\* Emptying leaves a NUL at the front.
LEMMA EmptiedContents ==
  ASSUME NEW n \in Nat \ {0}, NEW d \in [0 .. n - 1 -> Memory]
  PROVE  Emptied(d) \in [0 .. n - 1 -> Memory] /\ Emptied(d)[0] = NUL
<1>1. <<>> \in Seq(Byte) /\ Len(<<>>) = 0
  BY EmptySeq
<1>2. Emptied(d) \in [0 .. n - 1 -> Memory]
  BY <1>1, WrittenType DEF Emptied
<1>3. 0 \in DOMAIN d /\ 0 \notin 0 .. 0 + Len(<<>>) - 1
  BY <1>1
<1> QED BY <1>1, <1>2, <1>3 DEF Emptied, Written

\* Moving keeps the bytes that fit.
LEMMA MovedContents ==
  ASSUME NEW n \in Nat, NEW d \in [0 .. n - 1 -> Memory], NEW m \in Nat
  PROVE  /\ Moved(d, m) \in [0 .. m - 1 -> Memory]
         /\ \A j \in 0 .. m - 1 : j < n => Moved(d, m)[j] = d[j]
BY DEF Moved, Memory

----------------------------------------------------------------------------
(* The invariant                                                           *)

\* Storing a text that fits keeps the buffer well formed.
LEMMA StoreKeeps ==
  ASSUME NEW n \in Nat, NEW d \in [0 .. n - 1 -> Memory], NEW s \in Seq(Byte),
         len \in Nat, len + Len(s) < n, size' = n, Store(d, s)
  PROVE  /\ data' \in [0 .. size' - 1 -> Memory] /\ len' \in Nat /\ len' < size'
         /\ data'[len'] = NUL /\ result' = "ok" /\ torn' = FALSE
<1>1. Len(s) \in Nat
  BY LenProperties
<1>2. data' = Written(d, len, s) /\ len' = len + Len(s)
  BY DEF Store
<1>3. data' \in [0 .. n - 1 -> Memory]
  BY <1>2, WrittenType
<1>4. data'[len'] = NUL
  BY <1>2, WrittenContents
<1> QED BY <1>1, <1>2, <1>3, <1>4 DEF Store

LEMMA InitOK == DBInit => BufferInv
<1> SUFFICES ASSUME DBInit PROVE BufferInv
  OBVIOUS
<1>1. size \in Nat /\ size > 0
  BY DynamicBufferAssumption DEF DBInit, InitialSize, AtLeast
<1>2. <<>> \in Seq(Byte) /\ Len(<<>>) = 0
  BY EmptySeq
<1>3. [j \in 0 .. size - 1 |-> Junk] \in [0 .. size - 1 -> Memory]
  BY DEF Memory
<1>4. data \in [0 .. size - 1 -> Memory] /\ data[0] = NUL
  BY <1>1, <1>2, <1>3, WrittenType, WrittenContents DEF DBInit
<1> QED BY <1>1, <1>2, <1>4
        DEF DBInit, BufferInv, DBTypeOK, WithinBuffer, EndsAtLen, GrowthOwed

\* Each operation keeps the invariant.
LEMMA NextOK == BufferInv /\ [DBNext]_dbVars => BufferInv'
<1> SUFFICES ASSUME BufferInv, [DBNext]_dbVars PROVE BufferInv'
  OBVIOUS
<1> USE DEF BufferInv, DBTypeOK, WithinBuffer, EndsAtLen, GrowthOwed
<1>e. <<>> \in Seq(Byte) /\ Len(<<>>) = 0
  BY EmptySeq
<1>m. MIN_BUFFER_SIZE \in Nat \ {0} /\ Sizes \subseteq Nat /\ Strings \subseteq Seq(Byte)
  BY DynamicBufferAssumption
<1>1. ASSUME NEW s \in Strings, AppendData(s) PROVE BufferInv'
  <2>1. s \in Seq(Byte) /\ Len(s) \in Nat
    BY <1>m, LenProperties
  <2>2. CASE Required(s) <= size /\ Store(data, s) /\ UNCHANGED <<size, growVars>>
    <3>1. len + Len(s) < size
      BY <2>1, <2>2 DEF Required
    <3>2. /\ data' \in [0 .. size' - 1 -> Memory] /\ len' \in Nat /\ len' < size'
          /\ data'[len'] = NUL /\ result' = "ok" /\ torn' = FALSE
      BY <2>1, <2>2, <3>1, StoreKeeps
    <3> QED BY <1>1, <2>2, <3>2 DEF AppendData, Idle, growVars
  <2>3. CASE StartGrowing("append", Required(s), s) /\ UNCHANGED <<data, torn>>
    BY <1>m, <2>1, <2>3 DEF StartGrowing, Required
  <2> QED BY <1>1, <2>2, <2>3 DEF AppendData
<1>2. ASSUME NEW s \in Strings, Printf(s) PROVE BufferInv'
  <2>1. s \in Seq(Byte) /\ Len(s) \in Nat
    BY <1>m, LenProperties
  <2>2. CASE Len(s) < size - len /\ Store(data, s) /\ UNCHANGED <<size, growVars>>
    <3>1. len + Len(s) < size
      BY <2>1, <2>2
    <3>2. /\ data' \in [0 .. size' - 1 -> Memory] /\ len' \in Nat /\ len' < size'
          /\ data'[len'] = NUL /\ result' = "ok" /\ torn' = FALSE
      BY <2>1, <2>2, <3>1, StoreKeeps
    <3> QED BY <1>2, <2>2, <3>2 DEF Printf, Idle, growVars
  <2>3. CASE /\ Len(s) >= size - len
             /\ data' = Written(data, len, SubSeq(s, 1, size - len - 1))
             /\ torn' = TRUE
             /\ StartGrowing("append", Required(s), s)
    <3>1. SubSeq(s, 1, size - len - 1) \in Seq(Byte)
      BY <2>1, <2>3, SubSeqProperties
    <3>2. data' \in [0 .. size - 1 -> Memory]
      BY <2>3, <3>1, WrittenType
    <3> QED BY <1>m, <2>1, <2>3, <3>2 DEF StartGrowing, Required
  <2> QED BY <1>2, <2>2, <2>3 DEF Printf
<1>3. ASSUME NEW n \in Sizes, EnsureSize(n) PROVE BufferInv'
  BY <1>3, <1>m, <1>e DEF EnsureSize, StartGrowing
<1>4. ASSUME NEW n \in Sizes, Reset(n) PROVE BufferInv'
  <2>1. size' \in Nat /\ size' > 0
    BY <1>4, <1>m DEF Reset, InitialSize, AtLeast
  <2>2. Moved(data, size') \in [0 .. size' - 1 -> Memory]
    BY <2>1, MovedContents
  <2>3. data' \in [0 .. size' - 1 -> Memory] /\ data'[0] = NUL
    BY <1>4, <2>1, <2>2, EmptiedContents, SMTT(30) DEF Reset
  <2> QED BY <1>4, <2>1, <2>3 DEF Reset, growVars, Idle
<1>5. CASE Double
  BY <1>5 DEF Double, bufferVars, Idle
<1>6. CASE Realloc
  <2>1. new_size \in Nat /\ required_size <= new_size
    BY <1>6 DEF Realloc, Grown
  <2>2. /\ Moved(data, new_size) \in [0 .. new_size - 1 -> Memory]
        /\ \A j \in 0 .. new_size - 1 : j < size => Moved(data, new_size)[j] = data[j]
    BY <2>1, MovedContents
  <2>3. CASE growing = "append"
    <3>1. Len(adding) \in Nat /\ len + Len(adding) < new_size
      BY <2>1, <2>3, LenProperties
    <3>2. Store(Moved(data, new_size), adding) /\ size' = new_size
      BY <1>6, <2>3 DEF Realloc
    <3>3. /\ data' \in [0 .. size' - 1 -> Memory] /\ len' \in Nat /\ len' < size'
          /\ data'[len'] = NUL /\ result' = "ok" /\ torn' = FALSE
      BY <2>1, <2>2, <3>1, <3>2, StoreKeeps
    <3> QED BY <1>6, <1>e, <2>1, <3>3 DEF Realloc, StopGrowing
  <2>4. CASE growing # "append"
    <3>1. /\ size' = new_size /\ data' = Moved(data, new_size)
          /\ UNCHANGED <<len, result, torn>>
      BY <1>6, <2>4 DEF Realloc
    <3>2. size < new_size
      BY <1>6, <2>1, <2>4 DEF Realloc, Grown, Idle
    <3>3. len \in 0 .. new_size - 1 /\ data'[len'] = data[len]
      BY <2>2, <3>1, <3>2
    <3> QED BY <1>6, <1>e, <2>1, <2>2, <3>1, <3>2, <3>3 DEF Realloc, StopGrowing
  <2> QED BY <2>3, <2>4
<1>7. CASE ReallocFails
  BY <1>7, <1>e DEF ReallocFails, StopGrowing, bufferVars
<1>8. CASE Clear
  <2>1. data' \in [0 .. size - 1 -> Memory] /\ data'[0] = NUL
    BY <1>8, EmptiedContents DEF Clear
  <2> QED BY <1>8, <2>1 DEF Clear, growVars, Idle
<1>9. CASE UNCHANGED dbVars
  BY <1>9 DEF dbVars, bufferVars, growVars
<1> QED BY <1>1, <1>2, <1>3, <1>4, <1>5, <1>6, <1>7, <1>8, <1>9 DEF DBNext

\* The invariant holds: types, the room for the NUL, the end of the string.
THEOREM BufferInvariant == DBSpec => []BufferInv
BY InitOK, NextOK, PTL DEF DBSpec

----------------------------------------------------------------------------
(* The string                                                              *)

\* Behind memory that was written, a text and its NUL end a string.
LEMMA WrittenEnds ==
  ASSUME NEW n \in Nat, NEW d \in [0 .. n - 1 -> Memory], NEW at \in Nat,
         NEW s \in Seq(Byte), at + Len(s) < n, \A j \in 0 .. at - 1 : d[j] # Junk
  PROVE  /\ at + Len(s) \in at .. n - 1
         /\ Written(d, at, s)[at + Len(s)] = NUL
         /\ \A j \in 0 .. at + Len(s) - 1 : Written(d, at, s)[j] # Junk
<1>1. Len(s) \in Nat
  BY LenProperties
<1>2. ASSUME NEW j \in 0 .. at + Len(s) - 1 PROVE Written(d, at, s)[j] # Junk
  <2>1. CASE j < at
    <3>1. j + 1 \in 1 .. at /\ (j + 1) - 1 = j /\ j \in 0 .. at - 1
      BY <1>1, <2>1
    <3>2. Written(d, at, s)[j] = d[j]
      BY <3>1, WrittenContents
    <3> QED BY <3>1, <3>2
  <2>2. CASE j >= at
    <3>1. j + 1 \in at + 1 .. at + Len(s) /\ (j + 1) - 1 = j /\ j + 1 - at \in 1 .. Len(s)
      BY <1>1, <2>2
    <3>2. Written(d, at, s)[j] = s[j + 1 - at]
      BY <3>1, WrittenContents
    <3>3. s[j + 1 - at] \in Byte
      BY <3>1, ElementOfSeq
    <3> QED BY <3>2, <3>3, DynamicBufferAssumption
  <2> QED BY <1>1, <2>1, <2>2
<1>3. at + Len(s) \in at .. n - 1
  BY <1>1
<1> QED BY <1>2, <1>3, WrittenContents

\* What was written up to len is still written where it is stored.
LEMMA StoreEnds ==
  ASSUME NEW n \in Nat, NEW d \in [0 .. n - 1 -> Memory], NEW s \in Seq(Byte),
         len \in Nat, len + Len(s) < n, size' = n, Store(d, s),
         \A j \in 0 .. len - 1 : d[j] # Junk
  PROVE  StringEnds'
<1>1. data' = Written(d, len, s) /\ len' = len + Len(s)
  BY DEF Store
<1>2. Len(s) \in Nat
  BY LenProperties
<1>3. /\ len + Len(s) \in len .. n - 1
      /\ Written(d, len, s)[len + Len(s)] = NUL
      /\ \A j \in 0 .. len + Len(s) - 1 : Written(d, len, s)[j] # Junk
  BY WrittenEnds
<1>4. /\ len' \in len' .. size' - 1 /\ data'[len'] = NUL
      /\ \A j \in 0 .. len' - 1 : data'[j] # Junk
  BY <1>1, <1>2, <1>3, SMTT(30)
<1> QED BY <1>4 DEF StringEnds

\* Emptying leaves the empty string.
LEMMA EmptiedEnds ==
  ASSUME NEW n \in Nat \ {0}, NEW d \in [0 .. n - 1 -> Memory],
         data' = Emptied(d), len' = 0, size' = n
  PROVE  StringEnds'
<1>1. Emptied(d)[0] = NUL
  BY EmptiedContents
<1>2. 0 \in len' .. size' - 1 /\ data'[0] = NUL /\ \A j \in 0 .. 0 - 1 : data'[j] # Junk
  BY <1>1
<1> QED BY <1>2 DEF StringEnds

LEMMA StringInit == DBInit => StringEnds
<1> SUFFICES ASSUME DBInit PROVE StringEnds
  OBVIOUS
<1>1. size \in Nat /\ size > 0 /\ len = 0
  BY DynamicBufferAssumption DEF DBInit, InitialSize, AtLeast
<1>2. <<>> \in Seq(Byte) /\ Len(<<>>) = 0
  BY EmptySeq
<1>3. [j \in 0 .. size - 1 |-> Junk] \in [0 .. size - 1 -> Memory]
  BY DEF Memory
<1> DEFINE d == [j \in 0 .. size - 1 |-> Junk]
<1>4. data[0] = NUL
  <2>1. data = Written(d, 0, <<>>) /\ d \in [0 .. size - 1 -> Memory]
    BY <1>3 DEF DBInit
  <2> HIDE DEF d
  <2>2. 0 + Len(<<>>) = 0 /\ 0 \in Nat /\ 0 + Len(<<>>) < size
    BY <1>1, <1>2
  <2>3. Written(d, 0, <<>>)[0 + Len(<<>>)] = NUL
    BY <1>1, <1>2, <2>1, <2>2, WrittenContents
  <2> QED BY <2>1, <2>2, <2>3
<1>5. 0 \in len .. size - 1 /\ \A j \in 0 .. 0 - 1 : data[j] # Junk
  BY <1>1
<1> QED BY <1>4, <1>5 DEF StringEnds

\* Each operation keeps the string inside the buffer, a printf that is cut off
\* and cannot grow it among them.
LEMMA StringNext == BufferInv /\ StringEnds /\ [DBNext]_dbVars => StringEnds'
<1> SUFFICES ASSUME BufferInv, StringEnds, [DBNext]_dbVars PROVE StringEnds'
  OBVIOUS
<1>t. /\ len \in Nat /\ size \in Nat /\ len < size /\ new_size \in Nat
      /\ data \in [0 .. size - 1 -> Memory] /\ adding \in Seq(Byte)
  BY DEF BufferInv, DBTypeOK, WithinBuffer
<1>m. Sizes \subseteq Nat /\ Strings \subseteq Seq(Byte) /\ MIN_BUFFER_SIZE \in Nat \ {0}
  BY DynamicBufferAssumption
<1>p. PICK end \in len .. size - 1 :
        data[end] = NUL /\ \A j \in 0 .. end - 1 : data[j] # Junk
  BY DEF StringEnds
<1>w. \A j \in 0 .. len - 1 : data[j] # Junk
  BY <1>t, <1>p
<1>s. ASSUME UNCHANGED <<data, size, len>> PROVE StringEnds'
  BY <1>s DEF StringEnds
<1>1. ASSUME NEW s \in Strings, AppendData(s) PROVE StringEnds'
  <2>1. s \in Seq(Byte) /\ Len(s) \in Nat
    BY <1>m, LenProperties
  <2>2. CASE Required(s) <= size /\ Store(data, s) /\ UNCHANGED <<size, growVars>>
    <3>1. len + Len(s) < size /\ size' = size /\ Store(data, s)
      BY <1>t, <2>1, <2>2 DEF Required
    <3> QED BY <1>t, <1>w, <2>1, <3>1, StoreEnds
  <2>3. CASE StartGrowing("append", Required(s), s) /\ UNCHANGED <<data, torn>>
    BY <1>s, <2>3 DEF StartGrowing
  <2> QED BY <1>1, <2>2, <2>3 DEF AppendData
<1>2. ASSUME NEW s \in Strings, Printf(s) PROVE StringEnds'
  <2>1. s \in Seq(Byte) /\ Len(s) \in Nat
    BY <1>m, LenProperties
  <2>2. CASE Len(s) < size - len /\ Store(data, s) /\ UNCHANGED <<size, growVars>>
    <3>1. len + Len(s) < size /\ size' = size /\ Store(data, s)
      BY <1>t, <2>1, <2>2
    <3> QED BY <1>t, <1>w, <2>1, <3>1, StoreEnds
  <2>3. CASE /\ Len(s) >= size - len
             /\ data' = Written(data, len, SubSeq(s, 1, size - len - 1))
             /\ torn' = TRUE
             /\ StartGrowing("append", Required(s), s)
    <3>1. /\ SubSeq(s, 1, size - len - 1) \in Seq(Byte)
          /\ Len(SubSeq(s, 1, size - len - 1)) = size - len - 1
      BY <1>t, <2>1, <2>3, SubSeqProperties
    <3>2. /\ size - 1 \in len .. size - 1 /\ data'[size - 1] = NUL
          /\ \A j \in 0 .. (size - 1) - 1 : data'[j] # Junk
      <4> DEFINE cut == SubSeq(s, 1, size - len - 1)
      <4>1. cut \in Seq(Byte) /\ len + Len(cut) = size - 1 /\ data' = Written(data, len, cut)
        BY <1>t, <2>3, <3>1
      <4> HIDE DEF cut
      <4>2. len + Len(cut) < size
        BY <1>t, <4>1
      <4>3. /\ len + Len(cut) \in len .. size - 1
            /\ Written(data, len, cut)[len + Len(cut)] = NUL
            /\ \A j \in 0 .. len + Len(cut) - 1 : Written(data, len, cut)[j] # Junk
        BY <1>t, <1>w, <4>1, <4>2, WrittenEnds
      <4>4. /\ size - 1 \in len .. size - 1 /\ data'[size - 1] = NUL
            /\ \A j \in 0 .. (size - 1) - 1 : data'[j] # Junk
        <5>1. data'[size - 1] = Written(data, len, cut)[len + Len(cut)]
          BY <4>1
        <5>2. size - 1 \in len .. size - 1
          BY <4>1, <4>3
        <5>3. 0 .. len + Len(cut) - 1 = 0 .. (size - 1) - 1
          <6>1. Len(cut) \in Nat
            BY <4>1, LenProperties
          <6>2. len + Len(cut) - 1 = (size - 1) - 1
            BY <1>t, <4>1, <6>1
          <6> QED BY <6>2
        <5> QED BY <4>1, <4>3, <5>1, <5>2, <5>3
      <4> QED BY <4>4
    <3> QED BY <2>3, <3>2 DEF StartGrowing, StringEnds
  <2> QED BY <1>2, <2>2, <2>3 DEF Printf
<1>3. ASSUME NEW n \in Sizes, EnsureSize(n) PROVE StringEnds'
  BY <1>s, <1>3 DEF EnsureSize, StartGrowing
<1>4. ASSUME NEW n \in Sizes, Reset(n) PROVE StringEnds'
  <2>1. size' \in Nat \ {0}
    BY <1>4, <1>m, <1>t DEF Reset, InitialSize, AtLeast
  <2>2. Moved(data, size') \in [0 .. size' - 1 -> Memory]
    BY <1>t, <2>1, MovedContents
  <2> QED BY <1>4, <2>1, <2>2, EmptiedEnds DEF Reset
<1>5. CASE Double
  BY <1>s, <1>5 DEF Double, bufferVars
<1>6. CASE Realloc
  <2>1. required_size \in Nat /\ required_size <= new_size
    BY <1>6 DEF Realloc, Grown, BufferInv, DBTypeOK
  <2>2. /\ Moved(data, new_size) \in [0 .. new_size - 1 -> Memory]
        /\ \A j \in 0 .. new_size - 1 : j < size => Moved(data, new_size)[j] = data[j]
    BY <1>t, MovedContents
  <2>3. CASE growing = "append"
    <3>1. Len(adding) \in Nat /\ len + Len(adding) < new_size
      BY <1>t, <2>1, <2>3, LenProperties DEF BufferInv, GrowthOwed
    <3>2. Store(Moved(data, new_size), adding) /\ size' = new_size
      BY <1>6, <2>3 DEF Realloc
    <3>3. \A j \in 0 .. len - 1 : Moved(data, new_size)[j] # Junk
      BY <1>t, <1>w, <2>2, <3>1
    <3> QED BY <1>t, <2>2, <3>1, <3>2, <3>3, StoreEnds
  <2>4. CASE growing # "append"
    <3>1. size' = new_size /\ data' = Moved(data, new_size) /\ len' = len
      BY <1>6, <2>4 DEF Realloc
    <3>2. size < new_size
      BY <1>6, <1>t, <2>1, <2>4 DEF Realloc, Grown, Idle, BufferInv, DBTypeOK, GrowthOwed
    <3>3. end \in len' .. size' - 1 /\ \A j \in 0 .. end : data'[j] = data[j]
      BY <1>t, <2>2, <3>1, <3>2
    <3>4. data'[end] = NUL /\ \A j \in 0 .. end - 1 : data'[j] # Junk
      BY <1>t, <1>p, <3>3
    <3> QED BY <3>3, <3>4 DEF StringEnds
  <2> QED BY <2>3, <2>4
<1>7. CASE ReallocFails
  BY <1>s, <1>7 DEF ReallocFails, bufferVars
<1>8. CASE Clear
  BY <1>8, <1>t, EmptiedEnds DEF Clear
<1>9. CASE UNCHANGED dbVars
  BY <1>s, <1>9 DEF dbVars, bufferVars
<1> QED BY <1>1, <1>2, <1>3, <1>4, <1>5, <1>6, <1>7, <1>8, <1>9 DEF DBNext

\* What is stored fits into what is allocated, the string ends with the text
\* unless a printf could not grow the buffer, and it always ends inside the
\* buffer, before any byte that was never written.
THEOREM BufferStaysConsistent == DBSpec => []BufferConsistent
<1>1. BufferInv /\ StringEnds => BufferConsistent
  BY DEF BufferInv, BufferConsistent
<1>2. DBSpec => []StringEnds
  BY BufferInvariant, StringInit, StringNext, PTL DEF DBSpec
<1> QED BY <1>1, <1>2, BufferInvariant, PTL

----------------------------------------------------------------------------
(* The refinement                                                          *)

LEMMA ContentsType ==
  ASSUME BufferInv
  PROVE  Contents \in Seq(Memory) /\ Len(Contents) = len
<1>1. \A j \in 1 .. len : data[j - 1] \in Memory
  BY DEF BufferInv, DBTypeOK, WithinBuffer
<1> QED BY <1>1, IsASeq DEF Contents, BufferInv, DBTypeOK

\* Storing a text behind the contents appends it.
LEMMA StorePuts ==
  ASSUME BufferInv, NEW n \in Nat, NEW d \in [0 .. n - 1 -> Memory],
         \A j \in 0 .. len - 1 : d[j] = data[j],
         NEW s \in Seq(Byte), len + Len(s) < n, Store(d, s)
  PROVE  Contents' = Contents \o s
<1>1. len \in Nat /\ Len(s) \in Nat /\ len' = len + Len(s)
  BY LenProperties DEF Store, BufferInv, DBTypeOK
<1>2. /\ \A j \in 1 .. len : data'[j - 1] = data[j - 1]
      /\ \A j \in len + 1 .. len + Len(s) : data'[j - 1] = s[j - len]
  <2>1. data' = Written(d, len, s)
    BY DEF Store
  <2>2. \A j \in 1 .. len : data'[j - 1] = d[j - 1]
    BY <1>1, <2>1, WrittenContents, ZenonT(40)
  <2>2a. \A j \in 1 .. len : d[j - 1] = data[j - 1]
    <3>1. \A j \in 1 .. len : j - 1 \in 0 .. len - 1
      BY <1>1
    <3> QED BY <3>1
  <2>3. \A j \in len + 1 .. len + Len(s) : data'[j - 1] = s[j - len]
    BY <1>1, <2>1, WrittenContents
  <2> QED BY <2>2, <2>2a, <2>3
<1>3. Contents' = [j \in 1 .. len + Len(s) |-> data'[j - 1]]
  BY <1>1 DEF Contents
<1>4. Contents \in Seq(Memory) /\ Len(Contents) = len /\ s \in Seq(Memory)
  BY ContentsType DEF Memory
<1>5. /\ Contents \o s \in Seq(Memory)
      /\ Len(Contents \o s) = len + Len(s)
      /\ \A j \in 1 .. len + Len(s) :
           (Contents \o s)[j] = IF j <= len THEN Contents[j] ELSE s[j - len]
  BY <1>4, ConcatProperties
<1>6. \A j \in 1 .. len + Len(s) : data'[j - 1] = (Contents \o s)[j]
  <2> SUFFICES ASSUME NEW j \in 1 .. len + Len(s)
               PROVE  data'[j - 1] = (Contents \o s)[j]
    OBVIOUS
  <2>1. CASE j <= len
    <3>1. j \in 1 .. len
      BY <1>1, <2>1
    <3>2. (Contents \o s)[j] = Contents[j]
      BY <1>5, <2>1
    <3>3. Contents[j] = data[j - 1]
      BY <3>1 DEF Contents
    <3> QED BY <1>2, <3>1, <3>2, <3>3
  <2>2. CASE j > len
    <3>1. j \in len + 1 .. len + Len(s)
      BY <1>1, <2>2
    <3>2. (Contents \o s)[j] = s[j - len]
      BY <1>1, <1>5, <2>2
    <3>3. data'[j - 1] = s[j - len]
      <4>1. \A k \in len + 1 .. len + Len(s) : data'[k - 1] = s[k - len]
        BY <1>2
      <4> QED BY <3>1, <4>1, Zenon
    <3> QED BY <3>2, <3>3
  <2>3. j <= len \/ j > len
    BY <1>1
  <2> QED BY <2>1, <2>2, <2>3, Zenon
<1>7. Contents \o s = [j \in 1 .. len + Len(s) |-> (Contents \o s)[j]]
  BY <1>5, LenProperties
<1> QED BY <1>3, <1>6, <1>7

LEMMA SameContents ==
  ASSUME len' = len, len \in Nat, \A j \in 0 .. len - 1 : data'[j] = data[j]
  PROVE  Contents' = Contents
BY DEF Contents

LEMMA InitRefines == DBInit => Text!Init
<1> SUFFICES ASSUME DBInit PROVE Text!Init
  OBVIOUS
<1>1. Contents = <<>>
  BY DEF DBInit, Contents
<1> QED BY <1>1 DEF DBInit, Text!Init

LEMMA NextRefines ==
  BufferInv /\ [DBNext]_dbVars => [Text!Next]_Text!textVars
<1> SUFFICES ASSUME BufferInv, [DBNext]_dbVars
             PROVE  Text!Next \/ (Contents' = Contents /\ result' = result)
  BY DEF Text!textVars
<1>t. /\ len \in Nat /\ size \in Nat /\ len < size
      /\ data \in [0 .. size - 1 -> Memory]
  BY DEF BufferInv, DBTypeOK, WithinBuffer
<1>m. Sizes \subseteq Nat /\ Strings \subseteq Seq(Byte)
  BY DynamicBufferAssumption
<1>p. ASSUME NEW s \in Strings, Contents' = Contents \o s, result' = "ok"
      PROVE  Text!Next
  BY <1>p DEF Text!Next, Text!Put
<1>1. ASSUME NEW s \in Strings, AppendData(s)
      PROVE  Text!Next \/ (Contents' = Contents /\ result' = result)
  <2>1. CASE Required(s) <= size /\ Store(data, s)
    <3>1. s \in Seq(Byte) /\ Len(s) \in Nat
      BY <1>m, LenProperties
    <3>2. len + Len(s) < size
      BY <1>t, <2>1, <3>1 DEF Required
    <3>3. Contents' = Contents \o s
      BY <1>t, <2>1, <3>1, <3>2, StorePuts
    <3> QED BY <1>p, <2>1, <3>3 DEF Store
  <2>2. CASE StartGrowing("append", Required(s), s) /\ UNCHANGED <<data, torn>>
    BY <1>t, <2>2, SameContents DEF StartGrowing
  <2> QED BY <1>1, <2>1, <2>2 DEF AppendData
<1>2. ASSUME NEW s \in Strings, Printf(s)
      PROVE  Text!Next \/ (Contents' = Contents /\ result' = result)
  <2>0. s \in Seq(Byte) /\ Len(s) \in Nat
    BY <1>m, LenProperties
  <2>1. CASE Len(s) < size - len /\ Store(data, s)
    <3>1. len + Len(s) < size
      BY <1>t, <2>0, <2>1
    <3>2. Contents' = Contents \o s
      BY <1>t, <2>0, <2>1, <3>1, StorePuts
    <3> QED BY <1>p, <2>1, <3>2 DEF Store
  <2>2. CASE /\ Len(s) >= size - len
             /\ data' = Written(data, len, SubSeq(s, 1, size - len - 1))
             /\ StartGrowing("append", Required(s), s)
    <3>1. /\ SubSeq(s, 1, size - len - 1) \in Seq(Byte)
          /\ Len(SubSeq(s, 1, size - len - 1)) = size - len - 1
      BY <1>t, <2>0, <2>2, SubSeqProperties
    <3>2. len + Len(SubSeq(s, 1, size - len - 1)) < size
      BY <1>t, <3>1
    <3>3. \A j \in 1 .. len : data'[j - 1] = data[j - 1]
      BY <1>t, <2>2, <3>1, <3>2, WrittenContents, ZenonT(40)
    <3>4. len' = len /\ result' = result
      BY <2>2 DEF StartGrowing
    <3> QED BY <3>3, <3>4 DEF Contents
  <2> QED BY <1>2, <2>1, <2>2 DEF Printf
<1>3. ASSUME NEW n \in Sizes, EnsureSize(n)
      PROVE  Contents' = Contents /\ result' = result
  BY <1>3, <1>t, SameContents DEF EnsureSize, StartGrowing
<1>4. ASSUME NEW n \in Sizes, Reset(n) PROVE Text!Empty
  BY <1>4 DEF Reset, Text!Empty, Contents
<1>5. CASE Double
  BY <1>5, <1>t, SameContents DEF Double, bufferVars
<1>6. CASE Realloc
  <2>1. new_size \in Nat /\ required_size <= new_size
    BY <1>6 DEF Realloc, Grown, BufferInv, DBTypeOK
  <2>2. /\ Moved(data, new_size) \in [0 .. new_size - 1 -> Memory]
        /\ \A j \in 0 .. new_size - 1 : j < size => Moved(data, new_size)[j] = data[j]
    BY <1>t, <2>1, MovedContents
  <2>3. CASE growing = "append"
    <3>1. /\ adding \in Strings /\ adding \in Seq(Byte) /\ Len(adding) \in Nat
          /\ len + Len(adding) < new_size
      BY <2>1, <2>3, <1>t, LenProperties DEF BufferInv, DBTypeOK, GrowthOwed
    <3>2. \A j \in 0 .. len - 1 : Moved(data, new_size)[j] = data[j]
      BY <1>t, <2>1, <2>2, <3>1
    <3>3. Store(Moved(data, new_size), adding)
      BY <1>6, <2>3 DEF Realloc
    <3>4. Contents' = Contents \o adding
      BY <2>1, <2>2, <3>1, <3>2, <3>3, StorePuts
    <3> QED BY <1>p, <3>1, <3>3, <3>4 DEF Store
  <2>4. CASE growing # "append"
    <3>1. data' = Moved(data, new_size) /\ len' = len /\ result' = result
      BY <1>6, <2>4 DEF Realloc
    <3>2. size < new_size
      BY <1>6, <1>t, <2>1, <2>4
      DEF Realloc, Grown, Idle, BufferInv, DBTypeOK, GrowthOwed
    <3>3. \A j \in 0 .. len - 1 : data'[j] = data[j]
      BY <1>t, <2>1, <2>2, <3>1, <3>2
    <3> QED BY <1>t, <3>1, <3>3, SameContents
  <2> QED BY <2>3, <2>4
<1>7. CASE ReallocFails
  <2>1. Contents' = Contents /\ (result' = "failed" \/ result' = result)
    BY <1>7, <1>t, SameContents DEF ReallocFails, bufferVars
  <2> QED BY <2>1 DEF Text!Next, Text!Refuse
<1>8. CASE Clear
  <2>1. Text!Empty
    BY <1>8 DEF Clear, Text!Empty, Contents
  <2> QED BY <2>1 DEF Text!Next
<1>9. CASE UNCHANGED dbVars
  BY <1>9, <1>t, SameContents DEF dbVars, bufferVars
<1> QED BY <1>1, <1>2, <1>3, <1>4, <1>5, <1>6, <1>7, <1>8, <1>9
        DEF DBNext, Text!Next

\* The buffer implements the sequence of bytes its header promises.
THEOREM BufferImplementsText == DBSpec => IsByteBuffer
BY BufferInvariant, InitRefines, NextRefines, PTL
DEF DBSpec, IsByteBuffer, Text!Spec

----------------------------------------------------------------------------
(* The memory of the text view                                             *)

\* The capacity on record is that of the memory, and the text has its NUL.
TextViewInv ==
  /\ content_len \in Nat /\ content_cap \in Nat \ {0}
  /\ allocated = content_cap
  /\ content_len < allocated

\* The inductive invariant of the text view.
THEOREM TextViewInvariant == TVSpec => []TextViewInv
<1>1. TVInit => TextViewInv
  BY TextViewAssumption DEF TVInit, TextViewInv
<1>2. TextViewInv /\ [TVNext]_tvVars => TextViewInv'
  <2> SUFFICES ASSUME TextViewInv, [TVNext]_tvVars PROVE TextViewInv'
    OBVIOUS
  <2>1. ASSUME NEW n \in Lengths, AppendText(n) PROVE TextViewInv'
    <3>1. n \in Nat \ {0} /\ TextNeeds(n) \in Nat /\ content_len' = content_len + n
      BY <2>1, TextViewAssumption DEF TextViewInv, AppendText, TextNeeds
    <3>2. CASE content_cap >= TextNeeds(n) /\ UNCHANGED <<content_cap, allocated>>
      BY <3>1, <3>2 DEF TextViewInv, TextNeeds
    <3>3. CASE /\ content_cap' = Doubled(content_cap, TextNeeds(n))
               /\ allocated' = content_cap'
      <4>1. content_cap' \in Nat /\ content_cap' >= TextNeeds(n)
        BY <3>1, <3>3, DoubledHolds DEF TextViewInv
      <4> QED
        BY <3>1, <3>3, <4>1 DEF TextViewInv, TextNeeds
    <3> QED
      BY <2>1, <3>2, <3>3 DEF AppendText
  <2>2. ASSUME NEW n \in Lengths, AppendTextFails(n) PROVE TextViewInv'
    BY <2>2 DEF AppendTextFails, tvVars, TextViewInv
  <2>3. CASE ClearText
    BY <2>3 DEF ClearText, TextViewInv
  <2>4. CASE UNCHANGED tvVars
    BY <2>4 DEF tvVars, TextViewInv
  <2> QED
    BY <2>1, <2>2, <2>3, <2>4 DEF TVNext
<1> QED
  BY <1>1, <1>2, PTL DEF TVSpec

\* The text and its NUL are inside the memory that was really obtained, for
\* every sequence of texts, clears and failing reallocations, and for every
\* initial capacity (textview.c: ensure_capacity).
THEOREM TextViewStaysInMemory == TVSpec => []TVWithinMemory
<1>1. TextViewInv => TVWithinMemory
  BY DEF TextViewInv, TVWithinMemory
<1> QED
  BY <1>1, TextViewInvariant, PTL

----------------------------------------------------------------------------
(* The escape sequences                                                    *)

Octet == 0 .. 255
Kind == {"fixed", "digit", "code", "pad", "end", "nul"}

\* What is already known of the buffer between the first byte and the last.
Encoding ==
  /\ asked = <<>>
  /\ buf_size >= Needed(Len(text))
  /\ SubSeq(buf, 1, 7) = Prefix

EscapeInv ==
  /\ pc \in {"idle", "groups", "suffix", "done"}
  /\ text \in Seq(Octet) /\ buf_size \in Nat /\ buf \in Seq(Token) /\ asked \in Seq(Token)
  /\ Len(buf) <= buf_size
  /\ pc = "idle" => i = 0 /\ asked = <<>> /\ buf = <<>>
  /\ pc = "groups" =>
       /\ Encoding
       /\ \E g \in Nat : i = 3 * g /\ 3 * g <= Len(text) /\ Len(buf) = 7 + 4 * g
  /\ pc = "suffix" => Encoding /\ Len(buf) = 7 + EncodedLen(Len(text))
  /\ pc = "done" => EnoughIsWritten

-----------------------------------------------------------------------------
(* Tokens and their sequences *)

\* A run of one token.
LEMMA TimesProperties ==
  ASSUME NEW kind \in Kind, NEW n \in Nat
  PROVE  /\ Times(kind, n) \in Seq(Token)
         /\ Len(Times(kind, n)) = n
         /\ \A k \in 1 .. n : Times(kind, n)[k] = <<kind, 0>>
<1>1. <<kind, 0>> \in Token
  BY DEF Token, Kind
<1>2. Times(kind, n) \in [1 .. n -> Token]
  BY <1>1 DEF Times
<1> QED BY <1>2, LenProperties, SeqDef DEF Times

LEMMA FixedParts ==
  /\ Prefix \in Seq(Token) /\ Len(Prefix) = 7
  /\ ST \in Seq(Token) /\ Len(ST) = 2
  /\ Nul \in Seq(Token) /\ Len(Nul) = 1
<1>1. "fixed" \in Kind /\ "end" \in Kind /\ <<"nul", 0>> \in Token
  BY DEF Kind, Token
<1>2. Nul \in Seq(Token) /\ Len(Nul) = 1
  BY <1>1 DEF Nul
<1> QED BY <1>1, <1>2, TimesProperties DEF Prefix, ST

\* Masked to six bits, every digit is a token.
LEMMA CodeType ==
  ASSUME NEW v \in Nat, NEW unit \in {1, 64, 4096, 262144}
  PROVE  Code(v, unit) \in Token
<1>1. v \div unit \in Nat
  OBVIOUS
<1>2. (v \div unit) % 64 \in 0 .. 255
  BY <1>1
<1> QED BY <1>2 DEF Code, Token

\* Three bytes become four tokens.
LEMMA GroupType ==
  ASSUME NEW a \in Octet, NEW b \in Octet, NEW c \in Octet
  PROVE  Group(a, b, c) \in Seq(Token) /\ Len(Group(a, b, c)) = 4
<1> DEFINE v == a * 65536 + b * 256 + c
<1>1. v \in Nat
  BY DEF Octet
<1>2. /\ Code(v, 262144) \in Token /\ Code(v, 4096) \in Token
      /\ Code(v, 64) \in Token /\ Code(v, 1) \in Token
  BY <1>1, CodeType
<1> HIDE DEF v
<1>3. /\ <<Code(v, 262144), Code(v, 4096), Code(v, 64), Code(v, 1)>> \in Seq(Token)
      /\ Len(<<Code(v, 262144), Code(v, 4096), Code(v, 64), Code(v, 1)>>) = 4
  BY <1>2
<1> QED BY <1>3 DEF Group, v

\* The beginning of a sequence of tokens.
LEMMA Beginning ==
  ASSUME NEW s \in Seq(Token), NEW n \in 0 .. Len(s), NEW r, r = SubSeq(s, 1, n)
  PROVE  r \in Seq(Token) /\ Len(r) = n
<1>1. Len(s) \in Nat /\ n \in Int
  BY LenProperties
<1>2. \A k \in 1 .. n : s[k] \in Token
  BY <1>1, ElementOfSeq
<1>3. SubSeq(s, 1, n) \in Seq(Token) /\ Len(SubSeq(s, 1, n)) = n
  BY <1>1, <1>2, SubSeqProperties
<1> QED BY <1>3, Zenon

\* The end of a text.
LEMMA Ending ==
  ASSUME NEW s \in Seq(Octet), NEW m \in 0 .. Len(s), NEW r, r = SubSeq(s, m + 1, Len(s))
  PROVE  r \in Seq(Octet) /\ Len(r) = Len(s) - m
<1>1. Len(s) \in Nat /\ m \in Int /\ m + 1 \in Int /\ Len(s) \in Int
  BY LenProperties
<1>2. \A k \in m + 1 .. Len(s) : s[k] \in Octet
  BY <1>1, ElementOfSeq
<1>3. /\ SubSeq(s, m + 1, Len(s)) \in Seq(Octet)
      /\ Len(SubSeq(s, m + 1, Len(s))) = IF m + 1 <= Len(s) THEN Len(s) - (m + 1) + 1 ELSE 0
  BY <1>1, <1>2, SubSeqProperties
<1>4. r \in Seq(Octet) /\ Len(r) = IF m + 1 <= Len(s) THEN Len(s) - (m + 1) + 1 ELSE 0
  BY <1>3, Zenon
<1> QED BY <1>1, <1>4

\* Writing after what is written.
LEMMA Appended ==
  ASSUME NEW s \in Seq(Token), NEW t \in Seq(Token), NEW r, r = s \o t
  PROVE  r \in Seq(Token) /\ Len(r) = Len(s) + Len(t)
BY ConcatProperties

\* What is written after s follows its bytes.
LEMMA WrittenAfter ==
  ASSUME NEW s \in Seq(Token), NEW t \in Seq(Token), NEW r, r = s \o t,
         NEW j \in 1 .. Len(t)
  PROVE  r[Len(s) + j] = t[j]
<1>1. Len(s) \in Nat /\ Len(t) \in Nat
  BY LenProperties
<1>2. (s \o t)[Len(s) + j] = t[j]
  <2>1. \A k \in 1 .. Len(s) + Len(t) :
          (s \o t)[k] = IF k <= Len(s) THEN s[k] ELSE t[k - Len(s)]
    BY ConcatProperties
  <2>2. /\ Len(s) + j \in 1 .. Len(s) + Len(t) /\ ~ (Len(s) + j <= Len(s))
        /\ Len(s) + j - Len(s) = j
    BY <1>1
  <2> QED BY <2>1, <2>2
<1> QED BY <1>2, Zenon

\* Two neighbours of a sequence.
LEMMA TwoTokens ==
  ASSUME NEW s, NEW m \in Nat, s[m] \in Token, s[m + 1] \in Token,
         NEW r, r = SubSeq(s, m, m + 1)
  PROVE  r \in Seq(Token) /\ Len(r) = 2 /\ r[1] = s[m] /\ r[2] = s[m + 1]
<1>1. \A k \in m .. m + 1 : s[k] \in Token
  <2>1. \A k \in m .. m + 1 : k = m \/ k = m + 1
    OBVIOUS
  <2> QED BY <2>1
<1>2. m \in Int /\ m + 1 \in Int /\ m <= m + 1 /\ m + 1 - m + 1 = 2
  OBVIOUS
<1>3. /\ SubSeq(s, m, m + 1) \in Seq(Token) /\ Len(SubSeq(s, m, m + 1)) = 2
      /\ \A k \in 1 .. 2 : SubSeq(s, m, m + 1)[k] = s[m + k - 1]
  BY <1>1, <1>2, SubSeqProperties
<1>4. m + 1 - 1 = m /\ m + 2 - 1 = m + 1 /\ 1 \in 1 .. 2 /\ 2 \in 1 .. 2
  OBVIOUS
<1> QED BY <1>3, <1>4, Zenon

\* One or two bytes become four tokens as well, and none becomes none.
LEMMA RestType ==
  ASSUME NEW s \in Seq(Octet), Len(s) \in 0 .. 2
  PROVE  Rest(s) \in Seq(Token) /\ Len(Rest(s)) = IF Len(s) = 0 THEN 0 ELSE 4
<1>p. "pad" \in Kind /\ 0 \in Octet
  BY DEF Kind, Octet
<1>1. CASE Len(s) = 0
  BY <1>1 DEF Rest
<1>2. CASE Len(s) = 1
  <2>1. s[1] \in Octet
    BY <1>2, ElementOfSeq
  <2>2. PICK four \in Seq(Token) : four = Group(s[1], 0, 0) /\ Len(four) = 4
    BY <1>p, <2>1, GroupType
  <2>3. PICK codes \in Seq(Token) : codes = SubSeq(Group(s[1], 0, 0), 1, 2) /\ Len(codes) = 2
    <3>0. Len(four) = 4
      BY <2>2, Zenon
    <3>1. PICK m \in 0 .. Len(four) : m = 2
      BY <3>0
    <3>2. PICK codes \in Seq(Token) : codes = SubSeq(four, 1, m) /\ Len(codes) = m
      BY <3>1, Beginning, Zenon
    <3> QED BY <2>2, <3>1, <3>2, Zenon
  <2>4. PICK pads \in Seq(Token) : pads = Times("pad", 2) /\ Len(pads) = 2
    BY <1>p, TimesProperties
  <2>5. Rest(s) = codes \o pads
    BY <1>2, <2>3, <2>4 DEF Rest
  <2>6. Rest(s) \in Seq(Token) /\ Len(Rest(s)) = Len(codes) + Len(pads)
    BY <2>5, Appended, Zenon
  <2> QED BY <1>2, <2>3, <2>4, <2>6
<1>3. CASE Len(s) = 2
  <2>1. s[1] \in Octet /\ s[2] \in Octet
    <3>1. s \in Seq(Octet) /\ 1 \in 1 .. Len(s) /\ 2 \in 1 .. Len(s)
      BY <1>3
    <3> QED
      BY <3>1, ElementOfSeq
  <2>2. PICK four \in Seq(Token) : four = Group(s[1], s[2], 0) /\ Len(four) = 4
    BY <1>p, <2>1, GroupType
  <2>3. PICK codes \in Seq(Token) : codes = SubSeq(Group(s[1], s[2], 0), 1, 3) /\ Len(codes) = 3
    <3>0. Len(four) = 4
      BY <2>2, Zenon
    <3>1. PICK m \in 0 .. Len(four) : m = 3
      BY <3>0
    <3>2. PICK codes \in Seq(Token) : codes = SubSeq(four, 1, m) /\ Len(codes) = m
      BY <3>1, Beginning, Zenon
    <3> QED BY <2>2, <3>1, <3>2, Zenon
  <2>4. PICK pads \in Seq(Token) : pads = Times("pad", 1) /\ Len(pads) = 1
    BY <1>p, TimesProperties
  <2>5. Rest(s) = codes \o pads
    BY <1>3, <2>3, <2>4 DEF Rest
  <2>6. Rest(s) \in Seq(Token) /\ Len(Rest(s)) = Len(codes) + Len(pads)
    BY <2>5, Appended, Zenon
  <2> QED BY <1>3, <2>3, <2>4, <2>6
<1> QED BY <1>1, <1>2, <1>3

\* The length computed beforehand is the one the loop arrives at.
LEMMA EncodedLength ==
  ASSUME NEW g \in Nat
  PROVE  /\ EncodedLen(3 * g) = 4 * g
         /\ EncodedLen(3 * g + 1) = 4 * g + 4
         /\ EncodedLen(3 * g + 2) = 4 * g + 4
BY DEF EncodedLen

LEMMA EncodedLenType ==
  ASSUME NEW n \in Nat
  PROVE  EncodedLen(n) \in Nat /\ Needed(n) = 9 + EncodedLen(n)
BY FixedParts DEF EncodedLen, Needed

\* Writing on keeps what has been written.
LEMMA KeepsPrefix ==
  ASSUME NEW s \in Seq(Token), NEW t \in Seq(Token), Len(s) >= 7,
         SubSeq(s, 1, 7) = Prefix, NEW r, r = s \o t
  PROVE  SubSeq(r, 1, 7) = Prefix
<1>1. /\ s \o t \in Seq(Token)
      /\ Len(s \o t) = Len(s) + Len(t)
      /\ \A k \in 1 .. 7 : (s \o t)[k] = s[k]
  BY ConcatProperties, LenProperties, SMTT(30)
<1>2. \A k \in 1 .. 7 : s[k] \in Token /\ (s \o t)[k] \in Token
  BY <1>1, ElementOfSeq, LenProperties
<1>3. /\ SubSeq(s, 1, 7) \in Seq(Token) /\ Len(SubSeq(s, 1, 7)) = 7
      /\ \A k \in 1 .. 7 : SubSeq(s, 1, 7)[k] = s[k]
  BY <1>2, SubSeqProperties
<1>4. /\ SubSeq(s \o t, 1, 7) \in Seq(Token) /\ Len(SubSeq(s \o t, 1, 7)) = 7
      /\ \A k \in 1 .. 7 : SubSeq(s \o t, 1, 7)[k] = (s \o t)[k]
  BY <1>2, SubSeqProperties
<1>5. SubSeq(s \o t, 1, 7) = SubSeq(s, 1, 7)
  BY <1>1, <1>3, <1>4, SeqEqual
<1> QED BY <1>5

-----------------------------------------------------------------------------
(* The invariant                                                           *)

LEMMA InitEstablishes == EOInit => EscapeInv
BY DEF EOInit, EscapeInv

\* The size is checked once, before the first byte.
LEMMA FormatOsc52Keeps ==
  ASSUME EscapeInv, NEW t \in Seq(Octet), NEW n \in Nat, FormatOsc52(t, n)
  PROVE  EscapeInv'
<1>1. pc = "idle" /\ i' = i /\ i = 0 /\ asked' = asked /\ asked = <<>>
  BY DEF FormatOsc52, EscapeInv
<1>2. Len(t) \in Nat /\ EncodedLen(Len(t)) \in Nat /\ Needed(Len(t)) = 9 + EncodedLen(Len(t))
  BY LenProperties, EncodedLenType
<1>3. CASE n < Needed(Len(t))
  <2>1. pc' = "done" /\ buf' = buf /\ text' = t /\ buf_size' = n
    BY <1>3 DEF FormatOsc52
  <2>2. EnoughIsWritten'
    BY <1>2, <1>3, <2>1 DEF EnoughIsWritten
  <2>3. buf = <<>> /\ Len(buf) = 0
    BY <1>1 DEF EscapeInv
  <2> QED BY <1>1, <2>1, <2>2, <2>3 DEF EscapeInv
<1>4. CASE ~ (n < Needed(Len(t)))
  <2>1. pc' = "groups" /\ buf' = Prefix /\ text' = t /\ buf_size' = n
    BY <1>4 DEF FormatOsc52
  <2>2. SubSeq(Prefix, 1, 7) = Prefix
    <3>1. \A k \in 1 .. 7 : Prefix[k] \in Token
      BY FixedParts, ElementOfSeq
    <3>2. /\ SubSeq(Prefix, 1, 7) \in Seq(Token) /\ Len(SubSeq(Prefix, 1, 7)) = 7
          /\ \A k \in 1 .. 7 : SubSeq(Prefix, 1, 7)[k] = Prefix[k]
      BY <3>1, SubSeqProperties
    <3> QED BY <3>2, FixedParts, SeqEqual
  <2>3. Encoding'
    BY <1>1, <1>2, <1>4, <2>1, <2>2 DEF Encoding
  <2>4. i' = 3 * 0 /\ 3 * 0 <= Len(text') /\ Len(buf') = 7 + 4 * 0 /\ 0 \in Nat
    BY <1>1, <1>2, <2>1, FixedParts
  <2>5. Len(buf') <= buf_size'
    BY <1>2, <1>4, <2>1, FixedParts
  <2> QED BY <1>1, <2>1, <2>3, <2>4, <2>5, FixedParts DEF EscapeInv
<1> QED BY <1>3, <1>4

\* Three bytes more are encoded, four tokens more are written, and there was
\* room for them.
LEMMA EncodeGroupKeeps ==
  ASSUME EscapeInv, EncodeGroup
  PROVE  EscapeInv'
<1>1. /\ pc = "groups" /\ pc' = pc /\ i + 3 <= Len(text)
      /\ text' = text /\ buf_size' = buf_size /\ asked' = asked /\ i' = i + 3
  BY DEF EncodeGroup, MoreGroups
<1>2. PICK g \in Nat : i = 3 * g /\ 3 * g <= Len(text) /\ Len(buf) = 7 + 4 * g
  BY <1>1 DEF EscapeInv
<1>3. Len(text) \in Nat /\ text \in Seq(Octet) /\ buf \in Seq(Token) /\ buf_size \in Nat
  BY LenProperties DEF EscapeInv
<1>4. asked = <<>> /\ buf_size >= Needed(Len(text)) /\ SubSeq(buf, 1, 7) = Prefix
  BY <1>1 DEF EscapeInv, Encoding
<1>5. PICK four \in Seq(Token) : buf' = buf \o four /\ Len(four) = 4
  <2>1. i + 1 \in 1 .. Len(text) /\ i + 2 \in 1 .. Len(text) /\ i + 3 \in 1 .. Len(text)
    BY <1>1, <1>2, <1>3
  <2>2. text[i + 1] \in Octet /\ text[i + 2] \in Octet /\ text[i + 3] \in Octet
    BY <1>3, <2>1, ElementOfSeq
  <2>3. buf' = buf \o Group(text[i + 1], text[i + 2], text[i + 3])
    BY DEF EncodeGroup
  <2> QED BY <2>2, <2>3, GroupType
<1>6. buf' \in Seq(Token) /\ Len(buf') = Len(buf) + Len(four)
  BY <1>3, <1>5, Appended
<1>7. Len(buf') = 7 + 4 * (g + 1)
  BY <1>2, <1>5, <1>6
<1>8. SubSeq(buf', 1, 7) = Prefix
  <2>1. Len(buf) >= 7
    BY <1>2
  <2> QED BY <1>3, <1>4, <1>5, <2>1, KeepsPrefix, Zenon
<1>9. EncodedLen(Len(text)) >= 4 * (g + 1)
  BY <1>1, <1>2, <1>3 DEF EncodedLen
<1>10. EncodedLen(Len(text)) \in Nat /\ Needed(Len(text)) = 9 + EncodedLen(Len(text))
  BY <1>3, EncodedLenType
<1>11. Len(buf') <= buf_size'
  BY <1>1, <1>3, <1>4, <1>7, <1>9, <1>10
<1>12. Encoding'
  BY <1>1, <1>4, <1>8 DEF Encoding
<1>13. g + 1 \in Nat /\ i' = 3 * (g + 1) /\ 3 * (g + 1) <= Len(text')
  BY <1>1, <1>2, <1>3
<1>14. /\ text' \in Seq(Octet) /\ buf_size' \in Nat /\ asked' \in Seq(Token)
  BY <1>1, <1>3 DEF EscapeInv
<1> QED BY <1>1, <1>6, <1>7, <1>11, <1>12, <1>13, <1>14 DEF EscapeInv

\* What is left over fills the length computed beforehand.
LEMMA EncodeRestKeeps ==
  ASSUME EscapeInv, EncodeRest
  PROVE  EscapeInv'
<1>1. /\ pc = "groups" /\ pc' = "suffix" /\ ~ (i + 3 <= Len(text))
      /\ text' = text /\ buf_size' = buf_size /\ asked' = asked /\ i' = i
  BY DEF EncodeRest, MoreGroups
<1>2. PICK g \in Nat : i = 3 * g /\ 3 * g <= Len(text) /\ Len(buf) = 7 + 4 * g
  BY <1>1 DEF EscapeInv
<1>3. Len(text) \in Nat /\ text \in Seq(Octet) /\ buf \in Seq(Token) /\ buf_size \in Nat
  BY LenProperties DEF EscapeInv
<1>4. asked = <<>> /\ buf_size >= Needed(Len(text)) /\ SubSeq(buf, 1, 7) = Prefix
  BY <1>1 DEF EscapeInv, Encoding
<1>5. PICK left \in Seq(Octet) :
        left = SubSeq(text, i + 1, Len(text)) /\ Len(left) = Len(text) - i
  <2>1. i \in 0 .. Len(text)
    BY <1>2, <1>3
  <2> QED BY <1>3, <2>1, Ending, Zenon
<1>5a. /\ Len(left) = Len(text) - i /\ Len(text) \in Nat /\ i = 3 * g
       /\ 3 * g <= Len(text) /\ ~ (i + 3 <= Len(text))
  BY <1>1, <1>2, <1>3, <1>5, Zenon
<1>6. Len(left) \in 0 .. 2 /\ Len(text) = 3 * g + Len(left)
  BY <1>5a
<1>7. PICK more \in Seq(Token) :
        more = Rest(left) /\ Len(more) = IF Len(left) = 0 THEN 0 ELSE 4
  BY <1>6, RestType
<1>7a. Len(more) = IF Len(left) = 0 THEN 0 ELSE 4
  BY <1>7
<1>8. buf' = buf \o more
  BY <1>5, <1>7 DEF EncodeRest
<1>9. buf' \in Seq(Token) /\ Len(buf') = Len(buf) + Len(more)
  BY <1>3, <1>8, Appended
<1>10. EncodedLen(Len(text)) = 4 * g + Len(more)
  <2>1. CASE Len(left) = 0
    <3>1. Len(text) = 3 * g
      BY <1>6, <2>1
    <3>2. Len(more) = 0
      BY <1>7a, <2>1
    <3> QED BY <3>1, <3>2, EncodedLength
  <2>2. CASE Len(left) = 1
    <3>1. Len(text) = 3 * g + 1
      BY <1>6, <2>2, Zenon
    <3>2. Len(more) = 4
      BY <1>7a, <2>2
    <3> QED BY <3>1, <3>2, EncodedLength
  <2>3. CASE Len(left) = 2
    <3>1. Len(text) = 3 * g + 2
      BY <1>6, <2>3, Zenon
    <3>2. Len(more) = 4
      BY <1>7a, <2>3
    <3> QED BY <3>1, <3>2, EncodedLength
  <2> QED BY <1>6, <2>1, <2>2, <2>3
<1>11. EncodedLen(Len(text)) \in Nat /\ Needed(Len(text)) = 9 + EncodedLen(Len(text))
  BY <1>3, EncodedLenType
<1>12. Len(more) \in Nat
  BY LenProperties
<1>13. Len(buf') = 7 + EncodedLen(Len(text))
  BY <1>2, <1>9, <1>10, <1>12
<1>14. SubSeq(buf', 1, 7) = Prefix
  <2>1. Len(buf) >= 7
    BY <1>2
  <2> QED BY <1>3, <1>4, <1>8, <2>1, KeepsPrefix, Zenon
<1>15. Encoding'
  BY <1>1, <1>4, <1>14 DEF Encoding
<1>16. Len(buf') <= buf_size'
  BY <1>1, <1>3, <1>4, <1>11, <1>13
<1>17. text' \in Seq(Octet) /\ buf_size' \in Nat /\ asked' \in Seq(Token)
  BY <1>1, <1>3 DEF EscapeInv
<1> QED BY <1>1, <1>9, <1>13, <1>15, <1>16, <1>17 DEF EscapeInv

\* The count is the expected one, so the terminator is written, and a NUL only
\* where one more byte is left.
LEMMA FinishKeeps ==
  ASSUME EscapeInv, Finish
  PROVE  EscapeInv'
<1>1. /\ pc = "suffix" /\ pc' = "done" /\ text' = text /\ buf_size' = buf_size /\ asked' = asked
  BY DEF Finish
<1>2. Len(text) \in Nat /\ text \in Seq(Octet) /\ buf \in Seq(Token) /\ buf_size \in Nat
  BY LenProperties DEF EscapeInv
<1>3. PICK n \in Nat : n = EncodedLen(Len(text)) /\ Needed(Len(text)) = 9 + n
  BY <1>2, EncodedLenType
<1>4. /\ asked = <<>> /\ buf_size >= 9 + n /\ SubSeq(buf, 1, 7) = Prefix /\ Len(buf) = 7 + n
  BY <1>1, <1>3 DEF EscapeInv, Encoding
<1>5. PICK end \in Seq(Token) :
        /\ buf' = buf \o end
        /\ Len(end) = IF buf_size > 9 + n THEN 3 ELSE 2
        /\ end[1] = <<"end", 0>> /\ end[2] = <<"end", 0>>
  <2>1. PICK st \in Seq(Token) : st = ST /\ Len(st) = 2
    BY FixedParts
  <2>2. st[1] = <<"end", 0>> /\ st[2] = <<"end", 0>>
    <3>1. "end" \in Kind /\ 1 \in 1 .. 2 /\ 2 \in 1 .. 2 /\ 2 \in Nat
      BY DEF Kind
    <3>2. ST[1] = <<"end", 0>> /\ ST[2] = <<"end", 0>>
      BY <3>1, TimesProperties, Zenon DEF ST
    <3> QED BY <2>1, <3>2, Zenon
  <2>3. buf' = buf \o (st \o (IF buf_size > 9 + n THEN Nul ELSE <<>>))
    <3>1. Len(buf) = Len(Prefix) + EncodedLen(Len(text))
      BY <1>3, <1>4, FixedParts
    <3>2. buf' = buf \o (ST \o (IF buf_size > Needed(Len(text)) THEN Nul ELSE <<>>))
      BY <3>1 DEF Finish
    <3> QED BY <1>3, <2>1, <3>2, Zenon
  <2>4. CASE buf_size > 9 + n
    <3>1. PICK nul \in Seq(Token) : nul = Nul /\ Len(nul) = 1
      BY FixedParts
    <3>2. PICK end \in Seq(Token) : end = st \o nul /\ Len(end) = Len(st) + Len(nul)
      BY Appended, Zenon
    <3>3. end[1] = st[1] /\ end[2] = st[2]
      <4>1. \A k \in 1 .. Len(st) + Len(nul) :
              (st \o nul)[k] = IF k <= Len(st) THEN st[k] ELSE nul[k - Len(st)]
        BY ConcatProperties
      <4> QED BY <2>1, <3>1, <3>2, <4>1
    <3>4. Len(end) = 3
      BY <2>1, <3>1, <3>2
    <3>5. buf' = buf \o end
      BY <2>3, <2>4, <3>1, <3>2
    <3> QED BY <2>2, <2>4, <3>3, <3>4, <3>5
  <2>5. CASE ~ (buf_size > 9 + n)
    <3>1. buf' = buf \o st
      BY <2>3, <2>5, ConcatEmptySeq
    <3> QED BY <2>1, <2>2, <2>5, <3>1
  <2> QED BY <2>4, <2>5
<1>6. returned' = 9 + n
  <2>1. Len(buf) = Len(Prefix) + EncodedLen(Len(text))
    BY <1>3, <1>4, FixedParts
  <2> QED BY <1>3, <2>1 DEF Finish
<1>7. buf' \in Seq(Token) /\ Len(buf') = Len(buf) + Len(end)
  BY <1>2, <1>5, Appended
<1>8. Len(buf') <= buf_size' /\ Len(buf') >= 9 + n
  <2>1. Len(end) = IF buf_size > 9 + n THEN 3 ELSE 2
    BY <1>5
  <2>2. Len(buf') = 7 + n + Len(end)
    BY <1>4, <1>7
  <2> QED BY <1>1, <1>2, <1>4, <2>1, <2>2
<1>9. SubSeq(buf', 1, 7) = Prefix
  <2>1. Len(buf) >= 7
    BY <1>4
  <2> QED BY <1>2, <1>4, <1>5, <2>1, KeepsPrefix, Zenon
<1>10. SubSeq(buf', 9 + n - 1, 9 + n) = ST
  <2>1. buf'[8 + n] = <<"end", 0>> /\ buf'[9 + n] = <<"end", 0>>
    <3>1. 1 \in 1 .. Len(end) /\ 2 \in 1 .. Len(end)
      BY <1>5
    <3>2. buf'[Len(buf) + 1] = end[1] /\ buf'[Len(buf) + 2] = end[2]
      BY <1>2, <1>5, <3>1, WrittenAfter, ZenonT(40)
    <3>3. Len(buf) + 1 = 8 + n /\ Len(buf) + 2 = 9 + n
      BY <1>4
    <3> QED BY <1>5, <3>2, <3>3, Zenon
  <2>2. <<"end", 0>> \in Token
    BY DEF Token
  <2>4. 8 + n \in Nat /\ 8 + n + 1 = 9 + n /\ 9 + n - 1 = 8 + n
    OBVIOUS
  <2>5. PICK tail \in Seq(Token) : tail = SubSeq(buf', 8 + n, 9 + n) /\ Len(tail) = 2
                                 /\ tail[1] = buf'[8 + n] /\ tail[2] = buf'[9 + n]
    <3>1. PICK m \in Nat : m = 8 + n /\ m + 1 = 9 + n
      BY <2>4
    <3>2. buf'[m] \in Token /\ buf'[m + 1] \in Token
      BY <2>1, <2>2, <3>1, Zenon
    <3>3. PICK tail \in Seq(Token) : tail = SubSeq(buf', m, m + 1) /\ Len(tail) = 2
                                   /\ tail[1] = buf'[m] /\ tail[2] = buf'[m + 1]
      BY <3>2, TwoTokens, ZenonT(40)
    <3> QED BY <3>1, <3>3, Zenon
  <2>6. ST[1] = <<"end", 0>> /\ ST[2] = <<"end", 0>>
    <3>1. "end" \in Kind /\ 1 \in 1 .. 2 /\ 2 \in 1 .. 2 /\ 2 \in Nat
      BY DEF Kind
    <3> QED BY <3>1, TimesProperties, Zenon DEF ST
  <2>7. tail = ST
    <3>1. \A k \in 1 .. Len(tail) : tail[k] = ST[k]
      <4>1. \A k \in 1 .. Len(tail) : k = 1 \/ k = 2
        BY <2>5
      <4> QED BY <2>1, <2>5, <2>6, <4>1, Zenon
    <3>2. Len(tail) = Len(ST) /\ ST \in Seq(Token)
      BY <2>5, FixedParts
    <3> QED BY <3>1, <3>2, SeqEqual, Zenon
  <2> QED BY <2>4, <2>5, <2>7, Zenon
<1>11. EnoughIsWritten'
  <2>1. Needed(Len(text')) = 9 + n
    BY <1>1, <1>3
  <2>2. Len(Prefix) = 7 /\ Len(ST) = 2
    BY FixedParts
  <2>3. SubSeq(buf', 1, Len(Prefix)) = Prefix
    BY <1>9, <2>2
  <2>4. /\ returned' = Needed(Len(text')) /\ Len(buf') >= returned'
        /\ SubSeq(buf', returned' - 1, returned') = ST
    BY <1>6, <1>8, <1>10, <2>1
  <2> QED BY <2>3, <2>4 DEF EnoughIsWritten
<1>12. text' \in Seq(Octet) /\ buf_size' \in Nat /\ asked' \in Seq(Token)
  BY <1>1, <1>2 DEF EscapeInv
<1> QED BY <1>1, <1>7, <1>8, <1>11, <1>12 DEF EscapeInv

\* snprintf writes at most the size it is given.
LEMMA FormatKeeps ==
  ASSUME EscapeInv, NEW s \in Seq(Token), s # <<>>, NEW least \in Nat \ {0},
         NEW n \in Nat, Format(s, least, n)
  PROVE  EscapeInv'
<1>1. pc' = "done" /\ buf_size' = n /\ asked' = s /\ text' = text
  BY DEF Format
<1>2. text \in Seq(Octet) /\ Len(s) \in Nat
  BY LenProperties DEF EscapeInv
<1>3. EnoughIsWritten'
  BY <1>1 DEF EnoughIsWritten
<1>4. buf' \in Seq(Token) /\ Len(buf') <= n
  <2>1. CASE n < least
    BY <2>1 DEF Format
  <2>2. CASE ~ (n < least)
    <3>1. PICK m \in 0 .. Len(s) :
            m = (IF Len(s) < n THEN Len(s) ELSE n - 1) /\ m <= n - 1
      BY <1>2, <2>2
    <3>2. PICK cut \in Seq(Token) : cut = SubSeq(s, 1, m) /\ Len(cut) = m
      BY Beginning, Zenon
    <3>3. PICK nul \in Seq(Token) : nul = Nul /\ Len(nul) = 1
      BY FixedParts
    <3>4. buf' = SubSeq(s, 1, IF Len(s) < n THEN Len(s) ELSE n - 1) \o Nul
      BY <2>2 DEF Format, Printed
    <3>5. buf' = cut \o nul
      BY <3>1, <3>2, <3>3, <3>4, Zenon
    <3>6. buf' \in Seq(Token) /\ Len(buf') = Len(cut) + Len(nul)
      BY <3>5, Appended, Zenon
    <3>7. Len(cut) = m /\ Len(nul) = 1 /\ m <= n - 1 /\ m \in Nat
      BY <1>2, <3>1, <3>2, <3>3
    <3> QED BY <3>6, <3>7
  <2> QED BY <2>1, <2>2
<1> QED BY <1>1, <1>2, <1>3, <1>4 DEF EscapeInv

\* What the formatters are asked for is a sequence of tokens that is not empty.
LEMMA AskedSequences ==
  ASSUME NEW a \in Nat, NEW b \in Nat, NEW c \in Nat
  PROVE  /\ TwoNumbers(a, b) \in Seq(Token) /\ TwoNumbers(a, b) # <<>>
         /\ Titled(a) \in Seq(Token) /\ Titled(a) # <<>>
         /\ Times("fixed", 7) \o Times("digit", a) \o Times("end", 1) \in Seq(Token) \ {<<>>}
         /\ Times("fixed", 7) \o Times("digit", a) \o Times("fixed", 1)
            \o Times("digit", b) \o Times("fixed", 1) \o Times("digit", c)
            \o Times("end", 1) \in Seq(Token) \ {<<>>}
<1> DEFINE Some == {s \in Seq(Token) : Len(s) > 0}
<1>1. \A k \in Nat : /\ Times("fixed", k) \in Seq(Token) /\ Len(Times("fixed", k)) = k
                     /\ Times("digit", k) \in Seq(Token)
                     /\ Times("end", k) \in Seq(Token)
  BY TimesProperties DEF Kind
<1>1a. /\ Times("fixed", 2) \in Seq(Token) /\ Len(Times("fixed", 2)) = 2
       /\ Times("fixed", 4) \in Seq(Token) /\ Len(Times("fixed", 4)) = 4
       /\ Times("fixed", 7) \in Seq(Token) /\ Len(Times("fixed", 7)) = 7
  <2>1. 2 \in Nat /\ 4 \in Nat /\ 7 \in Nat
    OBVIOUS
  <2> QED BY <1>1, <2>1, Zenon
<1>2. Times("fixed", 2) \in Some /\ Times("fixed", 7) \in Some /\ Times("fixed", 4) \in Some
  BY <1>1a
<1>3. \A s \in Some, t \in Seq(Token) : s \o t \in Some
  <2> SUFFICES ASSUME NEW s \in Seq(Token), Len(s) > 0, NEW t \in Seq(Token)
               PROVE  s \o t \in Seq(Token) /\ Len(s \o t) > 0
    OBVIOUS
  <2>1. s \o t \in Seq(Token) /\ Len(s \o t) = Len(s) + Len(t) /\ Len(s) \in Nat /\ Len(t) \in Nat
    BY ConcatProperties, LenProperties
  <2> QED BY <2>1
<1>4. Some \subseteq Seq(Token) \ {<<>>}
  OBVIOUS
<1> HIDE DEF Some
<1>5. /\ Times("digit", a) \in Seq(Token) /\ Times("digit", b) \in Seq(Token)
      /\ Times("digit", c) \in Seq(Token) /\ Times("end", 1) \in Seq(Token)
      /\ Times("fixed", 1) \in Seq(Token) /\ ST \in Seq(Token)
  BY <1>1, FixedParts
<1>6. TwoNumbers(a, b) \in Some
  BY <1>2, <1>3, <1>5, Zenon DEF TwoNumbers
<1>7. Titled(a) \in Some
  BY <1>2, <1>3, <1>5, Zenon DEF Titled
<1>8. Times("fixed", 7) \o Times("digit", a) \o Times("end", 1) \in Some
  BY <1>2, <1>3, <1>5, Zenon
<1>9. Times("fixed", 7) \o Times("digit", a) \o Times("fixed", 1)
      \o Times("digit", b) \o Times("fixed", 1) \o Times("digit", c)
      \o Times("end", 1) \in Some
  BY <1>2, <1>3, <1>5, Zenon
<1> QED BY <1>4, <1>6, <1>7, <1>8, <1>9, Zenon

LEMMA ReturnKeeps ==
  ASSUME EscapeInv, Return
  PROVE  EscapeInv'
BY DEF EscapeInv, Return

\* Every action keeps the invariant.
LEMMA NextKeeps ==
  ASSUME EscapeInv, [EONext]_eoVars
  PROVE  EscapeInv'
<1>t. \A t \in Clips : t \in Seq(Octet) /\ Len(t) \in Nat
  BY EOAssumption, LenProperties DEF Octet
<1>n. \A n \in BufSizes : n \in Nat
  BY EOAssumption
<1>d. \A a \in Digits \cup TitleLengths \cup 1 .. 3 : a \in Nat
  BY EOAssumption
<1>1. ASSUME NEW t \in Clips, ClipboardCopy(t) PROVE EscapeInv'
  <2>1. BufSize(Len(t)) \in Nat
    <3>1. EncodedLen(Len(t)) \in Nat
      BY <1>t, EncodedLenType
    <3> QED BY <3>1 DEF BufSize
  <2> QED BY <1>1, <1>t, <2>1, FormatOsc52Keeps DEF ClipboardCopy
<1>2. ASSUME NEW t \in Clips, NEW n \in BufSizes, FormatOsc52(t, n) PROVE EscapeInv'
  BY <1>2, <1>t, <1>n, FormatOsc52Keeps
<1>3. CASE EncodeGroup
  BY <1>3, EncodeGroupKeeps
<1>4. CASE EncodeRest
  BY <1>4, EncodeRestKeeps
<1>5. CASE Finish
  BY <1>5, FinishKeeps
<1>6. ASSUME NEW n \in BufSizes, FormatCursorPos(n) PROVE EscapeInv'
  <2>1. PICK a \in Digits, b \in Digits : Format(TwoNumbers(a, b), CursorLeast, n)
    BY <1>6 DEF FormatCursorPos
  <2>2. CursorLeast \in Nat \ {0}
    BY DEF CursorLeast
  <2> QED BY <1>n, <1>d, <2>1, <2>2, AskedSequences, FormatKeeps
<1>7. ASSUME NEW n \in BufSizes, FormatScrollRegion(n) PROVE EscapeInv'
  <2>1. PICK a \in Digits, b \in Digits : Format(TwoNumbers(a, b), RegionLeast, n)
    BY <1>7 DEF FormatScrollRegion
  <2>2. RegionLeast \in Nat \ {0}
    BY DEF RegionLeast
  <2> QED BY <1>n, <1>d, <2>1, <2>2, AskedSequences, FormatKeeps
<1>8. ASSUME NEW n \in BufSizes, FormatColor256(n) PROVE EscapeInv'
  <2>1. PICK a \in 1 .. 3 :
          Format(Times("fixed", 7) \o Times("digit", a) \o Times("end", 1), ColorLeast, n)
    BY <1>8, Zenon DEF FormatColor256
  <2>2. ColorLeast \in Nat \ {0}
    BY DEF ColorLeast
  <2>3. Times("fixed", 7) \o Times("digit", a) \o Times("end", 1) \in Seq(Token) \ {<<>>}
    BY <1>d, AskedSequences, Zenon
  <2> QED BY <1>n, <2>1, <2>2, <2>3, FormatKeeps, Zenon
<1>9. ASSUME NEW n \in BufSizes, FormatColorRgb(n) PROVE EscapeInv'
  <2>1. PICK a \in 1 .. 3, b \in 1 .. 3, c \in 1 .. 3 :
          Format(Times("fixed", 7) \o Times("digit", a) \o Times("fixed", 1)
                 \o Times("digit", b) \o Times("fixed", 1) \o Times("digit", c)
                 \o Times("end", 1), RgbLeast, n)
    BY <1>9, Zenon DEF FormatColorRgb
  <2>2. RgbLeast \in Nat \ {0}
    BY DEF RgbLeast
  <2>3. Times("fixed", 7) \o Times("digit", a) \o Times("fixed", 1)
        \o Times("digit", b) \o Times("fixed", 1) \o Times("digit", c)
        \o Times("end", 1) \in Seq(Token) \ {<<>>}
    BY <1>d, AskedSequences, Zenon
  <2> QED BY <1>n, <2>1, <2>2, <2>3, FormatKeeps, Zenon
<1>10. ASSUME NEW k \in TitleLengths, SetWindowTitle(k) PROVE EscapeInv'
  <2>1. Format(Titled(k), 8, TitleSize) /\ 8 \in Nat \ {0} /\ TitleSize \in Nat
    BY <1>10 DEF SetWindowTitle, TitleSize
  <2> QED BY <1>d, <2>1, AskedSequences, FormatKeeps
<1>11. CASE Return
  BY <1>11, ReturnKeeps
<1>12. CASE UNCHANGED eoVars
  BY <1>12 DEF eoVars, EscapeInv, Encoding, EnoughIsWritten
<1> QED BY <1>1, <1>2, <1>3, <1>4, <1>5, <1>6, <1>7, <1>8, <1>9, <1>10, <1>11, <1>12 DEF EONext

-----------------------------------------------------------------------------
(* The theorems                                                            *)

\* The invariant of the encoder and the formatters holds in every state that a
\* sequence of calls reaches.
THEOREM EscapeInvariant == EOSpec => []EscapeInv
<1>1. EscapeInv /\ [EONext]_eoVars => EscapeInv'
  BY NextKeeps
<1> QED BY <1>1, InitEstablishes, PTL DEF EOSpec

\* For every text and every buffer size the encoder, the OSC 52 sequence and
\* the formatters stay inside the buffer they are given, and a buffer of the
\* computed size gets the whole sequence: the encoder's loop and the length
\* computed beforehand agree.
THEOREM BufferAlwaysSuffices == EOSpec => []BufferSuffices
<1>1. EscapeInv => BufferSuffices
  BY DEF EscapeInv, BufferSuffices, WithinBuf, EnoughIsWritten
<1> QED BY <1>1, EscapeInvariant, PTL

-----------------------------------------------------------------------------
(* What was written is what was meant                                      *)

\* A token, and no base64 digit outside the alphabet.
Glyph == {x \in Token : x[1] = "code" => x[2] < 64}

\* The text, continued by zeros, in groups of three bytes.
ByteOf(t, k) == IF k <= Len(t) THEN t[k] ELSE 0
GroupOf(t, h) == Group(ByteOf(t, 3 * h + 1), ByteOf(t, 3 * h + 2), ByteOf(t, 3 * h + 3))

\* How many digits are no padding, and what stands at place j of group h.
UsedDigits(n) == EncodedLen(n) - ((3 - (n % 3)) % 3)
DigitOf(t, h, j) ==
  IF 4 * h + j <= UsedDigits(Len(t)) THEN GroupOf(t, h)[j] ELSE <<"pad", 0>>

\* A number by its quotient and its rest.
LEMMA ByThree ==
  ASSUME NEW n \in Nat
  PROVE  \E q \in Nat, r \in 0 .. 2 : n = 3 * q + r
<1>1. n = 3 * (n \div 3) + (n % 3) /\ n \div 3 \in Nat /\ (n % 3) \in 0 .. 2
  OBVIOUS
<1> QED
  BY <1>1

LEMMA ByFour ==
  ASSUME NEW n \in Nat
  PROVE  \E h \in Nat, r \in 0 .. 3 : n = 4 * h + r
<1>1. n = 4 * (n \div 4) + (n % 4) /\ n \div 4 \in Nat /\ (n % 4) \in 0 .. 3
  OBVIOUS
<1> QED
  BY <1>1

LEMMA ByTwentyFour ==
  ASSUME NEW n \in Nat
  PROVE  \E h \in Nat, r \in 0 .. 23 : n = 24 * h + r
<1>1. n = 24 * (n \div 24) + (n % 24) /\ n \div 24 \in Nat /\ (n % 24) \in 0 .. 23
  OBVIOUS
<1> QED
  BY <1>1

LEMMA UsedIs ==
  ASSUME NEW q \in Nat, NEW r \in 0 .. 2
  PROVE  /\ UsedDigits(3 * q + r) = 4 * q + (IF r = 0 THEN 0 ELSE r + 1)
         /\ EncodedLen(3 * q + r) = 4 * q + (IF r = 0 THEN 0 ELSE 4)
<1>1. (3 * q + r) % 3 = r
  OBVIOUS
<1>2. EncodedLen(3 * q + r) = 4 * q + (IF r = 0 THEN 0 ELSE 4)
  <2>1. CASE r = 0
    BY <2>1, EncodedLength
  <2>2. CASE r = 1
    BY <2>2, EncodedLength
  <2>3. CASE r = 2
    BY <2>3, EncodedLength
  <2> QED
    BY <2>1, <2>2, <2>3
<1>3. (3 - r) % 3 = IF r = 0 THEN 0 ELSE 3 - r
  <2>1. r = 0 \/ r = 1 \/ r = 2
    OBVIOUS
  <2> QED
    BY <2>1
<1> QED
  BY <1>1, <1>2, <1>3 DEF UsedDigits

\* The four digits of three bytes.
LEMMA FirstDigit ==
  ASSUME NEW a \in Octet, NEW b \in Octet, NEW c \in Octet
  PROVE  ((a * 65536 + b * 256 + c) \div 262144) % 64 = a \div 4
BY SMT DEF Octet

LEMMA SecondDigit ==
  ASSUME NEW a \in Octet, NEW b \in Octet, NEW c \in Octet
  PROVE  ((a * 65536 + b * 256 + c) \div 4096) % 64 = 16 * (a % 4) + (b \div 16)
<1>1. (a * 65536 + b * 256 + c) \div 4096 = 16 * a + (b \div 16)
  BY SMT DEF Octet
<1>2. PICK q \in Nat, r \in 0 .. 3 : a = 4 * q + r /\ a % 4 = r
  <2>1. a = 4 * (a \div 4) + (a % 4) /\ a \div 4 \in Nat /\ (a % 4) \in 0 .. 3
    BY SMT DEF Octet
  <2> QED
    BY <2>1
<1>3. PICK m \in 0 .. 15 : m = b \div 16
  BY SMT DEF Octet
<1>4. (16 * (4 * q + r) + m) % 64 = 16 * r + m
  OBVIOUS
<1> QED
  BY <1>1, <1>2, <1>3, <1>4

LEMMA ThirdDigit ==
  ASSUME NEW a \in Octet, NEW b \in Octet, NEW c \in Octet
  PROVE  ((a * 65536 + b * 256 + c) \div 64) % 64 = 4 * (b % 16) + (c \div 64)
BY SMT DEF Octet

LEMMA FourthDigit ==
  ASSUME NEW a \in Octet, NEW b \in Octet, NEW c \in Octet
  PROVE  ((a * 65536 + b * 256 + c) \div 1) % 64 = c % 64
BY SMT DEF Octet

LEMMA GroupIs ==
  ASSUME NEW a \in Octet, NEW b \in Octet, NEW c \in Octet
  PROVE  /\ Group(a, b, c)[1] = <<"code", a \div 4>>
         /\ Group(a, b, c)[2] = <<"code", 16 * (a % 4) + (b \div 16)>>
         /\ Group(a, b, c)[3] = <<"code", 4 * (b % 16) + (c \div 64)>>
         /\ Group(a, b, c)[4] = <<"code", c % 64>>
<1> DEFINE v == a * 65536 + b * 256 + c
<1>1. Group(a, b, c) = <<Code(v, 262144), Code(v, 4096), Code(v, 64), Code(v, 1)>>
  BY DEF Group
<1>2. /\ Code(v, 262144) = <<"code", a \div 4>>
      /\ Code(v, 4096) = <<"code", 16 * (a % 4) + (b \div 16)>>
      /\ Code(v, 64) = <<"code", 4 * (b % 16) + (c \div 64)>>
      /\ Code(v, 1) = <<"code", c % 64>>
  <2>1. /\ (v \div 262144) % 64 = a \div 4
        /\ (v \div 4096) % 64 = 16 * (a % 4) + (b \div 16)
        /\ (v \div 64) % 64 = 4 * (b % 16) + (c \div 64)
        /\ (v \div 1) % 64 = c % 64
    BY FirstDigit, SecondDigit, ThirdDigit, FourthDigit, SMT
  <2> HIDE DEF v
  <2> QED
    BY <2>1, SMT DEF Code
<1> HIDE DEF v
<1> QED
  BY <1>1, <1>2

LEMMA GroupGlyphs ==
  ASSUME NEW a \in Octet, NEW b \in Octet, NEW c \in Octet, NEW j \in 1 .. 4
  PROVE  /\ Group(a, b, c)[j] \in Glyph /\ Group(a, b, c)[j][1] = "code"
<1> DEFINE w == Group(a, b, c)
<1>1. w \in Seq(Token) /\ Len(w) = 4
  BY GroupType
<1>2. w[j] \in Token
  BY <1>1, ElementOfSeq
<1>3. /\ a \div 4 \in 0 .. 63 /\ 16 * (a % 4) + (b \div 16) \in 0 .. 63
      /\ 4 * (b % 16) + (c \div 64) \in 0 .. 63 /\ (c % 64) \in 0 .. 63
  BY DEF Octet
<1>4. PICK x \in 0 .. 63 : w[j] = <<"code", x>>
  <2>1. j = 1 \/ j = 2 \/ j = 3 \/ j = 4
    OBVIOUS
  <2>2. /\ w[1] = <<"code", a \div 4>>
        /\ w[2] = <<"code", 16 * (a % 4) + (b \div 16)>>
        /\ w[3] = <<"code", 4 * (b % 16) + (c \div 64)>>
        /\ w[4] = <<"code", c % 64>>
    BY GroupIs
  <2> QED
    BY <1>3, <2>1, <2>2, ZenonT(40)
<1>5. w[j][1] = "code" /\ w[j][2] = x
  BY <1>4
<1> QED
  BY <1>2, <1>5 DEF Glyph

\* What a bit is worth, in a digit and in a byte.
LEMMA DigitPowers ==
  ASSUME NEW k \in Nat
  PROVE  /\ k = 0 => 2 ^ (5 - k) = 32 /\ 2 ^ (7 - k) = 128
         /\ k = 1 => 2 ^ (5 - k) = 16 /\ 2 ^ (7 - k) = 64
         /\ k = 2 => 2 ^ (5 - k) = 8 /\ 2 ^ (7 - k) = 32
         /\ k = 3 => 2 ^ (5 - k) = 4 /\ 2 ^ (7 - k) = 16
         /\ k = 4 => 2 ^ (5 - k) = 2 /\ 2 ^ (7 - k) = 8
         /\ k = 5 => 2 ^ (5 - k) = 1 /\ 2 ^ (7 - k) = 4
         /\ k = 6 => 2 ^ (7 - k) = 2
         /\ k = 7 => 2 ^ (7 - k) = 1
<1>1. k = 0 => 2 ^ (5 - k) = 32 /\ 2 ^ (7 - k) = 128
  OBVIOUS
<1>2. k = 1 => 2 ^ (5 - k) = 16 /\ 2 ^ (7 - k) = 64
  OBVIOUS
<1>3. k = 2 => 2 ^ (5 - k) = 8 /\ 2 ^ (7 - k) = 32
  OBVIOUS
<1>4. k = 3 => 2 ^ (5 - k) = 4 /\ 2 ^ (7 - k) = 16
  OBVIOUS
<1>5. k = 4 => 2 ^ (5 - k) = 2 /\ 2 ^ (7 - k) = 8
  OBVIOUS
<1>6. k = 5 => 2 ^ (5 - k) = 1 /\ 2 ^ (7 - k) = 4
  OBVIOUS
<1>7. k = 6 => 2 ^ (7 - k) = 2
  OBVIOUS
<1>8. k = 7 => 2 ^ (7 - k) = 1
  OBVIOUS
<1> QED
  BY <1>1, <1>2, <1>3, <1>4, <1>5, <1>6, <1>7, <1>8

\* The bits of the digits are those of the bytes, digit by digit.
LEMMA FirstBits ==
  ASSUME NEW a \in Octet
  PROVE  /\ ((a \div 4) \div 32) % 2 = (a \div 128) % 2
         /\ ((a \div 4) \div 16) % 2 = (a \div 64) % 2
         /\ ((a \div 4) \div 8) % 2 = (a \div 32) % 2
         /\ ((a \div 4) \div 4) % 2 = (a \div 16) % 2
         /\ ((a \div 4) \div 2) % 2 = (a \div 8) % 2
         /\ ((a \div 4) \div 1) % 2 = (a \div 4) % 2
BY SMTT(30) DEF Octet

LEMMA SecondBits ==
  ASSUME NEW a \in Octet, NEW b \in Octet
  PROVE  /\ ((16 * (a % 4) + (b \div 16)) \div 32) % 2 = (a \div 2) % 2
         /\ ((16 * (a % 4) + (b \div 16)) \div 16) % 2 = (a \div 1) % 2
         /\ ((16 * (a % 4) + (b \div 16)) \div 8) % 2 = (b \div 128) % 2
         /\ ((16 * (a % 4) + (b \div 16)) \div 4) % 2 = (b \div 64) % 2
         /\ ((16 * (a % 4) + (b \div 16)) \div 2) % 2 = (b \div 32) % 2
         /\ ((16 * (a % 4) + (b \div 16)) \div 1) % 2 = (b \div 16) % 2
<1>1. PICK q \in 0 .. 63, p \in 0 .. 3 : a = 4 * q + p /\ a % 4 = p
  <2>1. a = 4 * (a \div 4) + (a % 4) /\ a \div 4 \in 0 .. 63 /\ (a % 4) \in 0 .. 3
    BY DEF Octet
  <2> QED
    BY <2>1
<1>2. PICK d \in 0 .. 15 : d = b \div 16
  BY DEF Octet
<1>3. /\ (16 * p + d) \div 32 = p \div 2 /\ (16 * p + d) \div 16 = p
      /\ (16 * p + d) \div 8 = 2 * p + (d \div 8)
      /\ (16 * p + d) \div 4 = 4 * p + (d \div 4)
      /\ (16 * p + d) \div 2 = 8 * p + (d \div 2)
      /\ (16 * p + d) \div 1 = 16 * p + d
  OBVIOUS
<1>4. (4 * q + p) \div 2 = 2 * q + (p \div 2) /\ (4 * q + p) \div 1 = 4 * q + p
  OBVIOUS
<1>5. /\ (2 * q + (p \div 2)) % 2 = (p \div 2) % 2
      /\ (4 * q + p) % 2 = p % 2
  OBVIOUS
<1>6. /\ (2 * p + (d \div 8)) % 2 = (d \div 8) % 2
      /\ (4 * p + (d \div 4)) % 2 = (d \div 4) % 2
      /\ (8 * p + (d \div 2)) % 2 = (d \div 2) % 2
      /\ (16 * p + d) % 2 = d % 2
  OBVIOUS
<1>7. /\ d \div 8 = b \div 128 /\ d \div 4 = b \div 64 /\ d \div 2 = b \div 32
  BY <1>2 DEF Octet
<1> QED
  BY <1>1, <1>2, <1>3, <1>4, <1>5, <1>6, <1>7

LEMMA ThirdBits ==
  ASSUME NEW b \in Octet, NEW c \in Octet
  PROVE  /\ ((4 * (b % 16) + (c \div 64)) \div 32) % 2 = (b \div 8) % 2
         /\ ((4 * (b % 16) + (c \div 64)) \div 16) % 2 = (b \div 4) % 2
         /\ ((4 * (b % 16) + (c \div 64)) \div 8) % 2 = (b \div 2) % 2
         /\ ((4 * (b % 16) + (c \div 64)) \div 4) % 2 = (b \div 1) % 2
         /\ ((4 * (b % 16) + (c \div 64)) \div 2) % 2 = (c \div 128) % 2
         /\ ((4 * (b % 16) + (c \div 64)) \div 1) % 2 = (c \div 64) % 2
<1>1. PICK q \in 0 .. 15, p \in 0 .. 15 : b = 16 * q + p /\ b % 16 = p
  <2>1. b = 16 * (b \div 16) + (b % 16) /\ b \div 16 \in 0 .. 15 /\ (b % 16) \in 0 .. 15
    BY DEF Octet
  <2> QED
    BY <2>1
<1>2. PICK d \in 0 .. 3 : d = c \div 64 /\ d % 2 = (c \div 64) % 2
  BY DEF Octet
<1>3. /\ (4 * p + d) \div 32 = p \div 8 /\ (4 * p + d) \div 16 = p \div 4
      /\ (4 * p + d) \div 8 = p \div 2 /\ (4 * p + d) \div 4 = p
      /\ (4 * p + d) \div 2 = 2 * p + (d \div 2)
      /\ (4 * p + d) \div 1 = 4 * p + d
  OBVIOUS
<1>4. /\ (16 * q + p) \div 8 = 2 * q + (p \div 8)
      /\ (16 * q + p) \div 4 = 4 * q + (p \div 4)
      /\ (16 * q + p) \div 2 = 8 * q + (p \div 2)
      /\ (16 * q + p) \div 1 = 16 * q + p
  OBVIOUS
<1>5. /\ (2 * q + (p \div 8)) % 2 = (p \div 8) % 2
      /\ (4 * q + (p \div 4)) % 2 = (p \div 4) % 2
      /\ (8 * q + (p \div 2)) % 2 = (p \div 2) % 2
      /\ (16 * q + p) % 2 = p % 2
      /\ (2 * p + (d \div 2)) % 2 = (d \div 2) % 2
      /\ (4 * p + d) % 2 = d % 2
  OBVIOUS
<1>6. d \div 2 = c \div 128
  BY <1>2 DEF Octet
<1> QED
  BY <1>1, <1>2, <1>3, <1>4, <1>5, <1>6


LEMMA FourthBits ==
  ASSUME NEW c \in Octet
  PROVE  /\ ((c % 64) \div 32) % 2 = (c \div 32) % 2
         /\ ((c % 64) \div 16) % 2 = (c \div 16) % 2
         /\ ((c % 64) \div 8) % 2 = (c \div 8) % 2
         /\ ((c % 64) \div 4) % 2 = (c \div 4) % 2
         /\ ((c % 64) \div 2) % 2 = (c \div 2) % 2
         /\ ((c % 64) \div 1) % 2 = (c \div 1) % 2
BY SMTT(30) DEF Octet

LEMMA BitsOfGroup ==
  ASSUME NEW a \in Octet, NEW b \in Octet, NEW c \in Octet, NEW r \in 0 .. 23
  PROVE  (Group(a, b, c)[(r \div 6) + 1][2] \div 2 ^ (5 - (r % 6))) % 2
           = (<<a, b, c>>[(r \div 8) + 1] \div 2 ^ (7 - (r % 8))) % 2
<1> DEFINE w == Group(a, b, c)
           s == <<a, b, c>>
           inDigit == r % 6
           inByte == r % 8
           d == (r \div 6) + 1
           e == (r \div 8) + 1
           p == 2 ^ (5 - inDigit)
           q == 2 ^ (7 - inByte)
<1>1. s[1] = a /\ s[2] = b /\ s[3] = c
  OBVIOUS
<1>2. /\ w[1][2] = a \div 4 /\ w[2][2] = 16 * (a % 4) + (b \div 16)
      /\ w[3][2] = 4 * (b % 16) + (c \div 64) /\ w[4][2] = c % 64
  BY GroupIs
<1>3. inDigit \in Nat /\ inByte \in Nat
  OBVIOUS
<1>4. CASE r \in 0 .. 5
  <2>1. d = 1
    BY <1>4
  <2>2. \/ inDigit = 0 /\ inByte = 0 /\ e = 1
        \/ inDigit = 1 /\ inByte = 1 /\ e = 1
        \/ inDigit = 2 /\ inByte = 2 /\ e = 1
        \/ inDigit = 3 /\ inByte = 3 /\ e = 1
        \/ inDigit = 4 /\ inByte = 4 /\ e = 1
        \/ inDigit = 5 /\ inByte = 5 /\ e = 1
    BY <1>4
  <2> HIDE DEF w, s, inDigit, inByte, d, e
  <2>3. (w[d][2] \div p) % 2 = (s[e] \div q) % 2
    BY <1>1, <1>2, <1>3, <2>1, <2>2, DigitPowers, FirstBits, SMT
  <2> QED
    BY <2>3 DEF w, s, inDigit, inByte, d, e
<1>5. CASE r \in 6 .. 11
  <2>1. d = 2
    BY <1>5
  <2>2. \/ inDigit = 0 /\ inByte = 6 /\ e = 1
        \/ inDigit = 1 /\ inByte = 7 /\ e = 1
        \/ inDigit = 2 /\ inByte = 0 /\ e = 2
        \/ inDigit = 3 /\ inByte = 1 /\ e = 2
        \/ inDigit = 4 /\ inByte = 2 /\ e = 2
        \/ inDigit = 5 /\ inByte = 3 /\ e = 2
    BY <1>5
  <2> HIDE DEF w, s, inDigit, inByte, d, e
  <2>3. (w[d][2] \div p) % 2 = (s[e] \div q) % 2
    BY <1>1, <1>2, <1>3, <2>1, <2>2, DigitPowers, SecondBits, SMT
  <2> QED
    BY <2>3 DEF w, s, inDigit, inByte, d, e
<1>6. CASE r \in 12 .. 17
  <2>1. d = 3
    BY <1>6
  <2>2. \/ inDigit = 0 /\ inByte = 4 /\ e = 2
        \/ inDigit = 1 /\ inByte = 5 /\ e = 2
        \/ inDigit = 2 /\ inByte = 6 /\ e = 2
        \/ inDigit = 3 /\ inByte = 7 /\ e = 2
        \/ inDigit = 4 /\ inByte = 0 /\ e = 3
        \/ inDigit = 5 /\ inByte = 1 /\ e = 3
    BY <1>6
  <2> HIDE DEF w, s, inDigit, inByte, d, e
  <2>3. (w[d][2] \div p) % 2 = (s[e] \div q) % 2
    BY <1>1, <1>2, <1>3, <2>1, <2>2, DigitPowers, ThirdBits, SMT
  <2> QED
    BY <2>3 DEF w, s, inDigit, inByte, d, e
<1>7. CASE r \in 18 .. 23
  <2>1. d = 4
    BY <1>7
  <2>2. \/ inDigit = 0 /\ inByte = 2 /\ e = 3
        \/ inDigit = 1 /\ inByte = 3 /\ e = 3
        \/ inDigit = 2 /\ inByte = 4 /\ e = 3
        \/ inDigit = 3 /\ inByte = 5 /\ e = 3
        \/ inDigit = 4 /\ inByte = 6 /\ e = 3
        \/ inDigit = 5 /\ inByte = 7 /\ e = 3
    BY <1>7
  <2> HIDE DEF w, s, inDigit, inByte, d, e
  <2>3. (w[d][2] \div p) % 2 = (s[e] \div q) % 2
    BY <1>1, <1>2, <1>3, <2>1, <2>2, DigitPowers, FourthBits, SMT
  <2> QED
    BY <2>3 DEF w, s, inDigit, inByte, d, e
<1> QED
  BY <1>4, <1>5, <1>6, <1>7

\* Places of a bit: in groups of 24, in digits of 6 and in bytes of 8.
LEMMA PlacesOf ==
  ASSUME NEW h \in Nat, NEW r \in 0 .. 23, NEW m, m = 24 * h + r
  PROVE  /\ m \div 6 = 4 * h + (r \div 6) /\ m % 6 = r % 6 /\ r \div 6 \in 0 .. 3
         /\ m \div 8 = 3 * h + (r \div 8) /\ m % 8 = r % 8 /\ r \div 8 \in 0 .. 2
<1>1. m \div 6 = 4 * h + (r \div 6) /\ m \div 8 = 3 * h + (r \div 8)
  BY SMT
<1>2. m % 6 = r % 6 /\ m % 8 = r % 8
  BY SMT
<1>3. r \div 6 \in 0 .. 3 /\ r \div 8 \in 0 .. 2
  BY SMT
<1> QED
  BY <1>1, <1>2, <1>3

LEMMA ByteIs ==
  ASSUME NEW t \in Seq(Octet), NEW k \in Nat \ {0}
  PROVE  /\ ByteOf(t, k) \in Octet
         /\ k <= Len(t) => ByteOf(t, k) = t[k]
         /\ ~(k <= Len(t)) => ByteOf(t, k) = 0
<1>1. Len(t) \in Nat /\ 0 \in Octet
  BY LenProperties DEF Octet
<1>2. k <= Len(t) => t[k] \in Octet
  <2>1. k <= Len(t) => k \in 1 .. Len(t)
    BY <1>1
  <2> QED
    BY <2>1, ElementOfSeq
<1> QED
  BY <1>1, <1>2 DEF ByteOf

\* Digits that are those of the groups, and then pads, are the text's base64.
Base64Of(t, codes) ==
  LET n    == Len(t)
      used == Len(codes) - ((3 - (n % 3)) % 3)
  IN  /\ Len(codes) % 4 = 0
      /\ \A k \in 1 .. Len(codes) : codes[k][1] = IF k <= used THEN "code" ELSE "pad"
      /\ used * 6 - n * 8 \in {0, 2, 4}
      /\ \A k \in 1 .. n * 8 : BitOfCodes(codes, k) = BitOfBytes(t, k)
      /\ \A k \in n * 8 + 1 .. used * 6 : BitOfCodes(codes, k) = 0

LEMMA Decodes ==
  ASSUME NEW t \in Seq(Octet), NEW codes \in Seq(Token),
         Len(codes) = EncodedLen(Len(t)),
         \A h \in Nat, j \in 1 .. 4 :
           4 * h + j <= Len(codes) => codes[4 * h + j] = DigitOf(t, h, j)
  PROVE  Base64Of(t, codes)
<1> DEFINE n == Len(t)
           used == UsedDigits(n)
<1>1. n \in Nat /\ Len(codes) \in Nat /\ used = Len(codes) - ((3 - (n % 3)) % 3)
  BY LenProperties DEF UsedDigits
<1>2. PICK q \in Nat, r \in 0 .. 2 : n = 3 * q + r
  BY <1>1, ByThree
<1>3. /\ used = 4 * q + (IF r = 0 THEN 0 ELSE r + 1)
      /\ Len(codes) = 4 * q + (IF r = 0 THEN 0 ELSE 4)
  BY <1>2, UsedIs
<1> HIDE DEF n, used
<1>4. r = 0 \/ r = 1 \/ r = 2
  OBVIOUS
<1>5. Len(codes) % 4 = 0
  <2>1. (4 * q) % 4 = 0 /\ (4 * q + 4) % 4 = 0
    OBVIOUS
  <2> QED
    BY <1>3, <1>4, <2>1
<1>6. used \in 0 .. Len(codes) /\ used * 6 - n * 8 \in {0, 2, 4}
  BY <1>2, <1>3, <1>4
<1>7. \A k \in 1 .. Len(codes) : codes[k][1] = IF k <= used THEN "code" ELSE "pad"
  <2> SUFFICES ASSUME NEW k \in 1 .. Len(codes)
               PROVE  codes[k][1] = IF k <= used THEN "code" ELSE "pad"
    OBVIOUS
  <2>1. k - 1 \in Nat
    BY <1>1
  <2>2. PICK h \in Nat, m \in 0 .. 3 : k - 1 = 4 * h + m
    BY <2>1, ByFour
  <2>3. PICK j \in 1 .. 4 : k = 4 * h + j
    <3>1. m + 1 \in 1 .. 4 /\ k = 4 * h + (m + 1)
      BY <1>1, <2>1, <2>2
    <3> QED
      BY <3>1
  <2>4. codes[k] = DigitOf(t, h, j)
    <3>1. 4 * h + j <= Len(codes)
      BY <1>1, <2>3
    <3>2. codes[4 * h + j] = DigitOf(t, h, j)
      BY <3>1
    <3> QED
      BY <2>3, <3>2
  <2>5. CASE k <= used
    <3>1. DigitOf(t, h, j) = GroupOf(t, h)[j]
      BY <2>3, <2>5 DEF DigitOf, used, n
    <3>2. /\ 3 * h + 1 \in Nat \ {0} /\ 3 * h + 2 \in Nat \ {0} /\ 3 * h + 3 \in Nat \ {0}
      OBVIOUS
    <3>3. PICK a \in Octet, b \in Octet, c \in Octet :
            a = ByteOf(t, 3 * h + 1) /\ b = ByteOf(t, 3 * h + 2) /\ c = ByteOf(t, 3 * h + 3)
      BY <3>2, ByteIs
    <3>4. GroupOf(t, h) = Group(a, b, c)
      BY <3>3 DEF GroupOf
    <3>5. GroupOf(t, h)[j][1] = "code"
      BY <3>4, GroupGlyphs
    <3> QED
      BY <2>4, <2>5, <3>1, <3>5
  <2>6. CASE ~(k <= used)
    <3>1. DigitOf(t, h, j) = <<"pad", 0>>
      BY <2>3, <2>6 DEF DigitOf, used, n
    <3> QED
      BY <2>4, <2>6, <3>1
  <2> QED
    BY <2>5, <2>6
<1>8. ASSUME NEW k \in 1 .. used * 6
      PROVE  BitOfCodes(codes, k)
               = (ByteOf(t, (k - 1) \div 8 + 1) \div 2 ^ (7 - ((k - 1) % 8))) % 2
  <2>1. used * 6 \in Nat /\ used \in Nat /\ k \in Nat
    BY <1>1, <1>6
  <2>2. k - 1 \in Nat
    BY <2>1
  <2>3. PICK h \in Nat, m \in 0 .. 23 : k - 1 = 24 * h + m
    BY <2>2, ByTwentyFour
  <2> DEFINE d == (m \div 6) + 1
             e == (m \div 8) + 1
  <2>4. /\ (k - 1) \div 6 = 4 * h + (m \div 6) /\ (k - 1) % 6 = m % 6 /\ m \div 6 \in 0 .. 3
        /\ (k - 1) \div 8 = 3 * h + (m \div 8) /\ (k - 1) % 8 = m % 8 /\ m \div 8 \in 0 .. 2
    BY <2>3, PlacesOf
  <2>5. /\ d \in 1 .. 4 /\ (k - 1) \div 6 + 1 = 4 * h + d
        /\ e \in 1 .. 3 /\ (k - 1) \div 8 + 1 = 3 * h + e
    BY <2>4
  <2>6. 4 * h + d <= used
    <3>1. (k - 1) \div 6 + 1 <= used
      BY <2>1
    <3> QED
      BY <2>5, <3>1
  <2>7. /\ 3 * h + 1 \in Nat \ {0} /\ 3 * h + 2 \in Nat \ {0} /\ 3 * h + 3 \in Nat \ {0}
    OBVIOUS
  <2>8. PICK a \in Octet, b \in Octet, c \in Octet :
          a = ByteOf(t, 3 * h + 1) /\ b = ByteOf(t, 3 * h + 2) /\ c = ByteOf(t, 3 * h + 3)
    BY <2>7, ByteIs
  <2>9. codes[4 * h + d] = Group(a, b, c)[d]
    <3> HIDE DEF d
    <3>1. 4 * h + d <= Len(codes)
      BY <1>1, <1>6, <2>1, <2>5, <2>6
    <3>2. codes[4 * h + d] = DigitOf(t, h, d)
      BY <2>5, <3>1
    <3>3. DigitOf(t, h, d) = GroupOf(t, h)[d]
      BY <2>6 DEF DigitOf, used, n
    <3>4. GroupOf(t, h) = Group(a, b, c)
      BY <2>8 DEF GroupOf
    <3> QED
      BY <3>2, <3>3, <3>4
  <2>10. ByteOf(t, 3 * h + e) = <<a, b, c>>[e]
    <3> HIDE DEF e
    <3>1. e = 1 \/ e = 2 \/ e = 3
      BY <2>5
    <3> QED
      BY <2>8, <3>1
  <2>11. (Group(a, b, c)[d][2] \div 2 ^ (5 - (m % 6))) % 2
           = (<<a, b, c>>[e] \div 2 ^ (7 - (m % 8))) % 2
    BY BitsOfGroup
  <2>12. BitOfCodes(codes, k) = (Group(a, b, c)[d][2] \div 2 ^ (5 - (m % 6))) % 2
    <3> HIDE DEF d
    <3> QED
      BY <2>4, <2>5, <2>9 DEF BitOfCodes
  <2> HIDE DEF d, e
  <2> QED
    BY <2>4, <2>5, <2>10, <2>11, <2>12
<1>9. ASSUME NEW k \in 1 .. n * 8
      PROVE  BitOfCodes(codes, k) = BitOfBytes(t, k)
  <2>1. k \in 1 .. used * 6 /\ n * 8 \in Nat /\ k \in Nat
    BY <1>1, <1>6, SMTT(30)
  <2>2. (k - 1) \div 8 + 1 \in Nat \ {0} /\ (k - 1) \div 8 + 1 <= n
    BY <1>1, <2>1
  <2>3. ByteOf(t, (k - 1) \div 8 + 1) = t[(k - 1) \div 8 + 1]
    BY <2>2, ByteIs DEF n
  <2> QED
    BY <1>8, <2>1, <2>3 DEF BitOfBytes
<1>10. ASSUME NEW k \in n * 8 + 1 .. used * 6
       PROVE  BitOfCodes(codes, k) = 0
  <2>1. k \in 1 .. used * 6 /\ k \in Nat /\ k - 1 >= n * 8
    BY <1>1, <1>6
  <2>2. (k - 1) \div 8 + 1 \in Nat \ {0} /\ ~((k - 1) \div 8 + 1 <= n)
    BY <1>1, <2>1
  <2>3. ByteOf(t, (k - 1) \div 8 + 1) = 0
    BY <2>2, ByteIs DEF n
  <2>4. PICK m \in 0 .. 7 : m = (k - 1) % 8
    BY <2>1
  <2>5. PICK unit \in {1, 2, 4, 8, 16, 32, 64, 128} : unit = 2 ^ (7 - m)
    <3>1. m = 0 \/ m = 1 \/ m = 2 \/ m = 3 \/ m = 4 \/ m = 5 \/ m = 6 \/ m = 7
      OBVIOUS
    <3> QED
      BY <3>1, DigitPowers
  <2>6. (0 \div unit) % 2 = 0
    <3>1. /\ 0 \div 1 = 0 /\ 0 \div 2 = 0 /\ 0 \div 4 = 0 /\ 0 \div 8 = 0
          /\ 0 \div 16 = 0 /\ 0 \div 32 = 0 /\ 0 \div 64 = 0 /\ 0 \div 128 = 0
      OBVIOUS
    <3>2. 0 \div unit = 0
      BY <3>1, SMT
    <3>3. 0 % 2 = 0
      OBVIOUS
    <3> QED
      BY <3>2, <3>3
  <2> QED
    BY <1>8, <2>1, <2>3, <2>4, <2>5, <2>6
<1> QED
  BY <1>1, <1>5, <1>6, <1>7, <1>9, <1>10 DEF Base64Of, n

-----------------------------------------------------------------------------
(* Glyphs and their sequences                                              *)

LEMMA GlyphsOf ==
  ASSUME NEW s \in Seq(Token), \A k \in 1 .. Len(s) : s[k] \in Glyph
  PROVE  s \in Seq(Glyph)
<1>1. Len(s) \in Nat /\ s \in [1 .. Len(s) -> Token]
  BY LenProperties
<1>2. s \in [1 .. Len(s) -> Glyph]
  BY <1>1
<1> QED
  BY <1>1, <1>2, SeqDef

LEMMA GlyphsAre ==
  ASSUME NEW s \in Seq(Glyph)
  PROVE  /\ s \in Seq(Token) /\ Len(s) \in Nat
         /\ \A k \in 1 .. Len(s) : s[k] \in Glyph
<1>1. Len(s) \in Nat /\ s \in [1 .. Len(s) -> Glyph]
  BY LenProperties
<1>2. \A k \in 1 .. Len(s) : s[k] \in Glyph
  BY <1>1
<1>3. s \in [1 .. Len(s) -> Token]
  BY <1>1 DEF Glyph
<1> QED
  BY <1>1, <1>2, <1>3, SeqDef

LEMMA GlyphsAppended ==
  ASSUME NEW s \in Seq(Glyph), NEW t \in Seq(Glyph), NEW r, r = s \o t
  PROVE  /\ r \in Seq(Glyph) /\ Len(r) = Len(s) + Len(t)
         /\ \A k \in 1 .. Len(s) : r[k] = s[k]
         /\ \A k \in 1 .. Len(t) : r[Len(s) + k] = t[k]
<1>1. Len(s) \in Nat /\ Len(t) \in Nat
  BY LenProperties
<1>2. /\ s \o t \in Seq(Glyph) /\ Len(s \o t) = Len(s) + Len(t)
      /\ \A k \in 1 .. Len(s) + Len(t) :
           (s \o t)[k] = IF k <= Len(s) THEN s[k] ELSE t[k - Len(s)]
  BY ConcatProperties
<1>3. \A k \in 1 .. Len(s) : (s \o t)[k] = s[k]
  <2> SUFFICES ASSUME NEW k \in 1 .. Len(s) PROVE (s \o t)[k] = s[k]
    OBVIOUS
  <2>1. k \in 1 .. Len(s) + Len(t) /\ k <= Len(s)
    BY <1>1
  <2> QED
    BY <1>2, <2>1
<1>4. \A k \in 1 .. Len(t) : (s \o t)[Len(s) + k] = t[k]
  <2> SUFFICES ASSUME NEW k \in 1 .. Len(t) PROVE (s \o t)[Len(s) + k] = t[k]
    OBVIOUS
  <2>1. /\ Len(s) + k \in 1 .. Len(s) + Len(t) /\ ~(Len(s) + k <= Len(s))
        /\ Len(s) + k - Len(s) = k
    BY <1>1
  <2> QED
    BY <1>2, <2>1
<1> QED
  BY <1>2, <1>3, <1>4, Zenon

LEMMA GlyphsBegin ==
  ASSUME NEW s \in Seq(Glyph), NEW m \in Nat, m <= Len(s)
  PROVE  /\ SubSeq(s, 1, m) \in Seq(Glyph) /\ Len(SubSeq(s, 1, m)) = m
         /\ \A k \in 1 .. m : SubSeq(s, 1, m)[k] = s[k]
<1>1. 1 \in Int /\ m \in Int /\ m - 1 + 1 = m
  OBVIOUS
<1>2. \A k \in 1 .. m : s[k] \in Glyph
  <2>1. \A k \in 1 .. m : k \in 1 .. Len(s)
    BY GlyphsAre
  <2> QED
    BY <2>1, GlyphsAre
<1>3. /\ SubSeq(s, 1, m) \in Seq(Glyph)
      /\ Len(SubSeq(s, 1, m)) = IF 1 <= m THEN m - 1 + 1 ELSE 0
      /\ \A k \in 1 .. m - 1 + 1 : SubSeq(s, 1, m)[k] = s[1 + k - 1]
  BY <1>1, <1>2, SubSeqProperties
<1>4. Len(SubSeq(s, 1, m)) = m
  <2>1. Len(SubSeq(s, 1, m)) = IF 1 <= m THEN m - 1 + 1 ELSE 0
    BY <1>3
  <2> QED
    BY <2>1
<1>5. ASSUME NEW k \in 1 .. m
      PROVE  SubSeq(s, 1, m)[k] = s[k]
  <2>1. k \in 1 .. m - 1 + 1 /\ 1 + k - 1 = k
    OBVIOUS
  <2> QED
    BY <1>3, <2>1
<1> QED
  BY <1>3, <1>4, <1>5

LEMMA RunIsGlyphs ==
  ASSUME NEW kind \in Kind, NEW n \in Nat
  PROVE  /\ Times(kind, n) \in Seq(Glyph) /\ Len(Times(kind, n)) = n
<1> DEFINE s == Times(kind, n)
<1>1. s \in Seq(Token) /\ Len(s) = n /\ \A k \in 1 .. n : s[k] = <<kind, 0>>
  BY TimesProperties
<1>2. <<kind, 0>> \in Glyph
  <2>1. <<kind, 0>> \in Token
    BY DEF Token, Kind
  <2>2. <<kind, 0>>[2] < 64
    OBVIOUS
  <2> QED
    BY <2>1, <2>2 DEF Glyph
<1> HIDE DEF s
<1>3. s \in Seq(Glyph)
  BY <1>1, <1>2, GlyphsOf
<1> QED
  BY <1>1, <1>3 DEF s

LEMMA FixedGlyphs ==
  /\ Prefix \in Seq(Glyph) /\ ST \in Seq(Glyph) /\ Nul \in Seq(Glyph)
  /\ <<>> \in Seq(Glyph) /\ Len(<<>>) = 0
<1>1. "fixed" \in Kind /\ "end" \in Kind
  BY DEF Kind
<1>2. Prefix \in Seq(Glyph) /\ ST \in Seq(Glyph)
  BY <1>1, RunIsGlyphs DEF Prefix, ST
<1>3. <<"nul", 0>> \in Glyph
  BY DEF Glyph, Token
<1>4. Nul \in Seq(Glyph)
  BY <1>3 DEF Nul
<1> QED
  BY <1>2, <1>4

LEMMA GroupIsGlyphs ==
  ASSUME NEW a \in Octet, NEW b \in Octet, NEW c \in Octet
  PROVE  Group(a, b, c) \in Seq(Glyph) /\ Len(Group(a, b, c)) = 4
<1>1. Group(a, b, c) \in Seq(Token) /\ Len(Group(a, b, c)) = 4
  BY GroupType
<1>2. \A k \in 1 .. 4 : Group(a, b, c)[k] \in Glyph
  BY GroupGlyphs
<1> QED
  BY <1>1, <1>2, GlyphsOf

\* The beginning of a group, followed by pads.
LEMMA PaddedGroup ==
  ASSUME NEW four \in Seq(Glyph), Len(four) = 4, NEW m \in 2 .. 3, NEW p \in Nat, p = 4 - m
  PROVE  LET r == SubSeq(four, 1, m) \o Times("pad", p)
         IN  /\ r \in Seq(Glyph) /\ Len(r) = 4
             /\ \A j \in 1 .. 4 : r[j] = IF j <= m THEN four[j] ELSE <<"pad", 0>>
<1>1. m \in Nat /\ m <= Len(four)
  OBVIOUS
<1>2. PICK codes \in Seq(Glyph) :
        /\ codes = SubSeq(four, 1, m) /\ Len(codes) = m
        /\ \A k \in 1 .. m : codes[k] = four[k]
  <2>1. /\ SubSeq(four, 1, m) \in Seq(Glyph) /\ Len(SubSeq(four, 1, m)) = m
        /\ \A k \in 1 .. m : SubSeq(four, 1, m)[k] = four[k]
    BY <1>1, GlyphsBegin
  <2> QED
    BY <2>1
<1>3. PICK pads \in Seq(Glyph) :
        /\ pads = Times("pad", p) /\ Len(pads) = p
        /\ \A k \in 1 .. p : pads[k] = <<"pad", 0>>
  <2>1. "pad" \in Kind
    BY DEF Kind
  <2> QED
    BY <2>1, RunIsGlyphs, TimesProperties
<1>4. PICK r : r = codes \o pads
  OBVIOUS
<1>5. r \in Seq(Glyph)
  BY <1>4, GlyphsAppended
<1>6. Len(r) = Len(codes) + Len(pads)
  BY <1>4, GlyphsAppended
<1>7. \A k \in 1 .. Len(codes) : r[k] = codes[k]
  BY <1>4, GlyphsAppended
<1>8. \A k \in 1 .. Len(pads) : r[Len(codes) + k] = pads[k]
  BY <1>4, GlyphsAppended
<1>9. ASSUME NEW j \in 1 .. 4
      PROVE  r[j] = IF j <= m THEN four[j] ELSE <<"pad", 0>>
  <2>1. CASE j <= m
    BY <1>2, <1>7, <2>1
  <2>2. CASE ~(j <= m)
    <3>1. j - m \in 1 .. p /\ j = m + (j - m)
      BY <2>2
    <3>2. r[m + (j - m)] = <<"pad", 0>>
      BY <1>2, <1>3, <1>8, <3>1
    <3> QED
      BY <2>2, <3>1, <3>2
  <2> QED
    BY <2>1, <2>2
<1>10. Len(r) = 4
  BY <1>2, <1>3, <1>6
<1> QED
  BY <1>2, <1>3, <1>4, <1>5, <1>9, <1>10, Zenon

LEMMA RestIs ==
  ASSUME NEW s \in Seq(Octet), Len(s) \in 1 .. 2
  PROVE  /\ Rest(s) \in Seq(Glyph) /\ Len(Rest(s)) = 4
         /\ \A j \in 1 .. 4 :
              Rest(s)[j] = IF j <= Len(s) + 1 THEN GroupOf(s, 0)[j] ELSE <<"pad", 0>>
<1>1. 0 \in Octet /\ 1 \in Nat \ {0} /\ 2 \in Nat \ {0} /\ 3 \in Nat \ {0}
  BY DEF Octet
<1>2. PICK a \in Octet, b \in Octet, c \in Octet :
        a = ByteOf(s, 1) /\ b = ByteOf(s, 2) /\ c = ByteOf(s, 3)
  BY <1>1, ByteIs
<1>3. GroupOf(s, 0) = Group(a, b, c)
  <2>1. 3 * 0 + 1 = 1 /\ 3 * 0 + 2 = 2 /\ 3 * 0 + 3 = 3
    OBVIOUS
  <2> QED
    BY <1>2, <2>1 DEF GroupOf
<1>4. PICK four \in Seq(Glyph) : four = Group(a, b, c) /\ Len(four) = 4
  BY GroupIsGlyphs
<1>5. CASE Len(s) = 1
  <2>1. a = s[1] /\ b = 0 /\ c = 0
    BY <1>2, <1>5 DEF ByteOf
  <2>2. Rest(s) = SubSeq(four, 1, 2) \o Times("pad", 2)
    BY <1>4, <1>5, <2>1 DEF Rest
  <2>3. 2 \in 2 .. 3 /\ 2 \in Nat /\ 2 = 4 - 2
    OBVIOUS
  <2>4. /\ Rest(s) \in Seq(Glyph) /\ Len(Rest(s)) = 4
        /\ \A j \in 1 .. 4 : Rest(s)[j] = IF j <= 2 THEN four[j] ELSE <<"pad", 0>>
    BY <1>4, <2>2, <2>3, PaddedGroup
  <2> QED
    BY <1>3, <1>4, <1>5, <2>4
<1>6. CASE Len(s) = 2
  <2>1. a = s[1] /\ b = s[2] /\ c = 0
    BY <1>2, <1>6 DEF ByteOf
  <2>2. Rest(s) = SubSeq(four, 1, 3) \o Times("pad", 1)
    BY <1>4, <1>6, <2>1 DEF Rest
  <2>3. 3 \in 2 .. 3 /\ 1 \in Nat /\ 1 = 4 - 3
    OBVIOUS
  <2>4. /\ Rest(s) \in Seq(Glyph) /\ Len(Rest(s)) = 4
        /\ \A j \in 1 .. 4 : Rest(s)[j] = IF j <= 3 THEN four[j] ELSE <<"pad", 0>>
    BY <1>4, <2>2, <2>3, PaddedGroup
  <2> QED
    BY <1>3, <1>4, <1>6, <2>4
<1> QED
  BY <1>5, <1>6

-----------------------------------------------------------------------------
(* What is written at each point                                           *)

\* The digits written so far are those of the text.
DigitsWritten ==
  \A h \in Nat, j \in 1 .. 4 :
    7 + (4 * h + j) <= Len(buf) => buf[7 + (4 * h + j)] = DigitOf(text, h, j)

WrittenInv ==
  /\ EscapeInv
  /\ i \in Nat /\ returned \in Nat /\ buf \in Seq(Glyph)
  /\ pc # "done" => returned = 0
  /\ pc \in {"groups", "suffix"} => DigitsWritten
  /\ pc = "done" => DecodesToText /\ FormattedWhole

LEMMA InitWrites == EOInit => WrittenInv
<1> SUFFICES ASSUME EOInit PROVE WrittenInv
  OBVIOUS
<1>1. EscapeInv
  BY InitEstablishes
<1>2. pc = "idle" /\ i = 0 /\ returned = 0 /\ buf = <<>>
  BY DEF EOInit
<1> QED
  BY <1>1, <1>2, FixedGlyphs DEF WrittenInv

\* What is returned by a refusal, or written before the first group.
LEMMA FormatOsc52Writes ==
  ASSUME WrittenInv, NEW t \in Seq(Octet), NEW n \in Nat, FormatOsc52(t, n)
  PROVE  WrittenInv'
<1>1. EscapeInv'
  BY FormatOsc52Keeps DEF WrittenInv
<1>2. /\ pc = "idle" /\ i' = i /\ returned' = returned /\ returned = 0 /\ i \in Nat
      /\ asked' = asked /\ asked = <<>>
      /\ buf \in Seq(Glyph)
  BY DEF FormatOsc52, WrittenInv, EscapeInv
<1>3. CASE n < Needed(Len(t))
  <2>1. pc' = "done" /\ buf' = buf
    BY <1>3 DEF FormatOsc52
  <2>2. DecodesToText' /\ FormattedWhole'
    BY <1>2 DEF DecodesToText, FormattedWhole
  <2> QED
    BY <1>1, <1>2, <2>1, <2>2 DEF WrittenInv
<1>4. CASE ~(n < Needed(Len(t)))
  <2>1. pc' = "groups" /\ buf' = Prefix
    BY <1>4 DEF FormatOsc52
  <2>2. buf' \in Seq(Glyph) /\ Len(buf') = 7
    BY <2>1, FixedGlyphs, FixedParts
  <2>3. DigitsWritten'
    BY <2>2 DEF DigitsWritten
  <2> QED
    BY <1>1, <1>2, <2>1, <2>2, <2>3 DEF WrittenInv
<1> QED
  BY <1>3, <1>4

\* Each group is written at its place.
LEMMA EncodeGroupWrites ==
  ASSUME WrittenInv, EncodeGroup
  PROVE  WrittenInv'
<1>1. EscapeInv' /\ EscapeInv
  BY EncodeGroupKeeps DEF WrittenInv
<1>2. /\ pc = "groups" /\ pc' = pc /\ i + 3 <= Len(text) /\ i' = i + 3
      /\ text' = text /\ returned' = returned /\ returned = 0
      /\ buf \in Seq(Glyph) /\ DigitsWritten
      /\ text \in Seq(Octet) /\ Len(text) \in Nat
  BY LenProperties DEF EncodeGroup, MoreGroups, WrittenInv, EscapeInv
<1>3. PICK g \in Nat : i = 3 * g /\ 3 * g <= Len(text) /\ Len(buf) = 7 + 4 * g
  BY <1>1, <1>2 DEF EscapeInv
<1>4. /\ 3 * g + 1 \in Nat \ {0} /\ 3 * g + 2 \in Nat \ {0} /\ 3 * g + 3 \in Nat \ {0}
      /\ 3 * g + 3 <= Len(text)
  BY <1>2, <1>3
<1>5. PICK a \in Octet, b \in Octet, c \in Octet :
        a = ByteOf(text, 3 * g + 1) /\ b = ByteOf(text, 3 * g + 2)
        /\ c = ByteOf(text, 3 * g + 3)
  BY <1>2, <1>4, ByteIs
<1>6. PICK four \in Seq(Glyph) : four = Group(a, b, c) /\ Len(four) = 4
  BY GroupIsGlyphs
<1>7. buf' = buf \o four
  <2>1. /\ i + 1 = 3 * g + 1 /\ i + 2 = 3 * g + 2 /\ i + 3 = 3 * g + 3
        /\ 3 * g + 1 <= Len(text) /\ 3 * g + 2 <= Len(text)
    BY <1>2, <1>3, <1>4
  <2>2. a = text[i + 1] /\ b = text[i + 2] /\ c = text[i + 3]
    BY <1>4, <1>5, <2>1 DEF ByteOf
  <2>3. buf' = buf \o Group(text[i + 1], text[i + 2], text[i + 3])
    BY DEF EncodeGroup
  <2> QED
    BY <1>6, <2>2, <2>3
<1>8. four = GroupOf(text, g)
  BY <1>5, <1>6 DEF GroupOf
<1>9. /\ buf' \in Seq(Glyph)
      /\ \A k \in 1 .. Len(buf) : buf'[k] = buf[k]
      /\ \A k \in 1 .. 4 : buf'[Len(buf) + k] = four[k]
  <2>1. buf' \in Seq(Glyph)
    BY <1>2, <1>7, GlyphsAppended
  <2>2. \A k \in 1 .. Len(buf) : buf'[k] = buf[k]
    BY <1>2, <1>7, GlyphsAppended
  <2>3. \A k \in 1 .. Len(four) : buf'[Len(buf) + k] = four[k]
    BY <1>2, <1>7, GlyphsAppended
  <2> QED
    BY <1>6, <2>1, <2>2, <2>3
<1>10. Len(buf') = 7 + 4 * g + 4
  <2>1. Len(buf') = Len(buf) + Len(four)
    BY <1>2, <1>7, GlyphsAppended
  <2> QED
    BY <1>3, <1>6, <2>1
<1>11. UsedDigits(Len(text)) >= 4 * g + 4
  <2>1. PICK q \in Nat, r \in 0 .. 2 : Len(text) = 3 * q + r
    BY <1>2, ByThree
  <2>2. UsedDigits(Len(text)) = 4 * q + (IF r = 0 THEN 0 ELSE r + 1)
    BY <2>1, UsedIs
  <2>3. q >= g + 1
    BY <1>4, <2>1
  <2> QED
    BY <2>2, <2>3
<1>12. DigitsWritten'
  <2> SUFFICES ASSUME NEW h \in Nat, NEW j \in 1 .. 4, 7 + (4 * h + j) <= Len(buf')
               PROVE  buf'[7 + (4 * h + j)] = DigitOf(text', h, j)
    BY DEF DigitsWritten
  <2>1. CASE 4 * h + j <= 4 * g
    <3>1. 7 + (4 * h + j) \in 1 .. Len(buf) /\ 7 + (4 * h + j) <= Len(buf)
      BY <1>3, <2>1
    <3>2. buf[7 + (4 * h + j)] = DigitOf(text, h, j)
      BY <1>2, <3>1 DEF DigitsWritten
    <3>3. buf'[7 + (4 * h + j)] = buf[7 + (4 * h + j)]
      BY <1>9, <3>1
    <3> QED
      BY <1>2, <3>2, <3>3
  <2>2. CASE ~(4 * h + j <= 4 * g)
    <3>1. h = g
      BY <1>10, <2>2
    <3>2. 7 + (4 * h + j) = Len(buf) + j
      BY <1>3, <3>1
    <3>3. 4 * h + j <= UsedDigits(Len(text))
      <4>1. UsedDigits(Len(text)) \in Int
        <5>1. PICK q \in Nat, r \in 0 .. 2 : Len(text) = 3 * q + r
          BY <1>2, ByThree
        <5>2. UsedDigits(Len(text)) = 4 * q + (IF r = 0 THEN 0 ELSE r + 1)
          BY <5>1, UsedIs
        <5> QED
          BY <5>2
      <4> QED
        BY <1>11, <3>1, <4>1
    <3>4. DigitOf(text, h, j) = four[j]
      BY <1>8, <3>1, <3>3 DEF DigitOf
    <3>5. buf'[Len(buf) + j] = four[j]
      BY <1>9
    <3> QED
      BY <1>2, <3>2, <3>4, <3>5
  <2> QED
    BY <2>1, <2>2
<1>13. i' \in Nat
  BY <1>2, <1>3
<1> QED
  BY <1>1, <1>2, <1>9, <1>12, <1>13 DEF WrittenInv

\* What is left over is the beginning of a group, filled with zeros and pads.
LEMMA EncodeRestWrites ==
  ASSUME WrittenInv, EncodeRest
  PROVE  WrittenInv'
<1>1. EscapeInv' /\ EscapeInv
  BY EncodeRestKeeps DEF WrittenInv
<1>2. /\ pc = "groups" /\ pc' = "suffix" /\ ~(i + 3 <= Len(text)) /\ i' = i
      /\ text' = text /\ returned' = returned /\ returned = 0
      /\ buf \in Seq(Glyph) /\ DigitsWritten
      /\ text \in Seq(Octet) /\ Len(text) \in Nat
  BY LenProperties DEF EncodeRest, MoreGroups, WrittenInv, EscapeInv
<1>3. PICK g \in Nat : i = 3 * g /\ 3 * g <= Len(text) /\ Len(buf) = 7 + 4 * g
  BY <1>1, <1>2 DEF EscapeInv
<1>4. PICK left \in Seq(Octet) : left = SubSeq(text, i + 1, Len(text))
  <2>1. i \in 0 .. Len(text)
    BY <1>2, <1>3
  <2> QED
    BY <1>2, <2>1, Ending, Zenon
<1>5. PICK r \in 0 .. 2 : /\ Len(left) = r /\ Len(text) = 3 * g + r
                          /\ \A k \in 1 .. r : left[k] = text[3 * g + k]
  <2>1. Len(text) - 3 * g \in 0 .. 2
    BY <1>2, <1>3
  <2>2. /\ i + 1 \in Int /\ Len(text) \in Int
        /\ \A k \in i + 1 .. Len(text) : text[k] \in Octet
    <3>1. \A k \in i + 1 .. Len(text) : k \in 1 .. Len(text)
      BY <1>2, <1>3
    <3> QED
      BY <1>2, <1>3, <3>1, ElementOfSeq
  <2>3. /\ Len(SubSeq(text, i + 1, Len(text)))
             = IF i + 1 <= Len(text) THEN Len(text) - (i + 1) + 1 ELSE 0
        /\ \A k \in 1 .. Len(text) - (i + 1) + 1 :
             SubSeq(text, i + 1, Len(text))[k] = text[i + 1 + k - 1]
    BY <2>2, SubSeqProperties
  <2>4. Len(left) = Len(text) - 3 * g
    <3>1. Len(left) = IF i + 1 <= Len(text) THEN Len(text) - (i + 1) + 1 ELSE 0
      BY <1>4, <2>3, Zenon
    <3>2. i \in Nat /\ Len(text) \in Nat /\ i = 3 * g /\ i <= Len(text)
      BY <1>2, <1>3
    <3>3. CASE i + 1 <= Len(text)
      BY <3>1, <3>2, <3>3
    <3>4. CASE ~(i + 1 <= Len(text))
      <4>1. Len(left) = 0
        BY <3>1, <3>4, Zenon
      <4> QED
        BY <3>2, <3>4, <4>1
    <3> QED
      BY <3>3, <3>4
  <2>5. \A k \in 1 .. Len(text) - 3 * g : left[k] = text[3 * g + k]
    <3> SUFFICES ASSUME NEW k \in 1 .. Len(text) - 3 * g
                 PROVE  left[k] = text[3 * g + k]
      OBVIOUS
    <3>1. k \in 1 .. Len(text) - (i + 1) + 1 /\ i + 1 + k - 1 = 3 * g + k
      BY <1>2, <1>3
    <3> QED
      BY <1>4, <2>3, <3>1
  <2>6. Len(text) = 3 * g + (Len(text) - 3 * g)
    BY <1>2
  <2> QED
    BY <2>1, <2>4, <2>5, <2>6
<1>6. buf' = buf \o Rest(left)
  BY <1>4 DEF EncodeRest
<1>7. UsedDigits(Len(text)) = 4 * g + (IF r = 0 THEN 0 ELSE r + 1)
  BY <1>5, UsedIs
<1>8. CASE r = 0
  <2>1. Rest(left) = <<>>
    BY <1>5, <1>8 DEF Rest
  <2>2. buf' = buf
    BY <1>2, <1>6, <2>1, ConcatEmptySeq
  <2>3. DigitsWritten'
    BY <1>2, <2>2 DEF DigitsWritten
  <2> QED
    BY <1>1, <1>2, <1>3, <2>2, <2>3 DEF WrittenInv
<1>9. CASE r \in 1 .. 2
  <2>1. PICK four \in Seq(Glyph) :
          /\ four = Rest(left) /\ Len(four) = 4
          /\ \A j \in 1 .. 4 :
               four[j] = IF j <= r + 1 THEN GroupOf(left, 0)[j] ELSE <<"pad", 0>>
    BY <1>5, <1>9, RestIs
  <2>2. buf' = buf \o four
    BY <1>6, <2>1
  <2>3. GroupOf(left, 0) = GroupOf(text, g)
    <3>1. \A k \in 1 .. 3 : ByteOf(left, k) = ByteOf(text, 3 * g + k)
      <4> SUFFICES ASSUME NEW k \in 1 .. 3
                   PROVE  ByteOf(left, k) = ByteOf(text, 3 * g + k)
        OBVIOUS
      <4>1. CASE k <= r
        <5>1. k \in 1 .. r /\ 3 * g + k <= Len(text) /\ k <= Len(left)
          BY <1>5, <4>1
        <5> QED
          BY <1>5, <5>1 DEF ByteOf
      <4>2. CASE ~(k <= r)
        <5>1. ~(3 * g + k <= Len(text)) /\ ~(k <= Len(left))
          BY <1>5, <4>2
        <5> QED
          BY <5>1 DEF ByteOf
      <4> QED
        BY <4>1, <4>2
    <3>2. 3 * 0 + 1 = 1 /\ 3 * 0 + 2 = 2 /\ 3 * 0 + 3 = 3
      OBVIOUS
    <3>3. /\ ByteOf(left, 1) = ByteOf(text, 3 * g + 1)
          /\ ByteOf(left, 2) = ByteOf(text, 3 * g + 2)
          /\ ByteOf(left, 3) = ByteOf(text, 3 * g + 3)
      BY <3>1
    <3> QED
      BY <3>2, <3>3 DEF GroupOf
  <2>4. /\ buf' \in Seq(Glyph)
        /\ \A k \in 1 .. Len(buf) : buf'[k] = buf[k]
        /\ \A k \in 1 .. 4 : buf'[Len(buf) + k] = four[k]
    <3>1. buf' \in Seq(Glyph)
      BY <1>2, <2>2, GlyphsAppended
    <3>2. \A k \in 1 .. Len(buf) : buf'[k] = buf[k]
      BY <1>2, <2>2, GlyphsAppended
    <3>3. \A k \in 1 .. Len(four) : buf'[Len(buf) + k] = four[k]
      BY <1>2, <2>2, GlyphsAppended
    <3> QED
      BY <2>1, <3>1, <3>2, <3>3
  <2>5. Len(buf') = 7 + 4 * g + 4
    <3>1. Len(buf') = Len(buf) + Len(four)
      BY <1>2, <2>2, GlyphsAppended
    <3> QED
      BY <1>3, <2>1, <3>1
  <2>6. DigitsWritten'
    <3> SUFFICES ASSUME NEW h \in Nat, NEW j \in 1 .. 4, 7 + (4 * h + j) <= Len(buf')
                 PROVE  buf'[7 + (4 * h + j)] = DigitOf(text', h, j)
      BY DEF DigitsWritten
    <3>1. CASE 4 * h + j <= 4 * g
      <4>1. 7 + (4 * h + j) \in 1 .. Len(buf) /\ 7 + (4 * h + j) <= Len(buf)
        BY <1>3, <3>1
      <4>2. buf[7 + (4 * h + j)] = DigitOf(text, h, j)
        BY <1>2, <4>1 DEF DigitsWritten
      <4>3. buf'[7 + (4 * h + j)] = buf[7 + (4 * h + j)]
        BY <2>4, <4>1
      <4> QED
        BY <1>2, <4>2, <4>3
    <3>2. CASE ~(4 * h + j <= 4 * g)
      <4>1. h = g
        BY <2>5, <3>2
      <4>2. 7 + (4 * h + j) = Len(buf) + j
        BY <1>3, <4>1
      <4>3. 4 * h + j <= UsedDigits(Len(text)) <=> j <= r + 1
        BY <1>7, <1>9, <4>1
      <4>4. DigitOf(text, h, j) = four[j]
        BY <2>1, <2>3, <4>1, <4>3 DEF DigitOf
      <4>5. buf'[Len(buf) + j] = four[j]
        BY <2>4
      <4> QED
        BY <1>2, <4>2, <4>4, <4>5
    <3> QED
      BY <3>1, <3>2
  <2> QED
    BY <1>1, <1>2, <1>3, <2>4, <2>6 DEF WrittenInv
<1> QED
  BY <1>8, <1>9

\* With the terminator behind the digits, all that is between them decodes to
\* the text.
LEMMA FinishWrites ==
  ASSUME WrittenInv, Finish
  PROVE  WrittenInv'
<1>1. EscapeInv' /\ EscapeInv
  BY FinishKeeps DEF WrittenInv
<1>2. /\ pc = "suffix" /\ pc' = "done" /\ text' = text /\ i' = i /\ asked' = asked
      /\ i \in Nat /\ buf \in Seq(Glyph) /\ DigitsWritten
      /\ text \in Seq(Octet) /\ Len(text) \in Nat
  BY LenProperties DEF Finish, WrittenInv, EscapeInv
<1>3. PICK n \in Nat : n = EncodedLen(Len(text)) /\ Needed(Len(text)) = 9 + n
  BY <1>2, EncodedLenType
<1>4. Len(buf) = 7 + n /\ asked = <<>>
  BY <1>1, <1>2, <1>3 DEF EscapeInv, Encoding
<1>5. PICK end \in Seq(Glyph) : buf' = buf \o end /\ returned' = 9 + n
  <2>1. Len(buf) = Len(Prefix) + EncodedLen(Len(text))
    BY <1>3, <1>4, FixedParts
  <2>2. /\ buf' = buf \o (ST \o (IF buf_size > Needed(Len(text)) THEN Nul ELSE <<>>))
        /\ returned' = Needed(Len(text))
    BY <2>1 DEF Finish
  <2>3. PICK nul \in Seq(Glyph) :
          nul = IF buf_size > Needed(Len(text)) THEN Nul ELSE <<>>
    BY FixedGlyphs
  <2>4. PICK end \in Seq(Glyph) : end = ST \o nul
    BY FixedGlyphs, ConcatProperties
  <2> QED
    BY <1>3, <2>2, <2>3, <2>4
<1>6. buf' \in Seq(Glyph)
  BY <1>2, <1>5, GlyphsAppended
<1>7. \A k \in 1 .. 7 + n : buf'[k] = buf[k] /\ buf'[k] \in Token
  <2>1. \A k \in 1 .. Len(buf) : buf'[k] = buf[k]
    BY <1>2, <1>5, GlyphsAppended
  <2>2. \A k \in 1 .. Len(buf) : buf[k] \in Token
    BY <1>2, GlyphsAre DEF Glyph
  <2> QED
    BY <1>4, <2>1, <2>2
<1>8. PICK codes \in Seq(Token) :
        /\ codes = SubSeq(buf', 8, 7 + n) /\ Len(codes) = n
        /\ \A k \in 1 .. n : codes[k] = buf[7 + k]
  <2>1. \A k \in 8 .. 7 + n : buf'[k] \in Token
    BY <1>7
  <2>2. 8 \in Int /\ 7 + n \in Int /\ 7 + n - 8 + 1 = n /\ (8 <= 7 + n <=> n # 0)
    OBVIOUS
  <2>3. /\ SubSeq(buf', 8, 7 + n) \in Seq(Token)
        /\ Len(SubSeq(buf', 8, 7 + n)) = IF 8 <= 7 + n THEN 7 + n - 8 + 1 ELSE 0
        /\ \A k \in 1 .. 7 + n - 8 + 1 : SubSeq(buf', 8, 7 + n)[k] = buf'[8 + k - 1]
    BY <2>1, <2>2, SubSeqProperties
  <2>4. Len(SubSeq(buf', 8, 7 + n)) = n
    BY <2>2, <2>3
  <2>5. \A k \in 1 .. n : SubSeq(buf', 8, 7 + n)[k] = buf[7 + k]
    <3> SUFFICES ASSUME NEW k \in 1 .. n
                 PROVE  SubSeq(buf', 8, 7 + n)[k] = buf[7 + k]
      OBVIOUS
    <3>1. k \in 1 .. 7 + n - 8 + 1 /\ 8 + k - 1 = 7 + k /\ 7 + k \in 1 .. 7 + n
      OBVIOUS
    <3> QED
      BY <1>7, <2>3, <3>1
  <2> QED
    BY <2>3, <2>4, <2>5
<1>9. \A h \in Nat, j \in 1 .. 4 :
        4 * h + j <= Len(codes) => codes[4 * h + j] = DigitOf(text, h, j)
  <2> SUFFICES ASSUME NEW h \in Nat, NEW j \in 1 .. 4, 4 * h + j <= n
               PROVE  codes[4 * h + j] = DigitOf(text, h, j)
    BY <1>8
  <2>1. 4 * h + j \in 1 .. n /\ 7 + (4 * h + j) <= Len(buf)
    BY <1>4
  <2>2. buf[7 + (4 * h + j)] = DigitOf(text, h, j)
    BY <1>2, <2>1 DEF DigitsWritten
  <2> QED
    BY <1>8, <2>1, <2>2
<1>10. Base64Of(text, codes)
  BY <1>2, <1>3, <1>8, <1>9, Decodes
<1>11. DecodesToText'
  <2>1. Len(Prefix) + 1 = 8 /\ returned' - Len(ST) = 7 + n
    BY <1>5, FixedParts
  <2>2. codes = SubSeq(buf', Len(Prefix) + 1, returned' - Len(ST))
    BY <1>8, <2>1
  <2>3. Base64Of(text', SubSeq(buf', Len(Prefix) + 1, returned' - Len(ST)))
    BY <1>2, <1>10, <2>2
  <2> QED
    BY <2>3, Zenon DEF DecodesToText, Base64Of
<1>12. FormattedWhole'
  BY <1>2, <1>4 DEF FormattedWhole
<1>13. returned' \in Nat
  BY <1>5
<1> QED
  BY <1>1, <1>2, <1>6, <1>11, <1>12, <1>13 DEF WrittenInv

\* A formatter that is given more than its sequence is long writes all of it.
LEMMA FormatWrites ==
  ASSUME WrittenInv, NEW s \in Seq(Glyph), s # <<>>, NEW least \in Nat \ {0}, NEW n \in Nat,
         n # TitleSize => Len(s) < least, Format(s, least, n)
  PROVE  WrittenInv'
<1>1. s \in Seq(Token) /\ Len(s) \in Nat
  BY GlyphsAre
<1>2. EscapeInv'
  BY <1>1, FormatKeeps DEF WrittenInv
<1>3. /\ pc = "idle" /\ pc' = "done" /\ buf_size' = n /\ asked' = s
      /\ i' = i /\ returned' = returned /\ returned = 0 /\ i \in Nat
  BY DEF Format, WrittenInv
<1>4. DecodesToText'
  BY <1>3 DEF DecodesToText
<1>5. buf' \in Seq(Glyph) /\ (n # TitleSize /\ buf' # <<>> => buf' = s \o Nul)
  <2>1. CASE n < least
    <3>1. buf' = <<>>
      BY <2>1 DEF Format
    <3> QED
      BY <3>1, FixedGlyphs
  <2>2. CASE ~(n < least)
    <3>1. PICK m \in 0 .. Len(s) : /\ m = (IF Len(s) < n THEN Len(s) ELSE n - 1)
                                   /\ n # TitleSize => m = Len(s)
      BY <1>1, <2>2
    <3>2. m \in Nat /\ m <= Len(s)
      BY <1>1
    <3>3. PICK cut \in Seq(Glyph) : cut = SubSeq(s, 1, m) /\ (m = Len(s) => cut = s)
      <4>1. /\ SubSeq(s, 1, m) \in Seq(Glyph) /\ Len(SubSeq(s, 1, m)) = m
            /\ \A k \in 1 .. m : SubSeq(s, 1, m)[k] = s[k]
        BY <3>2, GlyphsBegin
      <4>2. m = Len(s) => SubSeq(s, 1, m) = s
        BY <4>1, SeqEqual
      <4> QED
        BY <4>1, <4>2
    <3>4. buf' = cut \o Nul
      <4>1. buf' = SubSeq(s, 1, IF Len(s) < n THEN Len(s) ELSE n - 1) \o Nul
        BY <2>2 DEF Format, Printed
      <4> QED
        BY <3>1, <3>3, <4>1, Zenon
    <3>5. buf' \in Seq(Glyph)
      BY <3>4, FixedGlyphs, ConcatProperties
    <3>6. n # TitleSize => buf' = s \o Nul
      BY <3>1, <3>3, <3>4, Zenon
    <3> QED
      BY <3>5, <3>6
  <2> QED
    BY <2>1, <2>2
<1>6. FormattedWhole'
  BY <1>3, <1>5 DEF FormattedWhole
<1> QED
  BY <1>2, <1>3, <1>4, <1>5, <1>6 DEF WrittenInv

LEMMA ReturnWrites ==
  ASSUME WrittenInv, Return
  PROVE  WrittenInv'
<1>1. EscapeInv'
  BY ReturnKeeps DEF WrittenInv
<1>2. pc' = "idle" /\ i' = 0 /\ returned' = 0 /\ buf' = <<>>
  BY DEF Return
<1> QED
  BY <1>1, <1>2, FixedGlyphs DEF WrittenInv

\* A run behind what is there.
LEMMA RunAfter ==
  ASSUME NEW kind \in Kind, NEW k \in Nat, NEW s \in Seq(Glyph)
  PROVE  \E t \in Seq(Glyph) : t = s \o Times(kind, k) /\ Len(t) = Len(s) + k
<1>1. PICK run \in Seq(Glyph) : run = Times(kind, k) /\ Len(run) = k
  BY RunIsGlyphs
<1>2. s \o run \in Seq(Glyph) /\ Len(s \o run) = Len(s) + Len(run)
  BY ConcatProperties
<1> QED
  BY <1>1, <1>2

LEMMA KindsAre ==
  /\ "fixed" \in Kind /\ "digit" \in Kind /\ "end" \in Kind
  /\ 1 \in Nat /\ 2 \in Nat /\ 4 \in Nat /\ 7 \in Nat
BY DEF Kind

\* How long the sequences are that formatters are asked for.
LEMMA NumbersLength ==
  ASSUME NEW a \in Nat, NEW b \in Nat
  PROVE  TwoNumbers(a, b) \in Seq(Glyph) /\ Len(TwoNumbers(a, b)) = 4 + a + b
<1>1. PICK s \in Seq(Glyph) : s = Times("fixed", 2) /\ Len(s) = 2
  BY KindsAre, RunIsGlyphs
<1>2. PICK t \in Seq(Glyph) : t = s \o Times("digit", a) /\ Len(t) = Len(s) + a
  BY KindsAre, RunAfter, Zenon
<1>3. PICK u \in Seq(Glyph) : u = t \o Times("fixed", 1) /\ Len(u) = Len(t) + 1
  BY KindsAre, RunAfter, Zenon
<1>4. PICK v \in Seq(Glyph) : v = u \o Times("digit", b) /\ Len(v) = Len(u) + b
  BY KindsAre, RunAfter, Zenon
<1>5. PICK w \in Seq(Glyph) : w = v \o Times("end", 1) /\ Len(w) = Len(v) + 1
  BY KindsAre, RunAfter, Zenon
<1>6. TwoNumbers(a, b) = w
  BY <1>1, <1>2, <1>3, <1>4, <1>5, Zenon DEF TwoNumbers
<1>7. Len(w) = 4 + a + b
  <2>1. /\ Len(s) = 2 /\ Len(t) = Len(s) + a /\ Len(u) = Len(t) + 1 /\ Len(v) = Len(u) + b
        /\ Len(w) = Len(v) + 1
    BY <1>1, <1>2, <1>3, <1>4, <1>5, Zenon
  <2> QED
    BY <2>1, SMT
<1> QED
  BY <1>6, <1>7

LEMMA TitleIsGlyphs ==
  ASSUME NEW a \in Nat
  PROVE  Titled(a) \in Seq(Glyph)
<1>1. PICK s \in Seq(Glyph) : s = Times("fixed", 4) /\ Len(s) = 4
  BY KindsAre, RunIsGlyphs
<1>2. PICK t \in Seq(Glyph) : t = s \o Times("digit", a) /\ Len(t) = Len(s) + a
  BY KindsAre, RunAfter, Zenon
<1>3. t \o ST \in Seq(Glyph)
  BY FixedGlyphs, ConcatProperties
<1> QED
  BY <1>1, <1>2, <1>3 DEF Titled

LEMMA ColorLength ==
  ASSUME NEW a \in Nat
  PROVE  \E s \in Seq(Glyph) :
           s = Times("fixed", 7) \o Times("digit", a) \o Times("end", 1) /\ Len(s) = 8 + a
<1>1. PICK s \in Seq(Glyph) : s = Times("fixed", 7) /\ Len(s) = 7
  BY KindsAre, RunIsGlyphs
<1>2. PICK t \in Seq(Glyph) : t = s \o Times("digit", a) /\ Len(t) = Len(s) + a
  BY KindsAre, RunAfter, Zenon
<1>3. PICK u \in Seq(Glyph) : u = t \o Times("end", 1) /\ Len(u) = Len(t) + 1
  BY KindsAre, RunAfter, Zenon
<1>4. u = Times("fixed", 7) \o Times("digit", a) \o Times("end", 1)
  BY <1>1, <1>2, <1>3, Zenon
<1>5. Len(u) = 8 + a
  <2>1. Len(s) = 7 /\ Len(t) = Len(s) + a /\ Len(u) = Len(t) + 1
    BY <1>1, <1>2, <1>3, Zenon
  <2> QED
    BY <2>1, SMT
<1> QED
  BY <1>4, <1>5, Zenon

LEMMA RgbLength ==
  ASSUME NEW a \in Nat, NEW b \in Nat, NEW c \in Nat
  PROVE  \E s \in Seq(Glyph) :
           /\ s = Times("fixed", 7) \o Times("digit", a) \o Times("fixed", 1)
                  \o Times("digit", b) \o Times("fixed", 1) \o Times("digit", c)
                  \o Times("end", 1)
           /\ Len(s) = 10 + a + b + c
<1>1. PICK s \in Seq(Glyph) : s = Times("fixed", 7) /\ Len(s) = 7
  BY KindsAre, RunIsGlyphs
<1>2. PICK t \in Seq(Glyph) : t = s \o Times("digit", a) /\ Len(t) = Len(s) + a
  BY KindsAre, RunAfter, Zenon
<1>3. PICK u \in Seq(Glyph) : u = t \o Times("fixed", 1) /\ Len(u) = Len(t) + 1
  BY KindsAre, RunAfter, Zenon
<1>4. PICK v \in Seq(Glyph) : v = u \o Times("digit", b) /\ Len(v) = Len(u) + b
  BY KindsAre, RunAfter, Zenon
<1>5. PICK w \in Seq(Glyph) : w = v \o Times("fixed", 1) /\ Len(w) = Len(v) + 1
  BY KindsAre, RunAfter, Zenon
<1>6. PICK x \in Seq(Glyph) : x = w \o Times("digit", c) /\ Len(x) = Len(w) + c
  BY KindsAre, RunAfter, Zenon
<1>7. PICK y \in Seq(Glyph) : y = x \o Times("end", 1) /\ Len(y) = Len(x) + 1
  BY KindsAre, RunAfter, Zenon
<1>8. y = Times("fixed", 7) \o Times("digit", a) \o Times("fixed", 1)
         \o Times("digit", b) \o Times("fixed", 1) \o Times("digit", c)
         \o Times("end", 1)
  BY <1>1, <1>2, <1>3, <1>4, <1>5, <1>6, <1>7, Zenon
<1>9. Len(y) = 10 + a + b + c
  <2>1. /\ Len(s) = 7 /\ Len(t) = Len(s) + a /\ Len(u) = Len(t) + 1 /\ Len(v) = Len(u) + b
        /\ Len(w) = Len(v) + 1 /\ Len(x) = Len(w) + c /\ Len(y) = Len(x) + 1
    BY <1>1, <1>2, <1>3, <1>4, <1>5, <1>6, <1>7, Zenon
  <2> QED
    BY <2>1, SMT
<1> QED
  BY <1>8, <1>9, Zenon

\* Every action writes what it should.
LEMMA NextWrites ==
  ASSUME Digits \subseteq 0 .. 5, WrittenInv, [EONext]_eoVars
  PROVE  WrittenInv'
<1>t. \A t \in Clips : t \in Seq(Octet) /\ Len(t) \in Nat
  BY EOAssumption, LenProperties DEF Octet
<1>n. \A n \in BufSizes : n \in Nat
  BY EOAssumption
<1>d. \A a \in TitleLengths \cup Digits \cup 1 .. 3 : a \in Nat
  BY EOAssumption
<1>1. ASSUME NEW t \in Clips, ClipboardCopy(t) PROVE WrittenInv'
  <2>1. BufSize(Len(t)) \in Nat
    <3>1. EncodedLen(Len(t)) \in Nat
      BY <1>t, EncodedLenType
    <3> QED
      BY <3>1 DEF BufSize
  <2> QED
    BY <1>1, <1>t, <2>1, FormatOsc52Writes DEF ClipboardCopy
<1>2. ASSUME NEW t \in Clips, NEW n \in BufSizes, FormatOsc52(t, n) PROVE WrittenInv'
  BY <1>2, <1>t, <1>n, FormatOsc52Writes
<1>3. CASE EncodeGroup
  BY <1>3, EncodeGroupWrites
<1>4. CASE EncodeRest
  BY <1>4, EncodeRestWrites
<1>5. CASE Finish
  BY <1>5, FinishWrites
<1>6. ASSUME NEW n \in BufSizes, NEW least \in {CursorLeast, RegionLeast},
             NEW a \in Digits, NEW b \in Digits, Format(TwoNumbers(a, b), least, n)
      PROVE  WrittenInv'
  <2>1. a \in 0 .. 5 /\ b \in 0 .. 5 /\ n \in Nat /\ a \in Nat /\ b \in Nat
    BY <1>n, <1>d
  <2>2. PICK s \in Seq(Glyph) : s = TwoNumbers(a, b) /\ Len(s) = 4 + a + b /\ s # <<>>
    BY <2>1, NumbersLength, AskedSequences
  <2>3. least \in Nat \ {0} /\ Len(s) < least
    BY <2>1, <2>2 DEF CursorLeast, RegionLeast
  <2> QED
    BY <1>6, <2>1, <2>2, <2>3, FormatWrites
<1>7. ASSUME NEW n \in BufSizes, FormatColor256(n) PROVE WrittenInv'
  <2>1. PICK a \in 1 .. 3 :
          Format(Times("fixed", 7) \o Times("digit", a) \o Times("end", 1), ColorLeast, n)
    BY <1>7, Zenon DEF FormatColor256
  <2>2. a \in Nat /\ n \in Nat
    BY <1>n, <1>d
  <2>3. PICK s \in Seq(Glyph) :
          s = Times("fixed", 7) \o Times("digit", a) \o Times("end", 1) /\ Len(s) = 8 + a
    BY <2>2, ColorLength, Zenon
  <2>4. /\ ColorLeast \in Nat \ {0} /\ Len(s) < ColorLeast /\ s # <<>>
    BY <2>2, <2>3 DEF ColorLeast
  <2> QED
    BY <2>1, <2>2, <2>3, <2>4, FormatWrites
<1>8. ASSUME NEW n \in BufSizes, FormatColorRgb(n) PROVE WrittenInv'
  <2>1. PICK a \in 1 .. 3, b \in 1 .. 3, c \in 1 .. 3 :
          Format(Times("fixed", 7) \o Times("digit", a) \o Times("fixed", 1)
                 \o Times("digit", b) \o Times("fixed", 1) \o Times("digit", c)
                 \o Times("end", 1), RgbLeast, n)
    BY <1>8, Zenon DEF FormatColorRgb
  <2>2. a \in Nat /\ b \in Nat /\ c \in Nat /\ n \in Nat
    BY <1>n, <1>d
  <2>3. PICK s \in Seq(Glyph) :
          /\ s = Times("fixed", 7) \o Times("digit", a) \o Times("fixed", 1)
                 \o Times("digit", b) \o Times("fixed", 1) \o Times("digit", c)
                 \o Times("end", 1)
          /\ Len(s) = 10 + a + b + c
    BY <2>2, RgbLength, Zenon
  <2>4. /\ RgbLeast \in Nat \ {0} /\ Len(s) < RgbLeast /\ s # <<>>
    BY <2>2, <2>3 DEF RgbLeast
  <2>5. Format(s, RgbLeast, n)
    BY <2>1, <2>3, Zenon
  <2> QED
    BY <2>2, <2>4, <2>5, FormatWrites
<1>9. ASSUME NEW k \in TitleLengths, SetWindowTitle(k) PROVE WrittenInv'
  <2>1. k \in Nat /\ 8 \in Nat \ {0} /\ TitleSize \in Nat
    BY <1>d DEF TitleSize
  <2>2. Titled(k) \in Seq(Glyph) /\ Titled(k) # <<>>
    BY <2>1, TitleIsGlyphs, AskedSequences
  <2>3. Format(Titled(k), 8, TitleSize)
    BY <1>9 DEF SetWindowTitle
  <2> QED
    BY <2>1, <2>2, <2>3, FormatWrites
<1>10. CASE Return
  BY <1>10, ReturnWrites
<1>11. CASE UNCHANGED eoVars
  <2>1. EscapeInv'
    BY <1>11, NextKeeps DEF WrittenInv
  <2> QED
    BY <1>11, <2>1 DEF eoVars, WrittenInv, DigitsWritten, DecodesToText, FormattedWhole
<1>12. CASE \E n \in BufSizes : FormatCursorPos(n) \/ FormatScrollRegion(n)
  BY <1>6, <1>12 DEF FormatCursorPos, FormatScrollRegion
<1> QED
  BY <1>1, <1>2, <1>3, <1>4, <1>5, <1>7, <1>8, <1>9, <1>10, <1>11, <1>12 DEF EONext

\* What the encoder wrote decodes to the text that was copied, for every text
\* and every size, and what a formatter wrote is the whole sequence, where
\* rows and columns have at most the five digits of a terminal's size.
THEOREM SequencesAreWhole ==
  ASSUME Digits \subseteq 0 .. 5
  PROVE  EOSpec => []SequenceIsWhole
<1>1. WrittenInv /\ [EONext]_eoVars => WrittenInv'
  BY NextWrites
<1>2. WrittenInv => SequenceIsWhole
  <2> SUFFICES ASSUME WrittenInv PROVE SequenceIsWhole
    OBVIOUS
  <2>1. /\ pc \in {"idle", "groups", "suffix", "done"}
        /\ text \in Seq(0 .. 255) /\ i \in Nat /\ buf_size \in Nat /\ returned \in Nat
        /\ buf \in Seq(Token) /\ asked \in Seq(Token)
    BY DEF WrittenInv, EscapeInv, Octet
  <2>2. \A k \in 1 .. Len(buf) : buf[k][1] = "code" => buf[k][2] < 64
    BY GlyphsAre DEF WrittenInv, Glyph
  <2>3. CASE pc = "done"
    BY <2>1, <2>2, <2>3 DEF WrittenInv, SequenceIsWhole, EOTypeOK
  <2>4. CASE pc # "done"
    <3>1. returned = 0
      BY <2>4 DEF WrittenInv
    <3>2. asked = <<>>
      BY <2>1, <2>4 DEF WrittenInv, EscapeInv, Encoding
    <3>3. DecodesToText /\ FormattedWhole
      BY <3>1, <3>2 DEF DecodesToText, FormattedWhole
    <3> QED
      BY <2>1, <2>2, <3>3 DEF SequenceIsWhole, EOTypeOK
  <2> QED
    BY <2>3, <2>4
<1> QED
  BY <1>1, <1>2, InitWrites, PTL DEF EOSpec
=============================================================================
