---------------------------- MODULE DynamicBuffer ---------------------------
(***************************************************************************)
(* The growing byte buffer that every view is written into                 *)
(* (dynamic_buffer.c): its memory, byte by byte, with the size that was    *)
(* allocated and the length that is used.  malloc and realloc may fail.    *)
(* The loop that doubles the size is taken step by step.                   *)
(***************************************************************************)
EXTENDS Integers, Sequences

CONSTANTS
  Byte,             \* the bytes of a text
  NUL, Junk,        \* the end of a C string; memory nobody has written yet
  MIN_BUFFER_SIZE,
  Strings,            \* what is appended
  Sizes,            \* for create, reset and ensure_size
  MaxLen            \* bound on the bytes held

ASSUME DynamicBufferAssumption ==
  /\ MIN_BUFFER_SIZE \in Nat \ {0}
  /\ NUL \notin Byte /\ Junk \notin Byte /\ Junk # NUL
  /\ Strings \subseteq Seq(Byte)
  /\ Sizes \subseteq Nat
  /\ MaxLen \in Nat

VARIABLES
  data, size, len,   \* the struct; data is a function on 0 .. size - 1
  growing,           \* who called ensure_size: "append", "caller" or "none"
  adding,            \* the text that waits for it
  required_size,     \* its argument
  new_size,          \* and its local
  result,            \* ghost: what the last append returned
  torn               \* ghost: the last write was a printf that did not fit
                     \* and could not grow

bufferVars == <<data, size, len>>
growVars   == <<growing, adding, required_size, new_size>>
dbVars     == <<bufferVars, growVars, result, torn>>

Idle == growing = "none"

AtLeast(m, n) == IF m < n THEN n ELSE m

----------------------------------------------------------------------------
(* Memory                                                                  *)

\* memcpy and vsnprintf: the bytes of s from `at' on, and a NUL behind them.
Written(d, at, s) ==
  [i \in DOMAIN d |-> IF i \in at .. at + Len(s) - 1 THEN s[i - at + 1]
                      ELSE IF i = at + Len(s) THEN NUL ELSE d[i]]

\* realloc keeps what fits.
Moved(d, n) == [i \in 0 .. n - 1 |-> IF i \in DOMAIN d THEN d[i] ELSE Junk]

InitialSize(n) == AtLeast(n, MIN_BUFFER_SIZE)

----------------------------------------------------------------------------

DBInit ==
  /\ \E n \in Sizes : size = InitialSize(n)
  /\ data = Written([i \in 0 .. size - 1 |-> Junk], 0, <<>>)
  /\ len = 0
  /\ growing = "none" /\ adding = <<>> /\ required_size = 0 /\ new_size = 0
  /\ result = "ok" /\ torn = FALSE

\* Mutant of Required: the NUL is not counted.
RequiredBare(s) == len + Len(s)

\* The bytes of s and the NUL behind them.
Required(s) == len + Len(s) + 1

Store(d, s) ==
  /\ data' = Written(d, len, s)
  /\ len' = len + Len(s)
  /\ result' = "ok" /\ torn' = FALSE

\* ensure_size starts to double the size.
StartGrowing(who, n, s) ==
  /\ n > size
  /\ growing' = who /\ adding' = s /\ required_size' = n
  /\ new_size' = IF size = 0 THEN MIN_BUFFER_SIZE ELSE size
  /\ UNCHANGED <<size, len, result>>

EnsureSize(n) ==
  /\ Idle
  /\ StartGrowing("caller", n, <<>>)
  /\ UNCHANGED <<data, torn>>

AppendData(s) ==
  /\ Idle /\ len + Len(s) <= MaxLen
  /\ \/ /\ Required(s) <= size
        /\ Store(data, s)
        /\ UNCHANGED <<size, growVars>>
     \/ /\ StartGrowing("append", Required(s), s)
        /\ UNCHANGED <<data, torn>>

\* Mutant of Printf: what fitted is counted before the buffer grows.
PrintfCountsTwice(s) ==
  /\ Idle /\ len + Len(s) <= MaxLen
  /\ \/ /\ Len(s) < size - len
        /\ Store(data, s)
        /\ UNCHANGED <<size, growVars>>
     \/ /\ Len(s) >= size - len
        /\ data' = Written(data, len, SubSeq(s, 1, size - len - 1))
        /\ growing' = "append" /\ adding' = s
        /\ required_size' = Required(s) /\ new_size' = size
        /\ len' = size - 1 /\ torn' = TRUE
        /\ UNCHANGED <<size, result>>

\* append_printf tries with the room there is: a text that is too long is cut
\* off at the end of the buffer, its length not counted.
Printf(s) ==
  /\ Idle /\ len + Len(s) <= MaxLen
  /\ \/ /\ Len(s) < size - len
        /\ Store(data, s)
        /\ UNCHANGED <<size, growVars>>
     \/ /\ Len(s) >= size - len
        /\ data' = Written(data, len, SubSeq(s, 1, size - len - 1))
        /\ torn' = TRUE
        /\ StartGrowing("append", Required(s), s)

Double ==
  /\ ~Idle /\ new_size < required_size
  /\ new_size' = new_size * 2
  /\ UNCHANGED <<bufferVars, growing, adding, required_size, result, torn>>

Grown == ~Idle /\ new_size >= required_size
StopGrowing ==
  growing' = "none" /\ adding' = <<>> /\ required_size' = 0 /\ new_size' = 0

Realloc ==
  /\ Grown
  /\ size' = new_size
  /\ IF growing = "append" THEN Store(Moved(data, new_size), adding)
     ELSE data' = Moved(data, new_size) /\ UNCHANGED <<len, result, torn>>
  /\ StopGrowing

\* The buffer stays as it is; append returns -1.
ReallocFails ==
  /\ Grown
  /\ result' = IF growing = "append" THEN "failed" ELSE result
  /\ StopGrowing
  /\ UNCHANGED <<bufferVars, torn>>

Emptied(d) == Written(d, 0, <<>>)

Clear ==
  /\ Idle
  /\ data' = Emptied(data) /\ len' = 0 /\ torn' = FALSE
  /\ UNCHANGED <<size, growVars, result>>

\* reset gives memory back if realloc can.
Reset(n) ==
  /\ Idle
  /\ size' \in {size} \cup (IF size > InitialSize(n) THEN {InitialSize(n)} ELSE {})
  /\ data' = Emptied(Moved(data, size'))
  /\ len' = 0 /\ torn' = FALSE
  /\ UNCHANGED <<growVars, result>>

DBNext == \/ \E s \in Strings : AppendData(s) \/ Printf(s)
          \/ \E n \in Sizes : EnsureSize(n) \/ Reset(n)
          \/ Double \/ Realloc \/ ReallocFails
          \/ Clear

DBSpec == DBInit /\ [][DBNext]_dbVars

----------------------------------------------------------------------------
(* Properties                                                              *)

Memory == Byte \cup {NUL, Junk}

DBTypeOK ==
  /\ size \in Nat /\ len \in Nat /\ new_size \in Nat /\ required_size \in Nat
  /\ data \in [0 .. size - 1 -> Memory]
  /\ growing \in {"none", "append", "caller"}
  /\ adding \in Seq(Byte)
  /\ result \in {"ok", "failed"} /\ torn \in BOOLEAN

\* The buffer has a byte for the NUL, whatever was appended, reset and
\* refused: what was stored fits into what was allocated.
WithinBuffer == len < size

\* Who reads data as a C string stays inside the buffer, in the middle of a
\* failed printf too, and reads no byte that was never written.
StringEnds ==
  \E end \in len .. size - 1 :
    /\ data[end] = NUL
    /\ \A i \in 0 .. end - 1 : data[i] # Junk

\* Unless a printf could not grow the buffer, the string ends where the text
\* does.
EndsAtLen == ~torn => data[len] = NUL

\* What every call and every step of growing keeps.
BufferConsistent == DBTypeOK /\ WithinBuffer /\ StringEnds /\ EndsAtLen

\* The buffer is a sequence of bytes: growth moves it, failures leave it.
Contents == [i \in 1 .. len |-> data[i - 1]]
Text == INSTANCE ByteBuffer WITH text <- Contents
IsByteBuffer == Text!Spec
=============================================================================
