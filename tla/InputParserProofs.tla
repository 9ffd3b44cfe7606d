-------------------------- MODULE InputParserProofs --------------------------
(***************************************************************************)
(* Proofs about InputParser for every terminal, every length of read and   *)
(* of output array, every buffer size and every end marker whose first     *)
(* byte is not found again in it, wherever reallocations fail.             *)
(***************************************************************************)
EXTENDS InputParser, SequenceTheorems, Induction, TLAPS

----------------------------------------------------------------------------
(* The inductive invariant                                                 *)

MarkerLen == Len(PASTE_END_MARKER)
Types == {"key", "mouse", "paste_start", "paste", "paste_end"}
Message == [type : Types, text : Seq(STRING)]

\* The last j bytes of s are the first j of the end marker.
EndsWith(s, j) ==
  /\ j <= Len(s)
  /\ \A i \in 1 .. j : s[Len(s) - j + i] = PASTE_END_MARKER[i]

\* The bytes held back are the longest end of the paste that may become the
\* marker: no other one does.
MatchIsLongest ==
  state = "PASTE" =>
    \A j \in 1 .. MarkerLen : EndsWith(fed, j) => j = paste_match

\* A character that has begun lacks a byte.
CharacterIsOpen == state = "UTF8" => utf8_remaining > 0

\* PASTE_END waits only behind an array that its PASTE has filled.
PendingWaits ==
  /\ state = "PASTE" <=> last = "paste_start"
  /\ has_pending <=> last = "paste"
  /\ has_pending => state = "GROUND" /\ Len(msgs) = max_msgs

\* Each message of a call is paid for by a byte of it, but for one: a
\* PASTE_END, left over or next to its PASTE.  In a paste that the call has
\* fed, a byte more is saved.
MessagesArePaidFor ==
  unread > 0 =>
    /\ unread <= input_len
    /\ Len(msgs) + unread <= input_len + (IF state = "GROUND" THEN 1 ELSE 0)
    /\ state = "PASTE" /\ paste_match > 0 /\ unread < input_len
         => Len(msgs) + unread < input_len

LongArrayKeepsUp ==
  1 < max_msgs /\ input_len <= max_msgs => lost <= 1 /\ ~has_pending

ParserInv ==
  /\ IPTypeOK /\ msgs \in Seq(Message)
  /\ CharacterIsOpen
  /\ PasteKeepsBytes
  /\ PasteEndsAtMarker
  /\ MatchIsLongest
  /\ PendingWaits
  /\ MessagesArePaidFor
  /\ LongArrayKeepsUp

----------------------------------------------------------------------------
(* Lemmas about the end marker                                             *)

\* The marker and the parts of it that are held back.
LEMMA HeldFacts ==
  /\ MarkerLen \in Nat /\ MarkerLen > 1
  /\ \A i \in 1 .. MarkerLen : PASTE_END_MARKER[i] \in STRING
  /\ \A n \in 0 .. MarkerLen : Held(n) \in Seq(STRING) /\ Len(Held(n)) = n
  /\ Held(0) = <<>> /\ Held(MarkerLen) = PASTE_END_MARKER
  /\ \A n \in 1 .. MarkerLen : Held(n) = Held(n - 1) \o <<PASTE_END_MARKER[n]>>
  <1>1. /\ MarkerLen \in Nat /\ MarkerLen > 1
        /\ PASTE_END_MARKER \in Seq(STRING)
        /\ \A i \in 1 .. MarkerLen : PASTE_END_MARKER[i] \in STRING
    BY MarkerAssumption DEF MarkerLen
  <1>2. \A n \in 0 .. MarkerLen : Held(n) \in Seq(STRING) /\ Len(Held(n)) = n
    BY <1>1, SubSeqProperties, Z3 DEF Held
  <1>3. Held(0) = <<>> /\ Held(MarkerLen) = PASTE_END_MARKER
    BY <1>1, SubSeqEmpty, SubSeqFull DEF Held, MarkerLen
  <1>4. ASSUME NEW n \in 1 .. MarkerLen
        PROVE  Held(n) = Held(n - 1) \o <<PASTE_END_MARKER[n]>>
    BY <1>1, SubSeqRecursiveSecond DEF Held, MarkerLen
  <1> QED BY <1>1, <1>2, <1>3, <1>4

\* A sequence after one more element.
LEMMA AppendFacts ==
  ASSUME NEW S, NEW s \in Seq(S), NEW e \in S
  PROVE  /\ Append(s, e) \in Seq(S) /\ Len(s) \in Nat
         /\ Len(Append(s, e)) = Len(s) + 1
         /\ \A i \in 1 .. Len(s) : Append(s, e)[i] = s[i]
         /\ Append(s, e)[Len(s) + 1] = e
  OBVIOUS

\* One more byte: what ends with j bytes of the marker ended with j - 1 before.
LEMMA EndsWithAppend ==
  ASSUME NEW S, NEW s \in Seq(S), NEW b \in S, NEW j \in 1 .. MarkerLen,
         EndsWith(Append(s, b), j)
  PROVE  b = PASTE_END_MARKER[j] /\ EndsWith(s, j - 1)
  <1> DEFINE t == Append(s, b)
  <1>1. MarkerLen \in Nat /\ Len(s) \in Nat
    BY HeldFacts
  <1>2. /\ Len(t) = Len(s) + 1
        /\ \A i \in 1 .. Len(s) : t[i] = s[i]
        /\ t[Len(s) + 1] = b
    BY AppendFacts
  <1>3. /\ j <= Len(t)
        /\ \A i \in 1 .. j : t[Len(t) - j + i] = PASTE_END_MARKER[i]
    BY DEF EndsWith
  <1> HIDE DEF t
  <1>4. b = PASTE_END_MARKER[j]
    <2>1. Len(t) - j + j = Len(s) + 1 /\ j \in 1 .. j
      BY <1>1, <1>2
    <2>2. t[Len(t) - j + j] = PASTE_END_MARKER[j]
      BY <1>3, <2>1
    <2> QED BY <1>2, <2>1, <2>2
  <1>5. ASSUME NEW i \in 1 .. j - 1
        PROVE  s[Len(s) - (j - 1) + i] = PASTE_END_MARKER[i]
    <2>1. /\ Len(t) - j + i = Len(s) - (j - 1) + i
          /\ Len(s) - (j - 1) + i \in 1 .. Len(s)
          /\ i \in 1 .. j
      BY <1>1, <1>2, <1>3
    <2> QED BY <1>2, <1>3, <2>1
  <1> QED BY <1>1, <1>3, <1>4, <1>5 DEF EndsWith

\* A marker that a byte completes is at the end.
LEMMA ContainsAppend ==
  ASSUME NEW S, NEW s \in Seq(S), NEW b \in S,
         PASTE_END_MARKER \in Seq(S),
         ~Contains(s, PASTE_END_MARKER), Contains(Append(s, b), PASTE_END_MARKER)
  PROVE  EndsWith(Append(s, b), MarkerLen)
  <1> DEFINE t == Append(s, b)
  <1>1. /\ MarkerLen \in Nat /\ MarkerLen > 1 /\ Len(s) \in Nat
        /\ t \in Seq(S) /\ Len(t) = Len(s) + 1
        /\ \A i \in 1 .. Len(s) : t[i] = s[i]
    <2>1. /\ t \in Seq(S) /\ Len(t) = Len(s) + 1
          /\ \A i \in 1 .. Len(s) : t[i] = s[i]
      BY AppendFacts
    <2> HIDE DEF t
    <2> QED BY HeldFacts, <2>1
  <1> HIDE DEF t
  <1>2. PICK i \in 0 .. Len(t) - MarkerLen :
          SubSeq(t, i + 1, i + MarkerLen) = PASTE_END_MARKER
    BY DEF Contains, MarkerLen, t
  <1>3. \A k \in 1 .. MarkerLen : t[i + k] = PASTE_END_MARKER[k]
    <2>1. i + 1 \in Int /\ i + MarkerLen \in Int
          /\ \A k \in i + 1 .. i + MarkerLen : t[k] \in S
      BY <1>1
    <2>2. \A k \in 1 .. (i + MarkerLen) - (i + 1) + 1 :
            SubSeq(t, i + 1, i + MarkerLen)[k] = t[(i + 1) + k - 1]
      BY <2>1, SubSeqProperties
    <2>3. ASSUME NEW k \in 1 .. MarkerLen
          PROVE  t[i + k] = PASTE_END_MARKER[k]
      <3>1. k \in 1 .. (i + MarkerLen) - (i + 1) + 1 /\ (i + 1) + k - 1 = i + k
        BY <1>1
      <3> QED BY <1>2, <2>2, <3>1
    <2> QED BY <2>3
  <1>4. i = Len(t) - MarkerLen
    <2> SUFFICES ASSUME i # Len(t) - MarkerLen PROVE FALSE
      OBVIOUS
    <2>1. i \in 0 .. Len(s) - MarkerLen
      BY <1>1
    <2> DEFINE u == SubSeq(s, i + 1, i + MarkerLen)
    <2>2. /\ u \in Seq(S) /\ Len(u) = MarkerLen
          /\ \A k \in 1 .. MarkerLen : u[k] = s[i + k]
      <3>1. /\ i + 1 \in Int /\ i + MarkerLen \in Int /\ i + 1 <= i + MarkerLen
            /\ \A k \in i + 1 .. i + MarkerLen : s[k] \in S
        BY <1>1, <2>1
      <3>2. /\ u \in Seq(S)
            /\ Len(u) = (i + MarkerLen) - (i + 1) + 1
            /\ \A k \in 1 .. (i + MarkerLen) - (i + 1) + 1 :
                 u[k] = s[(i + 1) + k - 1]
        BY <3>1, SubSeqProperties
      <3>3. /\ (i + MarkerLen) - (i + 1) + 1 = MarkerLen
            /\ \A k \in 1 .. MarkerLen : (i + 1) + k - 1 = i + k
        BY <1>1
      <3> HIDE DEF u
      <3> QED BY <3>2, <3>3
    <2> HIDE DEF u
    <2>3. \A k \in 1 .. MarkerLen : u[k] = PASTE_END_MARKER[k]
      <3> SUFFICES ASSUME NEW k \in 1 .. MarkerLen
                   PROVE  u[k] = PASTE_END_MARKER[k]
        OBVIOUS
      <3>1. i + k \in 1 .. Len(s)
        BY <1>1, <2>1
      <3>2. u[k] = s[i + k] /\ s[i + k] = t[i + k] /\ t[i + k] = PASTE_END_MARKER[k]
        BY <1>1, <1>3, <2>2, <3>1
      <3> QED BY <3>2
    <2>4. u = PASTE_END_MARKER
      BY <2>2, <2>3, SeqEqual DEF MarkerLen
    <2> QED BY <2>1, <2>4 DEF u, Contains, MarkerLen
  <1>5. MarkerLen <= Len(t)
    BY <1>1, <1>4
  <1>6. \A k \in 1 .. MarkerLen : t[Len(t) - MarkerLen + k] = PASTE_END_MARKER[k]
    BY <1>3, <1>4
  <1> QED BY <1>5, <1>6 DEF EndsWith, t

----------------------------------------------------------------------------
(* Steps outside a paste                                                   *)

LEMMA MsgIsMessage == ASSUME NEW type \in Types PROVE Msg(type) \in Message
  <1>1. <<>> \in Seq(STRING)
    OBVIOUS
  <1> QED BY <1>1 DEF Msg, Message

LEMMA InitParserInv == IPInit => ParserInv
  <1> SUFFICES ASSUME IPInit PROVE ParserInv
    OBVIOUS
  <1> USE DEF IPInit
  <1>1. /\ Len(seq_buf) = 0 /\ Len(msgs) = 0
        /\ seq_buf \in Seq(STRING) /\ paste_buf \in Seq(STRING)
        /\ fed \in Seq(STRING) /\ msgs \in Seq(Message)
    OBVIOUS
  <1>2. 0 \in 0 .. Len(PASTE_END_MARKER) - 1 /\ 0 < SEQ_BUF
    BY HeldFacts, ParserAssumption DEF MarkerLen
  <1>3. IPTypeOK
    <2>1. Len(msgs) <= max_msgs /\ max_msgs \in Nat \ {0}
      BY <1>1
    <2>2. state \in States /\ has_pending \in BOOLEAN /\ Len(seq_buf) < SEQ_BUF
      BY <1>1, <1>2 DEF States
    <2> QED BY <1>1, <1>2, <2>1, <2>2 DEF IPTypeOK
  <1> QED BY <1>1, <1>3
          DEF ParserInv, CharacterIsOpen, PasteKeepsBytes, PasteEndsAtMarker,
              MatchIsLongest, PendingWaits, MessagesArePaidFor, LongArrayKeepsUp

\* A call of tui_input_parser_parse begins.
LEMMA BeginKeepsInv ==
  ASSUME ParserInv, NEW n \in terminal.reads, NEW max \in terminal.arrays,
         ParseBegin(n, max)
  PROVE  ParserInv'
  <1> USE DEF ParserInv
  <1>1. n \in Nat \ {0} /\ max \in Nat \ {0}
    BY ParserAssumption DEF IPTypeOK
  <1>2. /\ msgs' \in Seq(Message)
        /\ Len(msgs') = IF has_pending THEN 1 ELSE 0
    <2>1. Msg("paste_end") \in Message
      BY MsgIsMessage DEF Types
    <2> QED BY <2>1 DEF ParseBegin
  <1>3. has_pending \in BOOLEAN
    BY DEF IPTypeOK
  <1>4. IPTypeOK'
    <2>1. Len(msgs') <= max_msgs' /\ max_msgs' \in Nat \ {0} /\ input_len' \in Nat
      BY <1>1, <1>2 DEF ParseBegin
    <2>2. has_pending' \in BOOLEAN /\ unread' \in Nat /\ lost' \in Nat
      BY <1>1 DEF ParseBegin
    <2>3. UNCHANGED <<terminal, state, seq_buf, utf8_remaining, paste_buf,
                      paste_cap, paste_match, fed, missing>>
      BY DEF ParseBegin, escVars, pasteVars
    <2> QED BY <2>1, <2>2, <2>3 DEF IPTypeOK
  <1>5. /\ CharacterIsOpen' /\ PasteKeepsBytes' /\ PasteEndsAtMarker'
        /\ MatchIsLongest'
    BY DEF ParseBegin, CharacterIsOpen, PasteKeepsBytes, IsSent, PasteEndsAtMarker,
           MatchIsLongest, escVars, pasteVars
  <1>6. PendingWaits'
    BY <1>3 DEF ParseBegin, PendingWaits
  <1>7. MessagesArePaidFor' /\ LongArrayKeepsUp'
    BY <1>1, <1>2, <1>3
    DEF ParseBegin, MessagesArePaidFor, LongArrayKeepsUp, PendingWaits, pasteVars
  <1> QED BY <1>2, <1>4, <1>5, <1>6, <1>7

\* The array is full before the bytes are fed: at most one is left behind when
\* it is as long as the read.
LEMMA FullKeepsInv == ParserInv /\ ArrayFull => ParserInv'
  <1> SUFFICES ASSUME ParserInv, ArrayFull PROVE ParserInv'
    OBVIOUS
  <1> USE DEF ParserInv, ArrayFull
  <1>1. IPTypeOK'
    BY DEF IPTypeOK, callVars, escVars, pasteVars
  <1>2. /\ CharacterIsOpen' /\ PasteKeepsBytes' /\ PasteEndsAtMarker'
        /\ MatchIsLongest' /\ PendingWaits' /\ MessagesArePaidFor'
    BY DEF CharacterIsOpen, PasteKeepsBytes, IsSent, PasteEndsAtMarker, MatchIsLongest,
           PendingWaits, MessagesArePaidFor, callVars, escVars, pasteVars
  <1>3. LongArrayKeepsUp'
    <2>1. /\ Len(msgs) + unread <= input_len + 1 /\ Len(msgs) = max_msgs
          /\ unread \in Nat /\ input_len \in Nat /\ max_msgs \in Nat
      BY DEF MessagesArePaidFor, IPTypeOK
    <2>2. input_len <= max_msgs => unread <= 1
      BY <2>1
    <2> QED BY <2>2 DEF LongArrayKeepsUp, callVars
  <1> QED BY <1>1, <1>2, <1>3

\* tui_input_parser_reset.
LEMMA ResetKeepsInv == ParserInv /\ Reset => ParserInv'
  <1> SUFFICES ASSUME ParserInv, Reset PROVE ParserInv'
    OBVIOUS
  <1>1. /\ Len(seq_buf') = 0 /\ Len(msgs') = 0
        /\ seq_buf' \in Seq(STRING) /\ paste_buf' \in Seq(STRING)
        /\ fed' \in Seq(STRING) /\ msgs' \in Seq(Message)
        /\ paste_buf' = <<>> /\ missing' = 0 /\ paste_match' = 0
        /\ paste_cap' = paste_cap
    BY DEF Reset, NoPaste
  <1>2. 0 \in 0 .. Len(PASTE_END_MARKER) - 1 /\ 0 < SEQ_BUF
    BY HeldFacts, ParserAssumption DEF MarkerLen
  <1>3. IPTypeOK'
    <2>1. state' \in States /\ has_pending' \in BOOLEAN
      BY DEF Reset, States
    <2>5. utf8_remaining' \in 0 .. 3
      BY DEF Reset
    <2>2. Len(seq_buf') < SEQ_BUF /\ paste_match' \in 0 .. Len(PASTE_END_MARKER) - 1
      BY <1>1, <1>2 DEF Reset
    <2>6. paste_cap' \in Nat
      BY <1>1 DEF ParserInv, IPTypeOK
    <2>3. /\ terminal' \in Terminals /\ input_len' \in Nat
          /\ max_msgs' \in Nat \ {0} /\ unread' \in Nat /\ lost' \in Nat
      BY DEF Reset, callVars, ParserInv, IPTypeOK
    <2>4. Len(msgs') <= max_msgs'
      BY <1>1, <2>3
    <2> QED BY <1>1, <2>1, <2>2, <2>3, <2>4, <2>5, <2>6 DEF IPTypeOK
  <1> QED BY <1>1, <1>3
          DEF Reset, ParserInv, CharacterIsOpen, PasteKeepsBytes,
              PasteEndsAtMarker, MatchIsLongest, PendingWaits,
              MessagesArePaidFor, LongArrayKeepsUp, callVars

\* A byte outside a paste that does not start one: it gives at most one
\* message, and none when it begins a sequence.
LEMMA KeyKeepsInv ==
  ASSUME ParserInv, NEW s \in States \ {"PASTE"}, FeedIn(s),
         state' \in States \ {"PASTE"},
         seq_buf' \in Seq(STRING), Len(seq_buf') < SEQ_BUF,
         utf8_remaining' \in 0 .. 3,
         state' = "UTF8" => utf8_remaining' > 0,
         UNCHANGED pasteVars,
         Silent \/ \E type \in {"key", "mouse"} : Emit(type),
         s = "GROUND" /\ state' # "GROUND" => Silent
  PROVE  ParserInv'
  <1> USE DEF ParserInv, FeedIn
  <1>1. /\ unread \in Nat /\ unread' = unread - 1 /\ unread > 0
        /\ max_msgs \in Nat /\ Len(msgs) < max_msgs /\ Len(msgs) \in Nat
        /\ input_len \in Nat /\ UNCHANGED <<input_len, max_msgs, lost, terminal>>
    BY DEF IPTypeOK, callVars
  <1>2. ~has_pending /\ last # "paste"
    BY <1>1 DEF PendingWaits
  <1>3. /\ msgs' \in Seq(Message) /\ Len(msgs') \in {Len(msgs), Len(msgs) + 1}
        /\ last' \notin {"paste", "paste_start"}
        /\ has_pending' = has_pending
    <2>1. CASE Silent
      BY <1>1, <1>2, <2>1 DEF Silent, PendingWaits
    <2>2. ASSUME NEW type \in {"key", "mouse"}, Emit(type)
          PROVE  /\ msgs' = Append(msgs, Msg(type)) /\ Msg(type) \in Message
                 /\ last' = type /\ has_pending' = has_pending
      <3>1. type \in Types
        BY DEF Types
      <3>2. Msg(type) \in Message
        BY ONLY <3>1, MsgIsMessage
      <3> HIDE DEF ParserInv, FeedIn
      <3> QED BY <2>2, <3>2 DEF Emit
    <2>3. ASSUME NEW m \in Message
          PROVE  /\ Append(msgs, m) \in Seq(Message)
                 /\ Len(Append(msgs, m)) = Len(msgs) + 1
      <3>1. msgs \in Seq(Message)
        OBVIOUS
      <3> QED BY ONLY <3>1, AppendProperties, <2>3
    <2>4. ASSUME NEW type \in {"key", "mouse"}, Emit(type)
          PROVE  /\ msgs' \in Seq(Message) /\ Len(msgs') = Len(msgs) + 1
                 /\ last' \notin {"paste", "paste_start"}
                 /\ has_pending' = has_pending
      <3> HIDE DEF ParserInv, FeedIn
      <3>1. msgs' = Append(msgs, Msg(type)) /\ Msg(type) \in Message
            /\ last' = type /\ has_pending' = has_pending
        BY <2>2, <2>4
      <3> QED BY <2>3, <3>1
    <2> HIDE DEF ParserInv, FeedIn
    <2> QED BY <2>1, <2>4
  <1>4. IPTypeOK'
    BY <1>1, <1>3 DEF IPTypeOK, pasteVars
  <1>5. CharacterIsOpen' /\ PasteKeepsBytes' /\ PasteEndsAtMarker' /\ MatchIsLongest'
    BY DEF CharacterIsOpen, PasteKeepsBytes, PasteEndsAtMarker, MatchIsLongest
  <1>6. PendingWaits' /\ LongArrayKeepsUp'
    BY <1>1, <1>2, <1>3 DEF PendingWaits, LongArrayKeepsUp
  <1>7. MessagesArePaidFor'
    <2>1. Silent => Len(msgs') = Len(msgs)
      BY DEF Silent
    <2> QED BY <1>1, <1>3, <2>1 DEF MessagesArePaidFor
  <1> QED BY <1>3, <1>4, <1>5, <1>6, <1>7

\* The sequence buffer never overflows.
LEMMA StoredFits ==
  ASSUME ParserInv, NEW byte \in STRING
  PROVE  /\ Stored(byte) \in Seq(STRING) /\ Len(Stored(byte)) < SEQ_BUF
         /\ <<>> \in Seq(STRING) /\ Len(<<>>) < SEQ_BUF
  <1>1. /\ seq_buf \in Seq(STRING) /\ Len(seq_buf) < SEQ_BUF /\ SEQ_BUF \in Nat \ {0}
    BY ParserAssumption DEF ParserInv, IPTypeOK
  <1>2. <<>> \in Seq(STRING) /\ Len(<<>>) = 0
    OBVIOUS
  <1>3. CASE Len(seq_buf) < SEQ_BUF - 1
    <2>1. /\ Append(seq_buf, byte) \in Seq(STRING)
          /\ Len(Append(seq_buf, byte)) = Len(seq_buf) + 1 /\ Len(seq_buf) \in Nat
      BY <1>1, AppendFacts
    <2>2. Stored(byte) = Append(seq_buf, byte)
      BY <1>3 DEF Stored
    <2>3. Len(Append(seq_buf, byte)) < SEQ_BUF
      BY <1>1, <1>3, <2>1
    <2>4. 0 < SEQ_BUF
      BY <1>1
    <2> QED BY <1>2, <2>1, <2>2, <2>3, <2>4
  <1>4. CASE ~(Len(seq_buf) < SEQ_BUF - 1)
    BY <1>1, <1>2, <1>4 DEF Stored
  <1> QED BY <1>3, <1>4

\* Ground, escape, SS3 and UTF-8 bytes.
LEMMA PlainKeepsInv ==
  ASSUME ParserInv, NEW byte \in STRING,
         Ground(byte) \/ Escape(byte) \/ SS3(byte) \/ Utf8(byte)
  PROVE  ParserInv'
  <1>1. /\ seq_buf \in Seq(STRING) /\ Len(seq_buf) < SEQ_BUF
        /\ utf8_remaining \in 0 .. 3
        /\ state = "UTF8" => utf8_remaining > 0
    BY DEF ParserInv, IPTypeOK, CharacterIsOpen
  <1>2. <<>> \in Seq(STRING) /\ Len(<<>>) < SEQ_BUF
    BY StoredFits
  <1>3. CASE Ground(byte)
    <2>1. /\ "GROUND" \in States \ {"PASTE"} /\ FeedIn("GROUND")
          /\ UNCHANGED pasteVars
          /\ Silent \/ Emit("key")
          /\ state' \in States \ {"PASTE"}
          /\ state' # "GROUND" => Silent
      BY <1>3 DEF Ground, States, FeedIn, escVars
    <2>2. /\ seq_buf' \in Seq(STRING) /\ Len(seq_buf') < SEQ_BUF
          /\ utf8_remaining' \in 0 .. 3
          /\ state' = "UTF8" => utf8_remaining' > 0
      <3>1. CASE byte = "ESC"
        <4>1. state' = "ESCAPE" /\ seq_buf' = <<>> /\ utf8_remaining' = utf8_remaining
          BY <1>3, <3>1 DEF Ground, Printable
        <4> QED BY <1>1, <1>2, <4>1
      <3>2. CASE byte \in {"lead2", "lead3", "lead4"}
        <4>1. utf8_remaining' = Continuations(byte) /\ seq_buf' = seq_buf
          BY <1>3, <3>2 DEF Ground, Printable
        <4>2. Continuations(byte) \in 1 .. 3
          BY <3>2 DEF Continuations
        <4> QED BY <1>1, <4>1, <4>2
      <3>3. CASE byte \notin {"ESC", "lead2", "lead3", "lead4"}
        BY <1>1, <1>3, <3>3 DEF Ground, FeedIn, escVars
      <3> QED BY <3>1, <3>2, <3>3
    <2> QED BY <2>1, <2>2, KeyKeepsInv
  <1>4. CASE Escape(byte)
    <2>1. /\ "ESCAPE" \in States \ {"PASTE"} /\ FeedIn("ESCAPE")
          /\ UNCHANGED pasteVars
          /\ Silent \/ Emit("key")
          /\ state' \in States \ {"PASTE", "UTF8"}
      BY <1>4 DEF Escape, States
    <2>2. /\ seq_buf' \in Seq(STRING) /\ Len(seq_buf') < SEQ_BUF
          /\ utf8_remaining' \in 0 .. 3
      BY <1>1, <1>2, <1>4 DEF Escape
    <2> QED BY <2>1, <2>2, KeyKeepsInv
  <1>5. CASE SS3(byte)
    <2>1. /\ "SS3" \in States \ {"PASTE"} /\ FeedIn("SS3")
          /\ UNCHANGED pasteVars /\ UNCHANGED escVars
          /\ Silent \/ Emit("key")
          /\ state' = "GROUND" /\ "GROUND" \in States \ {"PASTE"}
      BY <1>5 DEF SS3, States, EmitIf
    <2> QED BY <1>1, <2>1, KeyKeepsInv DEF escVars
  <1>6. CASE Utf8(byte)
    <2>1. /\ "UTF8" \in States \ {"PASTE"} /\ FeedIn("UTF8")
          /\ UNCHANGED pasteVars /\ UNCHANGED seq_buf
          /\ Silent \/ Emit("key")
          /\ state' \in {"GROUND", "UTF8"} /\ "GROUND" \in States \ {"PASTE"}
      BY <1>6 DEF Utf8, States, EmitIf
    <2>2. /\ utf8_remaining' \in 0 .. 3
          /\ state' = "UTF8" => utf8_remaining' > 0
      BY <1>1, <1>6 DEF Utf8, FeedIn
    <2> QED BY <1>1, <2>1, <2>2, KeyKeepsInv
  <1> QED BY <1>3, <1>4, <1>5, <1>6

\* Bytes of a CSI or mouse sequence, but for the one that starts a paste.
LEMMA SequenceKeepsInv ==
  ASSUME ParserInv, NEW byte \in STRING, Csi(byte) \/ CsiMouse(byte),
         state' # "PASTE"
  PROVE  ParserInv'
  <1>1. /\ Stored(byte) \in Seq(STRING) /\ Len(Stored(byte)) < SEQ_BUF
        /\ <<>> \in Seq(STRING) /\ Len(<<>>) < SEQ_BUF
    BY StoredFits
  <1>2. utf8_remaining \in 0 .. 3
    BY DEF ParserInv, IPTypeOK
  <1>3. CASE Csi(byte)
    <2>1. ~(byte = "~" /\ Stored(byte) = PasteStartSeq)
      BY <1>3 DEF Csi, Finals
    <2>2. /\ "CSI" \in States \ {"PASTE"} /\ FeedIn("CSI")
          /\ UNCHANGED pasteVars /\ UNCHANGED utf8_remaining
          /\ Silent \/ Emit("key")
          /\ state' \in States \ {"PASTE", "UTF8"}
      BY <1>3, <2>1 DEF Csi, States, EmitIf
    <2>3. seq_buf' \in {<<>>, Stored(byte)}
      BY <1>3 DEF Csi
    <2> QED BY <1>1, <1>2, <2>2, <2>3, KeyKeepsInv
  <1>4. CASE CsiMouse(byte)
    <2>1. /\ "CSI_MOUSE" \in States \ {"PASTE"} /\ FeedIn("CSI_MOUSE")
          /\ UNCHANGED pasteVars /\ UNCHANGED utf8_remaining
          /\ Silent \/ Emit("mouse")
          /\ state' \in States \ {"PASTE", "UTF8"}
          /\ seq_buf' \in {<<>>, Stored(byte)}
      BY <1>4 DEF CsiMouse, States, EmitIf
    <2> QED BY <1>1, <1>2, <2>1, KeyKeepsInv
  <1> QED BY <1>3, <1>4

----------------------------------------------------------------------------
(* Pastes                                                                  *)

\* A paste begins with nothing held back.
LEMMA PasteStartKeepsInv ==
  ASSUME ParserInv, NEW byte \in STRING, Csi(byte), state' = "PASTE"
  PROVE  ParserInv'
  <1>1. /\ unread \in Nat /\ unread' = unread - 1 /\ unread > 0
        /\ Len(msgs) < max_msgs /\ state = "CSI"
        /\ UNCHANGED <<input_len, max_msgs, lost, terminal, utf8_remaining>>
    BY DEF Csi, FeedIn, callVars, ParserInv, IPTypeOK
  <1>2. /\ max_msgs \in Nat \ {0} /\ Len(msgs) \in Nat /\ input_len \in Nat
        /\ lost \in Nat /\ terminal \in Terminals /\ utf8_remaining \in 0 .. 3
        /\ has_pending \in BOOLEAN /\ msgs \in Seq(Message)
        /\ paste_cap \in Nat
    BY DEF ParserInv, IPTypeOK
  <1>3. ~has_pending
    BY <1>1, <1>2 DEF ParserInv, PendingWaits
  <1>4. byte = "~" /\ Stored(byte) = PasteStartSeq
    BY DEF Csi
  <1>5. /\ Emit("paste_start")
        /\ paste_buf' = <<>> /\ paste_match' = 0 /\ fed' = <<>>
        /\ missing' = 0 /\ paste_cap' = paste_cap
        /\ seq_buf' \in {<<>>, Stored(byte)}
    BY <1>4 DEF Csi, NoPaste
  <1>6. /\ msgs' \in Seq(Message) /\ Len(msgs') = Len(msgs) + 1
        /\ last' = "paste_start" /\ has_pending' = has_pending
    <2>1. Msg("paste_start") \in Message
      BY MsgIsMessage DEF Types
    <2> QED BY <1>2, <1>5, <2>1 DEF Emit
  <1>7. /\ Stored(byte) \in Seq(STRING) /\ Len(Stored(byte)) < SEQ_BUF
        /\ <<>> \in Seq(STRING) /\ Len(<<>>) < SEQ_BUF
    BY StoredFits
  <1>8. IPTypeOK'
    <2>1. "PASTE" \in States /\ 0 \in 0 .. Len(PASTE_END_MARKER) - 1
      BY HeldFacts DEF States, MarkerLen
    <2>2. unread' \in Nat /\ Len(msgs') <= max_msgs
      BY <1>1, <1>2, <1>6
    <2>3. seq_buf' \in Seq(STRING) /\ Len(seq_buf') < SEQ_BUF
      BY <1>5, <1>7
    <2>4. paste_buf' \in Seq(STRING) /\ fed' \in Seq(STRING)
      BY <1>5, <1>7
    <2> QED BY <1>1, <1>2, <1>5, <1>6, <2>1, <2>2, <2>3, <2>4 DEF IPTypeOK
  <1>9. CharacterIsOpen' /\ PendingWaits' /\ LongArrayKeepsUp'
    BY <1>1, <1>3, <1>6
    DEF CharacterIsOpen, PendingWaits, ParserInv, LongArrayKeepsUp
  <1>10. PasteKeepsBytes' /\ PasteEndsAtMarker' /\ MatchIsLongest'
    <2>1. IsSent(paste_buf \o Held(paste_match), fed)'
      <3>1. Held(paste_match') = <<>> /\ <<>> \o <<>> = <<>> /\ Len(<<>>) = 0
        BY <1>5, HeldFacts
      <3> QED BY <1>5, <3>1 DEF IsSent
    <2>2. Len(fed') = 0 /\ MarkerLen \in Nat /\ MarkerLen > 1
      BY <1>5, HeldFacts
    <2>3. ~Contains(fed', PASTE_END_MARKER)
      BY <2>2 DEF Contains, MarkerLen
    <2>4. \A j \in 1 .. MarkerLen : ~EndsWith(fed', j)
      BY <2>2 DEF EndsWith
    <2> QED BY <2>1, <2>3, <2>4 DEF PasteKeepsBytes, PasteEndsAtMarker, MatchIsLongest
  <1>11. MessagesArePaidFor'
    BY <1>1, <1>2, <1>5, <1>6 DEF ParserInv, MessagesArePaidFor
  <1> QED BY <1>6, <1>8, <1>9, <1>10, <1>11 DEF ParserInv

\* What holds before a byte of a paste is fed.
LEMMA BeforePasteByte ==
  ASSUME ParserInv, FeedIn("PASTE")
  PROVE  /\ state = "PASTE" /\ last = "paste_start"
         /\ ~has_pending /\ has_pending \in BOOLEAN
         /\ unread \in Nat /\ unread' = unread - 1 /\ unread > 0
         /\ max_msgs \in Nat \ {0} /\ input_len \in Nat
         /\ lost \in Nat /\ terminal \in Terminals
         /\ Len(msgs) < max_msgs /\ Len(msgs) \in Nat
         /\ seq_buf \in Seq(STRING) /\ Len(seq_buf) < SEQ_BUF
         /\ utf8_remaining \in 0 .. 3 /\ msgs \in Seq(Message)
         /\ paste_buf \in Seq(STRING) /\ fed \in Seq(STRING)
         /\ paste_match \in 0 .. MarkerLen - 1
         /\ missing \in Nat /\ paste_cap \in Nat
         /\ paste_buf # <<>> => Len(paste_buf) < paste_cap
         /\ IsSent(paste_buf \o Held(paste_match), fed)
         /\ UNCHANGED <<input_len, max_msgs, lost, terminal>>
  <1>1. /\ state = "PASTE" /\ unread' = unread - 1 /\ unread > 0
        /\ Len(msgs) < max_msgs
        /\ UNCHANGED <<input_len, max_msgs, lost, terminal>>
    BY DEF FeedIn, callVars
  <1>2. IPTypeOK /\ msgs \in Seq(Message) /\ PendingWaits /\ PasteKeepsBytes
    BY DEF ParserInv
  <1>3. last = "paste_start" /\ ~has_pending
    BY <1>1, <1>2 DEF PendingWaits
  <1>4. IsSent(paste_buf \o Held(paste_match), fed)
    BY <1>1, <1>2 DEF PasteKeepsBytes
  <1>5. Len(msgs) \in Nat
    BY <1>2
  <1> QED BY <1>1, <1>2, <1>3, <1>4, <1>5 DEF IPTypeOK, MarkerLen

\* A byte that leaves the parser in a paste: what has been sent does not
\* contain the marker as long as the longest match is short of it.
LEMMA PasteByteKeepsInv ==
  ASSUME ParserInv, FeedIn("PASTE"), NEW byte \in STRING,
         state' = "PASTE", Silent, UNCHANGED escVars,
         fed' = Append(fed, byte),
         paste_buf' \in Seq(STRING), paste_match' \in 0 .. MarkerLen - 1,
         missing' \in Nat, paste_cap' \in Nat,
         paste_buf' # <<>> => Len(paste_buf') < paste_cap',
         IsSent(paste_buf \o Held(paste_match), fed)',
         \A j \in 1 .. MarkerLen :
           byte = PASTE_END_MARKER[j] /\ EndsWith(fed, j - 1) => j = paste_match'
  PROVE  ParserInv'
  <1> USE BeforePasteByte
  <1>1. fed \in Seq(STRING) /\ fed' \in Seq(STRING) /\ MarkerLen \in Nat
    BY AppendFacts, HeldFacts
  <1>2. MatchIsLongest'
    <2> SUFFICES ASSUME NEW j \in 1 .. MarkerLen, EndsWith(fed', j)
                 PROVE  j = paste_match'
      BY DEF MatchIsLongest
    <2>1. EndsWith(Append(fed, byte), j)
      OBVIOUS
    <2>2. byte = PASTE_END_MARKER[j] /\ EndsWith(fed, j - 1)
      BY <1>1, <2>1, EndsWithAppend
    <2> QED BY <2>2
  <1>3. PasteEndsAtMarker'
    <2>1. ~Contains(fed, PASTE_END_MARKER)
      BY DEF ParserInv, PasteEndsAtMarker
    <2>2. ~EndsWith(fed', MarkerLen)
      <3>1. MarkerLen \in 1 .. MarkerLen /\ MarkerLen # paste_match'
        BY HeldFacts
      <3> QED BY <1>2, <3>1 DEF MatchIsLongest
    <2>3. ~Contains(fed', PASTE_END_MARKER)
      BY <1>1, <2>1, <2>2, ContainsAppend, MarkerAssumption
    <2> QED BY <2>3 DEF PasteEndsAtMarker
  <1>4. PasteKeepsBytes' /\ CharacterIsOpen'
    BY DEF PasteKeepsBytes, CharacterIsOpen
  <1>5. IPTypeOK'
    <2>6. UNCHANGED <<seq_buf, utf8_remaining, msgs, has_pending>>
      BY DEF Silent, escVars
    <2>5. unread' \in Nat
      BY ONLY BeforePasteByte, ParserInv, FeedIn("PASTE")
    <2>1. /\ UNCHANGED <<seq_buf, utf8_remaining, msgs, has_pending>>
          /\ unread' \in Nat /\ "PASTE" \in States
      BY <2>5, <2>6 DEF States
    <2>2. /\ terminal' \in Terminals /\ input_len' \in Nat
          /\ max_msgs' \in Nat \ {0} /\ lost' \in Nat /\ state' \in States
          /\ has_pending' \in BOOLEAN
      BY <2>1
    <2>3. /\ seq_buf' \in Seq(STRING) /\ Len(seq_buf') < SEQ_BUF
          /\ utf8_remaining' \in 0 .. 3 /\ Len(msgs') <= max_msgs'
      BY SMTT(30), <2>1
    <2>4. paste_match' \in 0 .. Len(PASTE_END_MARKER) - 1
      BY DEF MarkerLen
    <2> QED BY <1>1, <2>1, <2>2, <2>3, <2>4 DEF IPTypeOK
  <1>6. PendingWaits' /\ LongArrayKeepsUp' /\ msgs' \in Seq(Message)
    BY DEF Silent, ParserInv, PendingWaits, LongArrayKeepsUp
  <1>7. MessagesArePaidFor'
    <2>1. MessagesArePaidFor
      BY DEF ParserInv
    <2>2. unread <= input_len /\ Len(msgs) + unread <= input_len
      BY ONLY <2>1, BeforePasteByte, ParserInv, FeedIn("PASTE") DEF MessagesArePaidFor
    <2>3. msgs' = msgs /\ input_len' = input_len /\ unread' = unread - 1
      BY DEF Silent
    <2>4. /\ unread' <= input_len'
          /\ Len(msgs') + unread' < input_len'
      BY ONLY <2>2, <2>3, BeforePasteByte, ParserInv, FeedIn("PASTE")
    <2>5. Len(msgs') \in Nat /\ unread' \in Nat /\ input_len' \in Nat
      BY SMTT(30), <2>3
    <2>6. state' = "PASTE"
      OBVIOUS
    <2> QED BY ONLY <2>4, <2>5, <2>6 DEF MessagesArePaidFor
  <1> QED BY <1>2, <1>3, <1>4, <1>5, <1>6, <1>7 DEF ParserInv

LEMMA OneByte ==
  ASSUME NEW S, NEW b \in S
  PROVE  /\ <<b>> \in Seq(S) /\ <<>> \in Seq(S)
         /\ Len(<<b>>) = 1 /\ Len(<<>>) = 0
         /\ <<>> \o <<b>> = <<b>> /\ <<b>> \o <<>> = <<b>>
  OBVIOUS

\* A byte more of what was sent, and the same byte more of the text.
LEMMA SentMore ==
  ASSUME NEW text \in Seq(STRING), NEW part \in Seq(STRING),
         NEW sent \in Seq(STRING), NEW byte \in STRING, missing \in Nat,
         IsSent(text \o part, sent)
  PROVE  IsSent(text \o (part \o <<byte>>), Append(sent, byte))
  <1>1. <<byte>> \in Seq(STRING) /\ Len(<<byte>>) = 1
    BY OneByte
  <1>2. /\ text \o part \in Seq(STRING)
        /\ (text \o part) \o <<byte>> = text \o (part \o <<byte>>)
        /\ Len((text \o part) \o <<byte>>) = Len(text \o part) + 1
        /\ Len(text \o part) \in Nat
    <2>1. text \o part \in Seq(STRING)
      OBVIOUS
    <2>2. (text \o part) \o <<byte>> = text \o (part \o <<byte>>)
      BY <1>1, ConcatAssociative
    <2>3. /\ Len((text \o part) \o <<byte>>) = Len(text \o part) + 1
          /\ Len(text \o part) \in Nat
      BY <1>1, <2>1, ConcatProperties
    <2> QED BY <2>1, <2>2, <2>3
  <1>3. /\ Append(sent, byte) = sent \o <<byte>>
        /\ Len(Append(sent, byte)) = Len(sent) + 1
    BY AppendIsConcat, AppendFacts
  <1> DEFINE whole == text \o part
             longer == text \o (part \o <<byte>>)
             more == Append(sent, byte)
  <1>4. /\ Len(sent) = Len(whole) + missing
        /\ missing = 0 => sent = whole
    BY DEF IsSent
  <1>5. /\ longer = whole \o <<byte>> /\ Len(longer) = Len(whole) + 1
        /\ more = sent \o <<byte>> /\ Len(more) = Len(sent) + 1
        /\ Len(whole) \in Nat
    BY <1>2, <1>3
  <1> HIDE DEF whole, longer, more
  <1>6. Len(more) = Len(longer) + missing
    BY <1>4, <1>5
  <1>7. missing = 0 => more = longer
    BY <1>4, <1>5
  <1>8. IsSent(longer, more)
    BY <1>6, <1>7 DEF IsSent
  <1> QED BY <1>8 DEF longer, more

\* What paste_buf_append leaves: the text with the piece, or the text as it
\* was and the piece counted as missing; either way there is room for a NUL.
Texts == [text : Seq(STRING), cap : Nat, missing : Nat]
Fits(t) == t.text # <<>> => Len(t.text) < t.cap
LEMMA AppendedFacts ==
  ASSUME NEW t \in Texts, Fits(t), NEW piece \in Seq(STRING),
         NEW u \in Appended(t, piece)
  PROVE  /\ u \in Texts /\ Fits(u) /\ u.missing >= t.missing
         /\ Len(u.text) + u.missing = Len(t.text) + t.missing + Len(piece)
         /\ u.missing = t.missing => u.text = t.text \o piece
  <1> DEFINE needed == Len(t.text) + Len(piece) + 1
             longer == [t EXCEPT !.text = @ \o piece]
             start == IF t.cap > 0 THEN t.cap ELSE PASTE_CAP
             grown == [longer EXCEPT !.cap = Doubled(start, needed)]
             short == [t EXCEPT !.missing = @ + Len(piece)]
  <1>1. /\ t.text \in Seq(STRING) /\ t.cap \in Nat /\ t.missing \in Nat
        /\ Len(t.text) \in Nat /\ Len(piece) \in Nat
        /\ needed \in Nat /\ start \in Nat \ {0}
    BY ParserAssumption DEF Texts
  <1>2. /\ t.text \o piece \in Seq(STRING)
        /\ Len(t.text \o piece) = Len(t.text) + Len(piece)
    BY <1>1, ConcatProperties
  <1>3. Doubled(start, needed) \in Nat /\ Doubled(start, needed) >= needed
    BY <1>1, DoubledHolds
  <1>4. CASE piece = <<>>
    <2>1. u = t
      BY <1>4 DEF Appended
    <2>2. t.text \o piece = t.text /\ Len(piece) = 0
      BY <1>1, <1>4
    <2> QED BY <1>1, <2>1, <2>2
  <1>5. CASE piece # <<>>
    <2>1. Len(piece) > 0
      BY <1>5, EmptySeq
    <2>2. (u = longer /\ needed <= t.cap) \/ u = grown \/ u = short
      BY <1>1, <1>5 DEF Appended
    <2>3. CASE u = longer /\ needed <= t.cap
      <3>1. u.text = t.text \o piece /\ u.cap = t.cap /\ u.missing = t.missing
            /\ u \in Texts
        BY <1>1, <1>2, <2>3 DEF Texts
      <3>2. Len(u.text) = Len(t.text) + Len(piece)
        BY <1>2, <3>1
      <3>3. Fits(u)
        BY <1>1, <2>3, <3>1, <3>2 DEF Fits
      <3>4. u.missing >= t.missing
        BY ONLY <1>1, <3>1
      <3>5. Len(u.text) + u.missing = Len(t.text) + t.missing + Len(piece)
        <4>1. u.missing = t.missing
          BY ONLY <3>1
        <4>2. Len(u.text) \in Nat
          BY ONLY <1>1, <3>2
        <4> DEFINE before == Len(t.text)   after == Len(u.text)
                   lack == t.missing       lacks == u.missing
                   more == Len(piece)
        <4>3. /\ before \in Nat /\ after \in Nat /\ lack \in Nat /\ more \in Nat
              /\ after = before + more /\ lacks = lack
          BY ONLY <1>1, <3>2, <4>1, <4>2
        <4> HIDE DEF before, after, lack, lacks, more
        <4>4. after + lacks = before + lack + more
          BY ONLY <4>3
        <4> QED BY ONLY <4>4 DEF before, after, lack, lacks, more
      <3> QED BY ONLY <3>1, <3>3, <3>4, <3>5
    <2>4. CASE u = grown
      <3> HIDE DEF needed, start
      <3>1. u.text = t.text \o piece /\ u.missing = t.missing
            /\ u.cap = Doubled(start, needed) /\ u \in Texts
        BY <1>1, <1>2, <1>3, <2>4 DEF Texts
      <3>2. Len(u.text) = Len(t.text) + Len(piece)
        BY <1>2, <3>1
      <3>3. Fits(u)
        BY <1>1, <1>3, <3>1, <3>2 DEF Fits, needed
      <3>4. u.missing >= t.missing
        BY ONLY <1>1, <3>1
      <3>5. Len(u.text) + u.missing = Len(t.text) + t.missing + Len(piece)
        <4>1. u.missing = t.missing
          BY ONLY <3>1
        <4>2. Len(u.text) \in Nat
          BY ONLY <1>1, <3>2
        <4> DEFINE before == Len(t.text)   after == Len(u.text)
                   lack == t.missing       lacks == u.missing
                   more == Len(piece)
        <4>3. /\ before \in Nat /\ after \in Nat /\ lack \in Nat /\ more \in Nat
              /\ after = before + more /\ lacks = lack
          BY ONLY <1>1, <3>2, <4>1, <4>2
        <4> HIDE DEF before, after, lack, lacks, more
        <4>4. after + lacks = before + lack + more
          BY ONLY <4>3
        <4> QED BY ONLY <4>4 DEF before, after, lack, lacks, more
      <3> QED BY ONLY <3>1, <3>3, <3>4, <3>5
    <2>5. CASE u = short
      <3>1. u.text = t.text /\ u.cap = t.cap /\ u \in Texts
            /\ u.missing = t.missing + Len(piece)
        BY <1>1, <2>5 DEF Texts
      <3> QED BY <1>1, <2>1, <3>1 DEF Fits
    <2> QED BY <2>2, <2>3, <2>4, <2>5
  <1> QED BY <1>4, <1>5

\* The next byte of the marker, which is not yet complete.
LEMMA MatchedKeepsInv ==
  ASSUME ParserInv, NEW byte \in STRING, PasteMatched(byte), state' = "PASTE"
  PROVE  ParserInv'
  <1>1. FeedIn("PASTE")
    BY DEF PasteMatched
  <1>2. /\ paste_buf \in Seq(STRING) /\ paste_match \in 0 .. MarkerLen - 1
        /\ fed \in Seq(STRING) /\ IsSent(paste_buf \o Held(paste_match), fed)
        /\ missing \in Nat /\ paste_cap \in Nat
        /\ paste_buf # <<>> => Len(paste_buf) < paste_cap
    BY <1>1, BeforePasteByte
  <1>3. MarkerLen \in Nat /\ MarkerLen > 1
    BY HeldFacts
  <1>4. /\ byte = PASTE_END_MARKER[paste_match + 1]
        /\ paste_match + 1 < MarkerLen /\ paste_match' = paste_match + 1
        /\ paste_buf' = paste_buf /\ fed' = Append(fed, byte)
        /\ missing' = missing /\ paste_cap' = paste_cap
        /\ Silent /\ UNCHANGED escVars
    BY DEF PasteMatched, GiveOut, MarkerLen
  <1>5. IsSent(paste_buf \o Held(paste_match), fed)'
    <2>1. /\ Held(paste_match) \in Seq(STRING) /\ <<byte>> \in Seq(STRING)
          /\ Held(paste_match + 1) = Held(paste_match) \o <<byte>>
      <3>1. paste_match + 1 \in 1 .. MarkerLen /\ (paste_match + 1) - 1 = paste_match
        BY <1>2, <1>3
      <3>2. Held(paste_match) \in Seq(STRING)
        BY <1>2, <1>3, HeldFacts
      <3>3. Held(paste_match + 1)
              = Held((paste_match + 1) - 1) \o <<PASTE_END_MARKER[paste_match + 1]>>
        BY <3>1, HeldFacts
      <3> QED BY <1>4, <3>1, <3>2, <3>3, OneByte
    <2>2. IsSent(paste_buf \o (Held(paste_match) \o <<byte>>), Append(fed, byte))
      BY <1>2, <2>1, SentMore
    <2>3. /\ fed' = Append(fed, byte) /\ paste_buf' = paste_buf
          /\ Held(paste_match') = Held(paste_match) \o <<byte>>
      BY <1>4, <2>1
    <2> QED BY <1>4, <2>2, <2>3 DEF IsSent
  <1>6. ASSUME NEW j \in 1 .. MarkerLen, byte = PASTE_END_MARKER[j],
               EndsWith(fed, j - 1)
        PROVE  j = paste_match'
    <2>1. CASE j > 1
      <3>1. j - 1 \in 1 .. MarkerLen
        BY <1>3, <2>1
      <3>2. j - 1 = paste_match
        BY <1>1, <1>6, <3>1, BeforePasteByte DEF ParserInv, MatchIsLongest
      <3> QED BY <1>2, <1>4, <3>2
    <2>2. CASE j = 1
      <3>1. paste_match + 1 \notin 2 .. Len(PASTE_END_MARKER)
        BY <1>4, <1>6, <2>2, MarkerAssumption
      <3> QED BY <1>2, <1>3, <1>4, <2>2, <3>1 DEF MarkerLen
    <2> QED BY <1>3, <2>1, <2>2
  <1>7. /\ paste_buf' \in Seq(STRING) /\ paste_match' \in 0 .. MarkerLen - 1
        /\ missing' \in Nat /\ paste_cap' \in Nat
        /\ paste_buf' # <<>> => Len(paste_buf') < paste_cap'
    BY <1>2, <1>3, <1>4
  <1> QED BY <1>1, <1>4, <1>5, <1>6, <1>7, PasteByteKeepsInv

\* A byte that breaks a match: what was held back is data, and so is the byte
\* unless the marker starts with it.
LEMMA BrokenKeepsInv ==
  ASSUME ParserInv, NEW byte \in STRING, PasteBroken(byte)
  PROVE  ParserInv'
  <1>1. FeedIn("PASTE")
    BY DEF PasteBroken
  <1>2. /\ paste_buf \in Seq(STRING) /\ paste_match \in 0 .. MarkerLen - 1
        /\ fed \in Seq(STRING) /\ IsSent(paste_buf \o Held(paste_match), fed)
        /\ missing \in Nat /\ paste_cap \in Nat
        /\ paste_buf # <<>> => Len(paste_buf) < paste_cap
        /\ state = "PASTE"
    BY <1>1, BeforePasteByte
  <1>3. MarkerLen \in Nat /\ MarkerLen > 1
    BY HeldFacts
  <1> DEFINE rest == IF byte = PASTE_END_MARKER[1] THEN <<>> ELSE <<byte>>
             held == IF byte = PASTE_END_MARKER[1] THEN <<byte>> ELSE <<>>
  <1>4. /\ byte # PASTE_END_MARKER[paste_match + 1]
        /\ paste_match' = IF byte = PASTE_END_MARKER[1] THEN 1 ELSE 0
        /\ \E flushed \in Appended(Text, Held(paste_match)) :
             \E t \in Appended(flushed, rest) :
               paste_buf' = t.text /\ paste_cap' = t.cap /\ missing' = t.missing
        /\ fed' = Append(fed, byte)
        /\ Silent /\ UNCHANGED escVars /\ state' = "PASTE"
    BY <1>2 DEF PasteBroken
  <1>5. Held(paste_match') = held
    <2>1. Held(0) = <<>>
      BY HeldFacts
    <2>2. Held(1) = <<PASTE_END_MARKER[1]>>
      <3>1. 1 \in 1 .. MarkerLen /\ 1 - 1 = 0
        BY <1>3
      <3>2. Held(1) = <<>> \o <<PASTE_END_MARKER[1]>>
        BY <2>1, <3>1, HeldFacts
      <3> QED BY <3>2
    <2> QED BY <1>4, <2>1, <2>2
  <1>6. /\ rest \in Seq(STRING) /\ held \in Seq(STRING) /\ rest \o held = <<byte>>
        /\ Len(rest) + Len(held) = 1 /\ Len(rest) \in Nat /\ Len(held) \in Nat
    <2>3. /\ <<byte>> \in Seq(STRING) /\ Len(<<byte>>) = 1
          /\ <<>> \in Seq(STRING) /\ Len(<<>>) = 0
          /\ <<>> \o <<byte>> = <<byte>> /\ <<byte>> \o <<>> = <<byte>>
      BY OneByte
    <2>1. CASE byte = PASTE_END_MARKER[1]
      BY <2>1, <2>3
    <2>2. CASE byte # PASTE_END_MARKER[1]
      <3>1. rest = <<byte>> /\ held = <<>>
        BY <2>2
      <3> HIDE DEF rest, held
      <3>2. Len(rest) = 1 /\ Len(held) = 0
        BY ONLY <2>3, <3>1
      <3>3. rest \in Seq(STRING) /\ held \in Seq(STRING) /\ rest \o held = <<byte>>
        BY ONLY <2>3, <3>1
      <3> QED BY ONLY <3>2, <3>3
    <2> QED BY <2>1, <2>2
  <1> HIDE DEF rest, held
  <1>h. /\ Held(paste_match) \in Seq(STRING) /\ Len(Held(paste_match)) \in Nat
    BY <1>2, <1>3, HeldFacts
  <1>f. PICK flushed \in Appended(Text, Held(paste_match)) :
          \E t \in Appended(flushed, rest) :
            paste_buf' = t.text /\ paste_cap' = t.cap /\ missing' = t.missing
    BY <1>4
  <1>a. PICK t \in Appended(flushed, rest) :
          paste_buf' = t.text /\ paste_cap' = t.cap /\ missing' = t.missing
    BY <1>f
  <1>b. /\ Text \in Texts /\ Fits(Text) /\ Text.text = paste_buf
        /\ Text.missing = missing
    BY <1>2 DEF Text, Texts, Fits
  <1>c. /\ flushed \in Texts /\ Fits(flushed) /\ flushed.missing >= missing
        /\ Len(flushed.text) + flushed.missing
             = Len(paste_buf) + missing + Len(Held(paste_match))
        /\ flushed.missing = missing => flushed.text = paste_buf \o Held(paste_match)
    BY <1>b, <1>h, AppendedFacts
  <1>d. /\ t \in Texts /\ Fits(t) /\ t.missing >= flushed.missing
        /\ Len(t.text) + t.missing
             = Len(flushed.text) + flushed.missing + Len(rest)
        /\ t.missing = flushed.missing => t.text = flushed.text \o rest
    BY <1>6, <1>c, AppendedFacts
  <1>7. /\ paste_buf' \in Seq(STRING) /\ paste_match' \in 0 .. MarkerLen - 1
        /\ missing' \in Nat /\ paste_cap' \in Nat
        /\ paste_buf' # <<>> => Len(paste_buf') < paste_cap'
    BY <1>2, <1>3, <1>4, <1>a, <1>d DEF Texts, Fits
  <1>8. IsSent(paste_buf \o Held(paste_match), fed)'
    <2>1. /\ Len(paste_buf) \in Nat /\ Len(flushed.text) \in Nat /\ Len(t.text) \in Nat
          /\ flushed.missing \in Nat /\ t.missing \in Nat /\ Len(fed) \in Nat
      BY <1>2, <1>c, <1>d DEF Texts
    <2>2. /\ fed' \in Seq(STRING) /\ Len(fed') = Len(fed) + 1
          /\ fed' = fed \o <<byte>>
      BY <1>2, <1>4, AppendIsConcat
    <2>3. Len(fed) = Len(paste_buf) + Len(Held(paste_match)) + missing
      BY <1>2, <1>h, ConcatProperties DEF IsSent
    <2>4. Len(t.text \o held) = Len(t.text) + Len(held)
      <3>1. t.text \in Seq(STRING)
        BY <1>d DEF Texts
      <3> QED BY <1>6, <3>1, ConcatProperties
    <2>5. Len(fed') = Len(t.text \o held) + t.missing
      <3>1. Len(t.text) + t.missing = Len(fed) + Len(rest)
        BY <1>2, <1>6, <1>h, <1>c, <1>d, <2>1, <2>3
      <3> QED BY <1>6, <2>1, <2>2, <2>4, <3>1
    <2>6. ASSUME t.missing = 0 PROVE fed' = t.text \o held
      <3>1. flushed.missing = 0 /\ missing = 0
        BY <1>2, <1>c, <1>d, <2>1, <2>6
      <3>2. fed = paste_buf \o Held(paste_match) /\ flushed.text = fed
        BY <1>2, <1>c, <3>1 DEF IsSent
      <3>3. t.text = fed \o rest
        BY <1>d, <2>6, <3>1, <3>2
      <3>4. (fed \o rest) \o held = fed \o (rest \o held)
        <4>1. fed \in Seq(STRING) /\ rest \in Seq(STRING) /\ held \in Seq(STRING)
          BY <1>2, <1>6
        <4> QED BY SMTT(30), <4>1, ConcatAssociative
      <3> QED BY <1>6, <2>2, <3>3, <3>4
    <2> QED BY <1>5, <1>a, <2>5, <2>6 DEF IsSent
  <1>9. ASSUME NEW j \in 1 .. MarkerLen, byte = PASTE_END_MARKER[j],
               EndsWith(fed, j - 1)
        PROVE  j = paste_match'
    <2>1. CASE j > 1
      <3>1. j - 1 \in 1 .. MarkerLen
        BY <1>3, <2>1
      <3>2. j - 1 = paste_match
        BY <1>2, <1>9, <3>1 DEF ParserInv, MatchIsLongest
      <3>3. j = paste_match + 1
        BY <1>2, <3>2
      <3> QED BY <1>4, <1>9, <3>3
    <2>2. CASE j = 1
      BY <1>4, <1>9, <2>2
    <2> QED BY <1>3, <2>1, <2>2
  <1> QED BY <1>1, <1>4, <1>7, <1>8, <1>9, PasteByteKeepsInv

\* The last byte of the marker: PASTE goes out, and PASTE_END with it or, when
\* the array is full, at the start of the next call.
LEMMA EndKeepsInv ==
  ASSUME ParserInv, NEW byte \in STRING, PasteMatched(byte), state' # "PASTE"
  PROVE  ParserInv' /\ msgs'[Len(msgs) + 1].text = paste_buf
                    /\ IsSent(paste_buf \o PASTE_END_MARKER, fed')
  <1>1. FeedIn("PASTE")
    BY DEF PasteMatched
  <1> USE BeforePasteByte
  <1>2. MarkerLen \in Nat /\ MarkerLen > 1
    BY HeldFacts
  <1>3. /\ byte = PASTE_END_MARKER[paste_match + 1]
        /\ state' = "GROUND" /\ paste_match' = 0 /\ paste_buf' = <<>>
        /\ paste_cap' = 0 /\ missing' = 0
        /\ EmitPaste(paste_buf) /\ UNCHANGED escVars
        /\ fed' = Append(fed, byte) /\ paste_match = MarkerLen - 1
    BY SMTT(30), <1>1, <1>2 DEF PasteMatched, GiveOut, MarkerLen, FeedIn
  <1> DEFINE room == Len(msgs) + 2 <= max_msgs
             paste == [type |-> "paste", text |-> paste_buf]
  <1>4. IsSent(paste_buf \o PASTE_END_MARKER, fed')
    <2>1. /\ Held(paste_match) \in Seq(STRING) /\ <<byte>> \in Seq(STRING)
          /\ PASTE_END_MARKER = Held(paste_match) \o <<byte>>
      <3>1. /\ MarkerLen \in 1 .. MarkerLen /\ (MarkerLen - 1) + 1 = MarkerLen
            /\ MarkerLen - 1 \in 0 .. MarkerLen
        BY <1>2
      <3>2. Held(MarkerLen) = Held(MarkerLen - 1) \o <<PASTE_END_MARKER[MarkerLen]>>
        BY <3>1, HeldFacts
      <3>3. Held(MarkerLen - 1) \in Seq(STRING) /\ Held(MarkerLen) = PASTE_END_MARKER
        BY <3>1, HeldFacts
      <3> QED BY <1>3, <3>1, <3>2, <3>3, OneByte
    <2>2. /\ paste_buf \in Seq(STRING) /\ fed \in Seq(STRING)
          /\ missing \in Nat /\ IsSent(paste_buf \o Held(paste_match), fed)
      BY <1>1
    <2>3. byte \in STRING
      OBVIOUS
    <2>4. IsSent(paste_buf \o (Held(paste_match) \o <<byte>>), Append(fed, byte))
      BY ONLY <2>1, <2>2, <2>3, SentMore
    <2> QED BY <1>3, <2>1, <2>4
  <1>5. paste \in Message /\ Msg("paste_end") \in Message /\ msgs \in Seq(Message)
    BY <1>1, MsgIsMessage DEF Types, Message
  <1>6. /\ msgs' = msgs \o (IF room THEN <<paste, Msg("paste_end")>> ELSE <<paste>>)
        /\ has_pending' = ~room
        /\ last' = IF room THEN "paste_end" ELSE "paste"
    BY <1>3 DEF EmitPaste
  <1> HIDE DEF paste
  <1>7. /\ msgs' \in Seq(Message)
        /\ Len(msgs') = Len(msgs) + (IF room THEN 2 ELSE 1)
        /\ msgs'[Len(msgs) + 1] = paste
    <2>1. CASE room
      <3>1. msgs' = msgs \o <<paste, Msg("paste_end")>>
        BY <1>6, <2>1
      <3> QED BY <1>5, <2>1, <3>1
    <2>2. CASE ~room
      <3>1. msgs' = msgs \o <<paste>>
        BY <1>6, <2>2
      <3> QED BY <1>5, <2>2, <3>1
    <2> QED BY <2>1, <2>2
  <1>8. paste.text = paste_buf
    BY DEF paste
  <1>9. has_pending' \in BOOLEAN
    BY <1>6
  <1>10. IPTypeOK'
    <2>1. /\ <<>> \in Seq(STRING) /\ fed' \in Seq(STRING)
      BY <1>1, <1>3, AppendFacts, OneByte
    <2>2. Len(msgs') <= max_msgs' /\ unread' \in Nat
      BY SMTT(30), <1>1, <1>7
    <2>3. "GROUND" \in States /\ 0 \in 0 .. Len(PASTE_END_MARKER) - 1
      BY <1>2 DEF States, MarkerLen
    <2>4. /\ terminal' \in Terminals /\ input_len' \in Nat
          /\ max_msgs' \in Nat \ {0} /\ lost' \in Nat
      BY <1>1
    <2>5. /\ seq_buf' \in Seq(STRING) /\ Len(seq_buf') < SEQ_BUF
          /\ utf8_remaining' \in 0 .. 3
      BY <1>1, <1>3 DEF escVars
    <2> QED BY <1>3, <1>9, <2>1, <2>2, <2>3, <2>4, <2>5 DEF IPTypeOK
  <1>11. /\ CharacterIsOpen' /\ PasteKeepsBytes' /\ PasteEndsAtMarker'
         /\ MatchIsLongest'
    BY <1>3 DEF CharacterIsOpen, PasteKeepsBytes, PasteEndsAtMarker, MatchIsLongest
  <1>12. PendingWaits'
    <2>1. ~room => Len(msgs') = max_msgs'
      BY <1>1, <1>7
    <2> QED BY <1>3, <1>6, <2>1 DEF PendingWaits
  <1>13. MessagesArePaidFor'
    <2>1. Len(msgs) + unread <= input_len
      BY <1>1 DEF ParserInv, MessagesArePaidFor
    <2>2. Len(msgs') + unread' <= input_len + 1
      <3>1. /\ Len(msgs) \in Nat /\ unread \in Nat /\ unread' = unread - 1
            /\ input_len \in Nat
        BY <1>1
      <3>2. Len(msgs') = Len(msgs) + 2 \/ Len(msgs') = Len(msgs) + 1
        BY <1>7, Zenon
      <3> QED BY <2>1, <3>1, <3>2, SMTT(30)
    <2>3. unread' <= input_len
      BY <1>1, <2>1
    <2> QED BY <1>1, <1>3, <2>2, <2>3 DEF MessagesArePaidFor
  <1>14. LongArrayKeepsUp'
    <2> SUFFICES ASSUME 1 < max_msgs, input_len <= max_msgs
                 PROVE  lost <= 1 /\ room
      BY <1>1, <1>6 DEF LongArrayKeepsUp
    <2>1. lost <= 1
      BY DEF ParserInv, LongArrayKeepsUp
    <2>2. paste_match > 0
      BY <1>2, <1>3
    <2>3. /\ unread <= input_len /\ Len(msgs) + unread <= input_len
          /\ unread < input_len => Len(msgs) + unread < input_len
      BY <1>1, <2>2 DEF ParserInv, MessagesArePaidFor
    <2>4. room
      BY <1>1, <2>3
    <2> QED BY <2>1, <2>4
  <1> QED BY <1>4, <1>7, <1>8, <1>10, <1>11, <1>12, <1>13, <1>14 DEF ParserInv

\* Every step of the parser keeps the invariant.
LEMMA NextKeepsParserInv == ParserInv /\ [IPNext]_ipVars => ParserInv'
  <1> SUFFICES ASSUME ParserInv, [IPNext]_ipVars PROVE ParserInv'
    OBVIOUS
  <1>1. CASE UNCHANGED ipVars
    BY <1>1 DEF ipVars, IsSent, escVars, pasteVars, callVars, ParserInv, IPTypeOK,
                CharacterIsOpen, PasteKeepsBytes, PasteEndsAtMarker,
                MatchIsLongest, PendingWaits, MessagesArePaidFor, LongArrayKeepsUp
  <1>2. CASE \E n \in terminal.reads, max \in terminal.arrays : ParseBegin(n, max)
    BY <1>2, BeginKeepsInv
  <1>3. ASSUME NEW byte \in terminal.bytes, Feed(byte) PROVE ParserInv'
    <2>1. byte \in STRING
      BY ParserAssumption DEF ParserInv, IPTypeOK
    <2>2. CASE Ground(byte) \/ Escape(byte) \/ SS3(byte) \/ Utf8(byte)
      BY <2>1, <2>2, PlainKeepsInv
    <2>3. CASE Csi(byte) \/ CsiMouse(byte)
      <3>1. CASE state' # "PASTE"
        BY <2>1, <2>3, <3>1, SequenceKeepsInv
      <3>2. CASE state' = "PASTE"
        BY <2>1, <2>3, <3>2, PasteStartKeepsInv DEF CsiMouse
      <3> QED BY <3>1, <3>2
    <2>4. CASE PasteMatched(byte)
      BY <2>1, <2>4, MatchedKeepsInv, EndKeepsInv
    <2>5. CASE PasteBroken(byte)
      BY <2>1, <2>5, BrokenKeepsInv
    <2> QED BY <1>3, <2>2, <2>3, <2>4, <2>5 DEF Feed
  <1> QED BY <1>1, <1>2, <1>3, FullKeepsInv, ResetKeepsInv DEF IPNext

\* The parser's buffers, its output and the bytes it was sent agree.
THEOREM ParserInvariant == IPSpec => []ParserInv
  BY InitParserInv, NextKeepsParserInv, PTL DEF IPSpec

----------------------------------------------------------------------------
(* The properties that the runs check                                      *)

\* At every byte, the payload and the bytes held back are what the terminal
\* sent, but for those that failed reallocations dropped, and no end marker among them has been overlooked; nothing is written
\* past seq_buf or the output array.
THEOREM ParserStaysConsistent == IPSpec => []ParserConsistent
  BY ParserInvariant, PTL DEF ParserInv, ParserConsistent

\* PASTE_START, PASTE and PASTE_END stay together however reads and arrays
\* split them, and an array as long as its read never leaves PASTE_END behind.
THEOREM PastesAreBracketed == IPSpec => []PasteIsBracketed
  <1>1. ParserInv => PasteIsBracketed
    BY DEF ParserInv, PendingWaits, LongArrayKeepsUp, PasteIsBracketed,
           LongArraySuffices
  <1> QED BY <1>1, ParserInvariant, PTL

\* A paste is delivered with exactly the bytes sent before the end marker when
\* no realloc failed for it, and shorter by as many as the failed ones dropped
\* otherwise.
THEOREM PayloadsAreExact == IPSpec => PayloadIsExact
  <1>1. ParserInv /\ [IPNext]_ipVars
          => [state = "PASTE" /\ state' = "GROUND" /\ unread' < unread =>
                IsSent(msgs'[Len(msgs) + 1].text \o PASTE_END_MARKER, fed')]_ipVars
    <2> SUFFICES ASSUME ParserInv, IPNext, state = "PASTE", state' = "GROUND",
                        unread' < unread
                 PROVE  IsSent(msgs'[Len(msgs) + 1].text \o PASTE_END_MARKER, fed')
      OBVIOUS
    <2>1. unread \in Nat
      BY DEF ParserInv, IPTypeOK
    <2>2. /\ ~ArrayFull /\ ~Reset
          /\ \A n \in terminal.reads, max \in terminal.arrays : ~ParseBegin(n, max)
      BY <2>1 DEF ArrayFull, Reset, ParseBegin
    <2>3. PICK byte \in terminal.bytes : Feed(byte)
      BY <2>2 DEF IPNext
    <2>4. byte \in STRING
      BY ParserAssumption DEF ParserInv, IPTypeOK
    <2>5. PasteMatched(byte)
      BY <2>3 DEF Feed, Ground, Escape, SS3, Utf8, Csi, CsiMouse, PasteBroken, FeedIn
    <2> QED BY <2>4, <2>5, EndKeepsInv
  <1> QED BY <1>1, ParserInvariant, PTL DEF IPSpec, PayloadIsExact
============================================================================
