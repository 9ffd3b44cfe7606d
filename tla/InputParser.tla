---------------------------- MODULE InputParser -----------------------------
(***************************************************************************)
(* The byte-driven state machine of a TuiInputParser (input_parser.c) and  *)
(* the buffers around it: one read() of the event loop is one call of      *)
(* tui_input_parser_parse(), whose bytes are fed one at a time.            *)
(*                                                                         *)
(* A byte stands for its class: a literal for the bytes the parser looks   *)
(* at, "ctl" for a control byte with a key and "nokey" for one without,    *)
(* "lead2" .. "lead4", "cont" and "bad" for the bytes above 0x7F.          *)
(* Messages are their types; a paste carries its payload, whose memory     *)
(* doubles as it grows; a realloc that fails drops the bytes it was for.   *)
(***************************************************************************)
EXTENDS Naturals, Sequences, FiniteSets, Doubling

CONSTANTS
  Terminals,         \* the ways a terminal is read: records of the bytes it
                     \* sends, of how many a read returns (reads), and of
                     \* the slots of the output array (arrays)
  PASTE_END_MARKER,  \* ESC [ 2 0 1 ~
  PasteStartSeq,     \* what follows ESC [ at the start of a paste: 2 0 0 ~
  SEQ_BUF,           \* sizeof(seq_buf)
  PASTE_CAP,         \* the first capacity of paste_buf
  MaxPaste           \* bound on the bytes of a paste that spans reads

\* The end marker starts with a byte that is not found again in it.
ASSUME MarkerAssumption ==
  /\ PASTE_END_MARKER \in Seq(STRING) /\ Len(PASTE_END_MARKER) > 1
  /\ \A i \in 2 .. Len(PASTE_END_MARKER) :
       PASTE_END_MARKER[i] # PASTE_END_MARKER[1]
ASSUME ParserAssumption ==
  /\ \A t \in Terminals : /\ t.bytes \subseteq STRING
                          /\ t.reads \subseteq Nat \ {0}
                          /\ t.arrays \subseteq Nat \ {0}
  /\ PasteStartSeq \in Seq(STRING)
  /\ SEQ_BUF \in Nat \ {0} /\ PASTE_CAP \in Nat \ {0} /\ MaxPaste \in Nat

VARIABLES
  terminal,           \* chosen at the start
  state, seq_buf, utf8_remaining,
  paste_buf, paste_cap, paste_match,  \* the text, its memory, the bytes held
  has_pending,        \* PASTE_END waits for room in the output array
  input_len, max_msgs,  \* arguments of the current call
  unread, msgs, lost,   \* its bytes to feed, its messages out, and the bytes
                        \* that the full array left unread
  fed, missing,       \* ghost: the bytes sent in the current paste, and how
                      \* many of them failed reallocations dropped
  last                \* ghost: the last message

escVars   == <<seq_buf, utf8_remaining>>
pasteVars == <<paste_buf, paste_cap, paste_match, fed, missing>>
callVars  == <<terminal, input_len, max_msgs>>
ipVars == <<state, escVars, pasteVars, has_pending, callVars, unread, msgs, lost,
            last>>

States == {"GROUND", "ESCAPE", "CSI", "CSI_MOUSE", "SS3", "UTF8", "PASTE"}

Printable == {"[", "O", "<", "~", "M", "A", ";", "0", "1", "2", "x"}
Finals    == {"[", "O", "~", "M", "A", "x"}  \* 0x40 .. 0x7E
Digits    == {"0", "1", "2"}
Continuations(byte) == CASE byte = "lead2" -> 1
                         [] byte = "lead3" -> 2
                         [] byte = "lead4" -> 3

Msg(type) == [type |-> type, text |-> <<>>]

----------------------------------------------------------------------------

IPInit ==
  /\ terminal \in Terminals
  /\ input_len = 0 /\ max_msgs = 1
  /\ state = "GROUND"
  /\ seq_buf = <<>> /\ utf8_remaining = 0
  /\ paste_buf = <<>> /\ paste_cap = 0 /\ paste_match = 0
  /\ has_pending = FALSE
  /\ unread = 0 /\ msgs = <<>> /\ lost = 0
  /\ fed = <<>> /\ missing = 0 /\ last = "none"

\* Mutant of ParseBegin: the pending message is left for later.
ParseBeginEmpty(n, max) ==
  /\ unread = 0
  /\ state = "PASTE" => Len(fed) + n <= MaxPaste
  /\ input_len' = n /\ max_msgs' = max
  /\ unread' = n
  /\ lost' = 0
  /\ msgs' = <<>>
  /\ UNCHANGED <<terminal, state, escVars, pasteVars, has_pending, last>>

\* A call with the n bytes of a read and an array of `max' messages; a message
\* left over from the last call goes first.
ParseBegin(n, max) ==
  /\ unread = 0
  /\ state = "PASTE" => Len(fed) + n <= MaxPaste
  /\ input_len' = n /\ max_msgs' = max
  /\ unread' = n
  /\ lost' = 0
  /\ msgs' = IF has_pending THEN <<Msg("paste_end")>> ELSE <<>>
  /\ last' = IF has_pending THEN "paste_end" ELSE last
  /\ has_pending' = FALSE
  /\ UNCHANGED <<terminal, state, escVars, pasteVars>>

\* The output array is full: the rest of the bytes is not looked at.
ArrayFull ==
  /\ unread > 0 /\ Len(msgs) = max_msgs
  /\ lost' = unread
  /\ unread' = 0
  /\ UNCHANGED <<callVars, state, escVars, pasteVars, has_pending, msgs, last>>

\* A paste's text starts anew, in the memory that there is.
NoPaste == /\ paste_buf' = <<>> /\ paste_match' = 0
           /\ fed' = <<>> /\ missing' = 0
           /\ UNCHANGED paste_cap

\* tui_input_parser_reset, between two calls.
Reset ==
  /\ unread = 0
  /\ state' = "GROUND"
  /\ seq_buf' = <<>> /\ utf8_remaining' = 0
  /\ NoPaste
  /\ has_pending' = FALSE /\ msgs' = <<>> /\ last' = "none"
  /\ UNCHANGED <<callVars, unread, lost>>

----------------------------------------------------------------------------
(* tui_input_parser_feed, by parser state                                  *)

\* One more byte of the current call is fed, in parser state s.
FeedIn(s) ==
  /\ unread > 0 /\ Len(msgs) < max_msgs
  /\ state = s
  /\ unread' = unread - 1
  /\ UNCHANGED <<callVars, lost>>

Silent == UNCHANGED <<msgs, has_pending, last>>
Emit(type) == /\ msgs' = Append(msgs, Msg(type))
              /\ last' = type
              /\ UNCHANGED has_pending
EmitIf(cond, type) == IF cond THEN Emit(type) ELSE Silent

\* PASTE, and PASTE_END with it when the array has room for both.
EmitPaste(payload) ==
  LET paste == [type |-> "paste", text |-> payload]
      room  == Len(msgs) + 2 <= max_msgs
  IN  /\ msgs' = msgs \o (IF room THEN <<paste, Msg("paste_end")>>
                          ELSE <<paste>>)
      /\ has_pending' = ~room
      /\ last' = IF room THEN "paste_end" ELSE "paste"

Ground(byte) ==
  /\ FeedIn("GROUND")
  /\ UNCHANGED pasteVars
  /\ \/ /\ byte = "ESC"
        /\ state' = "ESCAPE" /\ seq_buf' = <<>>
        /\ UNCHANGED utf8_remaining /\ Silent
     \/ /\ byte \in {"lead2", "lead3", "lead4"}
        /\ state' = "UTF8" /\ utf8_remaining' = Continuations(byte)
        /\ UNCHANGED seq_buf /\ Silent
     \/ /\ byte \in Printable \cup {"ctl"}
        /\ Emit("key") /\ UNCHANGED <<state, escVars>>
     \/ /\ byte \in {"nokey", "cont", "bad"}
        /\ Silent /\ UNCHANGED <<state, escVars>>

\* Alt+key, or the Escape key; a byte that is neither is swallowed with it.
Escape(byte) ==
  /\ FeedIn("ESCAPE")
  /\ UNCHANGED <<pasteVars, utf8_remaining>>
  /\ \/ byte = "[" /\ state' = "CSI" /\ seq_buf' = <<>> /\ Silent
     \/ byte = "O" /\ state' = "SS3" /\ UNCHANGED seq_buf /\ Silent
     \/ byte \notin {"[", "O"} /\ state' = "GROUND" /\ UNCHANGED seq_buf
        /\ Emit("key")

SS3(byte) ==
  /\ FeedIn("SS3")
  /\ state' = "GROUND"
  /\ EmitIf(byte = "A", "key")
  /\ UNCHANGED <<pasteVars, escVars>>

\* A byte that is not a continuation ends the character and goes with it.
Utf8(byte) ==
  /\ FeedIn("UTF8")
  /\ UNCHANGED <<pasteVars, seq_buf>>
  /\ IF byte # "cont" THEN state' = "GROUND" /\ UNCHANGED utf8_remaining /\ Silent
     ELSE /\ utf8_remaining' = utf8_remaining - 1
          /\ state' = IF utf8_remaining = 1 THEN "GROUND" ELSE "UTF8"
          /\ EmitIf(utf8_remaining = 1, "key")

\* seq_buf after one more byte: a full buffer keeps what it has.
Stored(byte) == IF Len(seq_buf) < SEQ_BUF - 1 THEN Append(seq_buf, byte)
                ELSE seq_buf

\* parse_csi_sequence, down to whether the final byte stored names a key.
CsiIsKey(seq) ==
  /\ seq # <<>>
  /\ \/ seq[Len(seq)] = "A"
     \/ seq[Len(seq)] = "~" /\ seq[1] = "1" /\ Len(seq) = 2

\* parse_sgr_mouse_sequence: two separators among digits, and its final.
IsMouse(seq) ==
  /\ Len(seq) >= 5
  /\ seq[Len(seq)] = "M"
  /\ \E i, j \in 1 .. Len(seq) - 1 :
       /\ i < j /\ seq[i] = ";" /\ seq[j] = ";"
       /\ \A k \in 1 .. j - 1 : k # i => seq[k] \in Digits

\* A sequence goes on until its final byte, whatever comes in between.  The
\* buffer is not read again after that, and is written <<>> here.
Csi(byte) ==
  LET seq   == Stored(byte)
      paste == byte = "~" /\ seq = PasteStartSeq
      stray == byte = "~" /\ seq = SubSeq(PASTE_END_MARKER, 3,
                                          Len(PASTE_END_MARKER))
      mouse == byte = "<" /\ seq_buf = <<>>
      final == byte \in Finals /\ ~mouse
  IN  /\ FeedIn("CSI")
      /\ UNCHANGED utf8_remaining
      /\ seq_buf' = IF mouse \/ final THEN <<>> ELSE seq
      /\ state' = CASE mouse -> "CSI_MOUSE"
                    [] final -> IF paste THEN "PASTE" ELSE "GROUND"
                    [] OTHER -> "CSI"
      /\ IF paste THEN Emit("paste_start") /\ NoPaste
         ELSE /\ EmitIf(final /\ ~stray /\ CsiIsKey(seq), "key")
              /\ UNCHANGED pasteVars

CsiMouse(byte) ==
  /\ FeedIn("CSI_MOUSE")
  /\ seq_buf' = IF byte = "M" THEN <<>> ELSE Stored(byte)
  /\ state' = IF byte = "M" THEN "GROUND" ELSE "CSI_MOUSE"
  /\ EmitIf(byte = "M" /\ IsMouse(Stored(byte)), "mouse")
  /\ UNCHANGED <<pasteVars, utf8_remaining>>

\* The first n bytes of the end marker, held back while they match.
Held(n) == SubSeq(PASTE_END_MARKER, 1, n)

\* The marker is complete: PASTE takes the text and its memory with it.
GiveOut(payload) ==
  /\ state' = "GROUND"
  /\ paste_buf' = <<>> /\ paste_cap' = 0 /\ paste_match' = 0 /\ missing' = 0
  /\ EmitPaste(payload)

\* Mutant of PasteMatched: the held bytes of the marker are given out too.
PasteMatchedGreedy(byte) ==
  /\ FeedIn("PASTE")
  /\ byte = PASTE_END_MARKER[paste_match + 1]
  /\ fed' = Append(fed, byte)
  /\ IF paste_match + 1 < Len(PASTE_END_MARKER)
     THEN /\ paste_match' = paste_match + 1
          /\ Silent
          /\ UNCHANGED <<state, paste_buf, paste_cap, missing>>
     ELSE GiveOut(paste_buf \o Held(paste_match))
  /\ UNCHANGED escVars

PasteMatched(byte) ==
  /\ FeedIn("PASTE")
  /\ byte = PASTE_END_MARKER[paste_match + 1]
  /\ fed' = Append(fed, byte)
  /\ IF paste_match + 1 < Len(PASTE_END_MARKER)
     THEN /\ paste_match' = paste_match + 1
          /\ Silent
          /\ UNCHANGED <<state, paste_buf, paste_cap, missing>>
     ELSE GiveOut(paste_buf)
  /\ UNCHANGED escVars

\* paste_buf_append: what may become of the text so far, with room for the NUL
\* behind it.  A realloc that fails drops the whole piece and says nothing.
Text == [text |-> paste_buf, cap |-> paste_cap, missing |-> missing]
Appended(t, piece) ==
  LET needed == Len(t.text) + Len(piece) + 1
      longer == [t EXCEPT !.text = @ \o piece]
  IN  CASE piece = <<>> -> {t}
        [] piece # <<>> /\ needed <= t.cap -> {longer}
        [] piece # <<>> /\ needed > t.cap ->
             {[longer EXCEPT
                 !.cap = Doubled(IF @ > 0 THEN @ ELSE PASTE_CAP, needed)],
              [t EXCEPT !.missing = @ + Len(piece)]}

\* Mutant of PasteBroken: the byte that breaks a match is plain data.
PasteBrokenNoRestart(byte) ==
  /\ FeedIn("PASTE")
  /\ byte # PASTE_END_MARKER[paste_match + 1]
  /\ fed' = Append(fed, byte)
  /\ \E flushed \in Appended(Text, Held(paste_match)) :
       \E t \in Appended(flushed, <<byte>>) :
         paste_buf' = t.text /\ paste_cap' = t.cap /\ missing' = t.missing
  /\ paste_match' = 0
  /\ Silent
  /\ UNCHANGED <<state, escVars>>

\* The held bytes were data after all; this one may start a new match.
PasteBroken(byte) ==
  LET restarts == byte = PASTE_END_MARKER[1]
  IN  /\ FeedIn("PASTE")
      /\ byte # PASTE_END_MARKER[paste_match + 1]
      /\ fed' = Append(fed, byte)
      /\ \E flushed \in Appended(Text, Held(paste_match)) :
           \E t \in Appended(flushed, IF restarts THEN <<>> ELSE <<byte>>) :
             paste_buf' = t.text /\ paste_cap' = t.cap /\ missing' = t.missing
      /\ paste_match' = IF restarts THEN 1 ELSE 0
      /\ Silent
      /\ UNCHANGED <<state, escVars>>

----------------------------------------------------------------------------

Feed(byte) == \/ Ground(byte) \/ Escape(byte) \/ SS3(byte) \/ Utf8(byte)
              \/ Csi(byte) \/ CsiMouse(byte)
              \/ PasteMatched(byte) \/ PasteBroken(byte)

IPNext == \/ \E n \in terminal.reads, max \in terminal.arrays : ParseBegin(n, max)
          \/ ArrayFull \/ Reset
          \/ \E byte \in terminal.bytes : Feed(byte)

IPSpec == IPInit /\ [][IPNext]_ipVars

----------------------------------------------------------------------------
(* Properties                                                              *)

\* Types; nothing is stored past the end of seq_buf, of paste_buf with its NUL
\* or of the output array.
IPTypeOK ==
  /\ terminal \in Terminals
  /\ input_len \in Nat /\ max_msgs \in Nat \ {0}
  /\ state \in States
  /\ seq_buf \in Seq(STRING) /\ Len(seq_buf) < SEQ_BUF
  /\ utf8_remaining \in 0 .. 3
  /\ paste_buf \in Seq(STRING) /\ fed \in Seq(STRING) /\ missing \in Nat
  /\ paste_cap \in Nat
  /\ paste_buf # <<>> => Len(paste_buf) < paste_cap
  /\ paste_match \in 0 .. Len(PASTE_END_MARKER) - 1
  /\ has_pending \in BOOLEAN
  /\ unread \in Nat /\ lost \in Nat
  /\ Len(msgs) <= max_msgs

\* `text' is what was sent but for the bytes that failed reallocations
\* dropped: all of it when none failed.
IsSent(text, sent) == /\ Len(sent) = Len(text) + missing
                      /\ missing = 0 => sent = text

\* At every byte of a paste, the payload so far and the bytes held back are
\* exactly what the terminal sent, however broken matches and reads split it,
\* but for what failed reallocations dropped, which are counted.
PasteKeepsBytes ==
  state = "PASTE" => IsSent(paste_buf \o Held(paste_match), fed)

\* A paste goes on only while no end marker has been sent: one that a
\* broken match ran into is not overlooked.
Contains(s, part) ==
  \E i \in 0 .. Len(s) - Len(part) : SubSeq(s, i + 1, i + Len(part)) = part
PasteEndsAtMarker == state = "PASTE" => ~Contains(fed, PASTE_END_MARKER)

\* What every byte keeps of the parser's buffers.
ParserConsistent == IPTypeOK /\ PasteKeepsBytes /\ PasteEndsAtMarker

\* The payload given out is every byte sent before the end marker, unless a
\* realloc failed for some of them: it is then shorter by exactly as many.
PayloadIsExact ==
  [][state = "PASTE" /\ state' = "GROUND" /\ unread' < unread =>
       IsSent(msgs'[Len(msgs) + 1].text \o PASTE_END_MARKER, fed')]_ipVars

\* The event loop's array is as long as its reads and never shorter than two:
\* a call leaves at most one byte unread (PASTE and PASTE_END come out of the
\* same byte), and PASTE_END does not have to wait for the user's next key.
LongArraySuffices ==
  1 < max_msgs /\ input_len <= max_msgs =>
    lost <= 1 /\ (unread = 0 => ~has_pending)

\* PASTE_START, PASTE and PASTE_END follow one another with no message in
\* between, even when the output array splits them over two calls, which an
\* array as long as the read does not.
PasteIsBracketed ==
  /\ state = "PASTE" <=> last = "paste_start"
  /\ has_pending <=> last = "paste"
  /\ LongArraySuffices

============================================================================
