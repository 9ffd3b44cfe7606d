----------------------------- MODULE EscapeOutput -----------------------------
(***************************************************************************)
(* The escape sequences built in fixed buffers: the OSC 52 clipboard       *)
(* sequence with its base64 encoder (base64.c, ansi_sequences.c, and the   *)
(* runtime's clipboard command), and the snprintf formatters.  A buffer is *)
(* the sequence of what was written from its first byte; a byte is a token *)
(* <<kind, value>>, of which only the base64 digits have a value that      *)
(* matters.  A number printed with %d is its digits.                       *)
(***************************************************************************)
EXTENDS Integers, Sequences, SequencesExt

CONSTANTS Clips,          \* the texts copied: sequences of bytes
          BufSizes,          \* the buffer sizes the callers pass
          Digits,         \* how many digits a row or a column may have
          TitleLengths    \* the lengths of the window titles

ASSUME EOAssumption ==
  /\ Clips \subseteq Seq(0 .. 255)
  /\ BufSizes \subseteq Nat
  /\ Digits \subseteq Nat
  /\ TitleLengths \subseteq Nat

VARIABLES pc,         \* where ansi_format_osc52 stands: "idle", "groups", "suffix", "done"
          text,       \* the text being encoded
          i,          \* bytes of it encoded
          buf_size,       \* the size of buf
          buf,        \* what was written to buf
          returned,   \* what ansi_format_osc52 returned
          asked       \* the sequence the last formatter was asked for

eoVars == <<pc, text, i, buf_size, buf, returned, asked>>

Token == {"fixed", "digit", "code", "pad", "end", "nul"} \X (0 .. 255)

Times(kind, n) == [k \in 1 .. n |-> <<kind, 0>>]
Prefix == Times("fixed", 7)
ST     == Times("end", 2)
Nul    == <<<<"nul", 0>>>>

-----------------------------------------------------------------------------
(* base64 *)

EncodedLen(n) == 4 * ((n + 2) \div 3)

\* alphabet[(v >> k) & 0x3F] where unit is 2^k.
Code(v, unit) == <<"code", (v \div unit) % 64>>

MoreGroupsBefore == i + 3 < Len(text)
MoreGroups == i + 3 <= Len(text)

Group(a, b, c) == LET v == a * 65536 + b * 256 + c
                  IN  <<Code(v, 262144), Code(v, 4096), Code(v, 64), Code(v, 1)>>

\* What the one or two bytes left over are written as.
RestSwapped(s) ==
  CASE Len(s) = 1 -> SubSeq(Group(s[1], 0, 0), 1, 2) \o Times("pad", 2)
    [] Len(s) = 2 -> SubSeq(Group(0, s[1], s[2]), 2, 4) \o Times("pad", 1)
    [] OTHER -> <<>>
Rest(s) ==
  CASE Len(s) = 1 -> SubSeq(Group(s[1], 0, 0), 1, 2) \o Times("pad", 2)
    [] Len(s) = 2 -> SubSeq(Group(s[1], s[2], 0), 1, 3) \o Times("pad", 1)
    [] OTHER -> <<>>

-----------------------------------------------------------------------------
(* The OSC 52 sequence *)

Needed(n) == Len(Prefix) + EncodedLen(n) + Len(ST)
BufSize(n) == 7 + EncodedLen(n) + 2 + 1

EOInit ==
  /\ pc = "idle" /\ text = <<>> /\ i = 0 /\ buf_size = 0
  /\ buf = <<>> /\ returned = 0 /\ asked = <<>>

FormatOsc52(t, n) ==
  /\ pc = "idle"
  /\ text' = t /\ buf_size' = n
  /\ IF n < Needed(Len(t))
     THEN pc' = "done" /\ UNCHANGED buf
     ELSE pc' = "groups" /\ buf' = Prefix
  /\ UNCHANGED <<i, returned, asked>>

\* The runtime's copy command without a handler of the application.
ClipboardCopy(t) == Len(t) > 0 /\ FormatOsc52(t, BufSize(Len(t)))

EncodeGroup ==
  /\ pc = "groups" /\ MoreGroups
  /\ buf' = buf \o Group(text[i + 1], text[i + 2], text[i + 3])
  /\ i' = i + 3
  /\ UNCHANGED <<pc, text, buf_size, returned, asked>>

EncodeRest ==
  /\ pc = "groups" /\ ~ MoreGroups
  /\ buf' = buf \o Rest(SubSeq(text, i + 1, Len(text)))
  /\ pc' = "suffix"
  /\ UNCHANGED <<text, i, buf_size, returned, asked>>

\* The count the encoder returns is compared, the terminator written, and a
\* NUL after it where one more byte is left.
Finish ==
  /\ pc = "suffix" /\ pc' = "done"
  /\ IF Len(buf) = Len(Prefix) + EncodedLen(Len(text))
     THEN /\ buf' = buf \o (ST \o (IF buf_size > Needed(Len(text)) THEN Nul ELSE <<>>))
          /\ returned' = Needed(Len(text))
     ELSE UNCHANGED <<buf, returned>>
  /\ UNCHANGED <<text, i, buf_size, asked>>

-----------------------------------------------------------------------------
(* The formatters *)

\* snprintf: as much of s as leaves room for the NUL.
Printed(s, n) == SubSeq(s, 1, IF Len(s) < n THEN Len(s) ELSE n - 1) \o Nul

Format(s, least, n) ==
  /\ pc = "idle" /\ pc' = "done"
  /\ buf_size' = n /\ asked' = s
  /\ buf' = IF n < least THEN <<>> ELSE Printed(s, n)
  /\ UNCHANGED <<text, i, returned>>

CursorLeast == 16
RegionLeast == 24
ColorLeast  == 16
RgbLeast    == 24

\* <row>;<col> after the two bytes of CSI and before the final one.
TwoNumbers(a, b) == Times("fixed", 2) \o Times("digit", a) \o Times("fixed", 1)
                    \o Times("digit", b) \o Times("end", 1)

FormatCursorPos(n) == \E a, b \in Digits : Format(TwoNumbers(a, b), CursorLeast, n)
FormatScrollRegion(n) == \E a, b \in Digits : Format(TwoNumbers(a, b), RegionLeast, n)

\* A color component has 0 to 255 for value.
FormatColor256(n) ==
  \E a \in 1 .. 3 :
    Format(Times("fixed", 7) \o Times("digit", a) \o Times("end", 1), ColorLeast, n)
FormatColorRgb(n) ==
  \E a, b, c \in 1 .. 3 :
    Format(Times("fixed", 7) \o Times("digit", a) \o Times("fixed", 1)
           \o Times("digit", b) \o Times("fixed", 1) \o Times("digit", c)
           \o Times("end", 1), RgbLeast, n)

TitleSize == 512   \* title_buf of the runtime

\* The title the runtime prints before a frame.
Titled(k) == Times("fixed", 4) \o Times("digit", k) \o ST
SetWindowTitle(k) == Format(Titled(k), 8, TitleSize)

Return ==
  /\ pc = "done"
  /\ pc' = "idle" /\ text' = <<>> /\ i' = 0 /\ buf_size' = 0
  /\ buf' = <<>> /\ returned' = 0 /\ asked' = <<>>

EONext ==
  \/ \E t \in Clips : ClipboardCopy(t)
  \/ \E t \in Clips, n \in BufSizes : FormatOsc52(t, n)
  \/ EncodeGroup
  \/ EncodeRest
  \/ Finish
  \/ \E n \in BufSizes :
       FormatCursorPos(n) \/ FormatScrollRegion(n) \/ FormatColor256(n) \/ FormatColorRgb(n)
  \/ \E k \in TitleLengths : SetWindowTitle(k)
  \/ Return

EOSpec == EOInit /\ [][EONext]_eoVars

-----------------------------------------------------------------------------
(* Properties *)

\* Every byte written is a byte, and every base64 digit indexes the 64
\* characters of the alphabet.
EOTypeOK ==
  /\ pc \in {"idle", "groups", "suffix", "done"}
  /\ text \in Seq(0 .. 255)
  /\ i \in Nat /\ buf_size \in Nat /\ returned \in Nat
  /\ buf \in Seq(Token) /\ asked \in Seq(Token)
  /\ \A k \in 1 .. Len(buf) : buf[k][1] = "code" => buf[k][2] < 64

\* Nothing is written past the end of the caller's buffer, whatever size it
\* passed and whatever the text (base64.c and ansi_sequences.c check the size
\* once, before the first byte).
WithinBuf == Len(buf) <= buf_size

\* A buffer that is large enough is never refused: the count of the encoder's
\* loop meets the one computed from the length, so the copy command always
\* puts the whole sequence out.
EnoughIsWritten ==
  (pc = "done" /\ asked = <<>> /\ buf_size >= Needed(Len(text))) =>
    /\ returned = Needed(Len(text))
    /\ Len(buf) >= returned
    /\ SubSeq(buf, 1, Len(Prefix)) = Prefix
    /\ SubSeq(buf, returned - 1, returned) = ST

\* What the size checks are for: both of these.
BufferSuffices == WithinBuf /\ EnoughIsWritten

\* The k-th bit of bytes, and of base64 digits.
BitOfBytes(s, k) == (s[(k - 1) \div 8 + 1] \div 2 ^ (7 - ((k - 1) % 8))) % 2
BitOfCodes(s, k) == (s[(k - 1) \div 6 + 1][2] \div 2 ^ (5 - ((k - 1) % 6))) % 2

\* What was written between prefix and terminator is the base64 of the text
\* (RFC 4648, which base64.c names): four characters for three bytes, as many
\* pads as bytes are missing, all at the end, the bits of the text in order
\* and zeros after them.
DecodesToText ==
  returned > 0 =>
    LET n     == Len(text)
        codes == SubSeq(buf, Len(Prefix) + 1, returned - Len(ST))
        pads  == (3 - (n % 3)) % 3
        used  == Len(codes) - pads
    IN  /\ Len(codes) % 4 = 0
        /\ \A k \in 1 .. Len(codes) : codes[k][1] = IF k <= used THEN "code" ELSE "pad"
        /\ used * 6 - n * 8 \in {0, 2, 4}
        /\ \A k \in 1 .. n * 8 : BitOfCodes(codes, k) = BitOfBytes(text, k)
        /\ \A k \in n * 8 + 1 .. used * 6 : BitOfCodes(codes, k) = 0

\* A formatter given at least the size it documents prints its whole sequence,
\* for any color and for any row and column of a terminal whose size the
\* kernel can report (five digits): a cut one would leave the terminal inside
\* an escape sequence.  A title, which may be longer than its buffer, is not
\* among them.
FormattedWhole ==
  (asked # <<>> /\ buf_size # TitleSize /\ buf # <<>>) => buf = asked \o Nul

\* What reaches the terminal is the whole of what was meant.
SequenceIsWhole == EOTypeOK /\ DecodesToText /\ FormattedWhole
===============================================================================
