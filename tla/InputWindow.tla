----------------------------- MODULE InputWindow ----------------------------
(***************************************************************************)
(* What a TuiTextInput shows (components/textinput.c): the prompt, the     *)
(* window into the cursor's line that handle_overflow scrolls, what the    *)
(* view draws of every line, and where the terminal cursor goes.  The text *)
(* and the keys are those of TextInput.  Columns count from 0; the window  *)
(* is kept in characters of the cursor's line, as in the code.             *)
(***************************************************************************)
EXTENDS TextInput

\* What the texts of an input consist of: line breaks only where config.multiline
\* allows multiple lines (keys enter none elsewhere, and a single-line input
\* given a text with some would draw it as one line).
BytesOf(u) == IF u.multiline THEN Byte ELSE Byte \ {"nl"}

\* A way of using an input also has widths for set_terminal_width, where 0
\* turns clipping off, and prompts and continuation prompts; no prompt has
\* length 0.
ASSUME InputWindowAssumption ==
  \A u \in Uses :
    /\ u.runes \cup u.lines \cup u.words \subseteq Seq(BytesOf(u))
    /\ u.widths \subseteq Nat
    /\ \A p \in u.prompts : p.len \in Nat /\ p.columns \in Nat

VARIABLES
  offset, offset_right,              \* the window
  terminal_width,
  prompt, continuation_prompt, show_prompt,
  stale   \* the window was chosen for other prompts or for more room than
          \* there is, and was not scrolled to the cursor since

windowVars == <<offset, offset_right>>
promptVars == <<prompt, continuation_prompt, show_prompt>>
iwVars == <<tiVars, windowVars, promptVars, terminal_width, stale>>

NoPrompt == [len |-> 0, columns |-> 0]

----------------------------------------------------------------------------
(* Characters, columns and prompts                                         *)

\* tui_utf8_codepoint_count and tui_utf8_cp_index: characters between p and q.
Chars(t, p, q) == Cardinality({i \in p + 1 .. q : t[i] # "cont"})

\* tui_utf8_byte_offset: where character n of the line from p to q starts.
OffsetOf(t, p, q, n) ==
  Least({i \in p .. q : i = q \/ (Chars(t, p, i) >= n /\ Boundary(t, i))})

\* Columns between p and q on the screen; three-byte characters are wide.
Columns(t, p, q) ==
  Chars(t, p, q) + Cardinality({i \in p + 1 .. q : t[i] = "lead3"})

\* line_prompt_width, by what a prompt is measured with: .len or .columns.
PromptOf(row) ==
  IF ~show_prompt \/ prompt.len = 0 THEN NoPrompt
  ELSE IF row = 0 THEN prompt
  ELSE IF continuation_prompt.len > 0 THEN continuation_prompt
  ELSE [len |-> prompt.len, columns |-> prompt.len]
ContentWidth(row) == terminal_width - PromptOf(row).len

----------------------------------------------------------------------------
(* The window                                                              *)

IWInit ==
  /\ TIInit
  /\ offset = 0 /\ offset_right = 0 /\ terminal_width = 0
  /\ prompt \in use.prompts /\ continuation_prompt = NoPrompt /\ show_prompt = TRUE
  /\ stale = FALSE

\* Mutants of Overflow: a cursor left of the window does not scroll it; the
\* window is one character too wide.
OverflowRightOnly(total, cp, room) ==
  IF room <= 0 \/ terminal_width' = 0 \/ total <= room THEN <<0, total>>
  ELSE IF cp >= offset_right THEN <<Greatest({0, cp + 1 - room}), cp + 1>>
  ELSE <<offset, Least({offset + room, total})>>
OverflowOneWide(total, cp, room) ==
  IF room <= 0 \/ terminal_width' = 0 \/ total <= room THEN <<0, total>>
  ELSE IF cp < offset THEN <<cp, Least({cp + room, total})>>
  ELSE IF cp >= offset_right THEN <<Greatest({0, cp - room}), cp + 1>>
  ELSE <<offset, Least({offset + room, total})>>

\* handle_overflow: the window for a line of `total' characters with the
\* cursor before character cp, and room for `room' of them.
Overflow(total, cp, room) ==
  IF room <= 0 \/ terminal_width' = 0 \/ total <= room THEN <<0, total>>
  ELSE IF cp < offset THEN <<cp, Least({cp + room, total})>>
  ELSE IF cp >= offset_right THEN <<Greatest({0, cp + 1 - room}), cp + 1>>
  ELSE <<offset, Least({offset + room, total})>>

\* The end of recalculate_cursor_position, in the next state.  A window that
\* was too wide is cut on the right even when the cursor is there.
Scrolled ==
  LET start == LineStart(text', cursor_byte')
      end   == LineEnd(text', cursor_byte')
      room  == terminal_width' - PromptOf(cursor_row').len
      w     == Overflow(Chars(text', start, end),
                        Chars(text', start, cursor_byte'), room)
  IN  /\ offset' = w[1] /\ offset_right' = w[2]
      /\ stale' = (terminal_width' > 0 /\ offset_right - offset > room)

SamePrompts == UNCHANGED <<promptVars, terminal_width>>

\* Motions that start where they would end leave the function early.
Stays(key) == /\ key \in {"left", "right", "C-left", "C-right"}
              /\ Target(key) = cursor_byte

\* Keys and calls that end in recalculate_cursor_position.
Recalculates ==
  \/ \E rune \in Runes : Insert(rune)
  \/ Newline \/ Yank \/ DeleteBefore \/ Transpose
  \/ KillToStart \/ KillRegion \/ KillWord \/ Undo
  \/ \E key \in Keys : ~Stays(key) /\ Move(key)
  \/ HistoryPrev /\ history_pos' # history_pos
  \/ HistoryNext /\ text' # <<>>
  \/ \E line \in use.lines : line # <<>> /\ ReplaceText(line)
  \/ \E word \in use.words : InsertCompletion(word)
  \/ \E p \in 0 .. Len(text) : SetCursor(p)

ScrollWindow == Recalculates /\ SamePrompts /\ Scrolled

\* tui_textinput_clear, on its own or through Enter and the history.
ClearWindow ==
  /\ \/ LineSubmit
     \/ HistoryNext /\ text' = <<>>
     \/ <<>> \in use.lines /\ ReplaceText(<<>>)
  /\ offset' = 0 /\ offset_right' = 0 /\ stale' = FALSE
  /\ SamePrompts

\* Everything else, delete_at and C-k among it, leaves the window alone.
KeepWindow ==
  /\ \/ DeleteAt \/ KillLine \/ KillNothing \/ QuitOnEmpty
     \/ \E key \in Keys : Stays(key) /\ Move(key)
     \/ Idle \/ ToggleMark \/ ClearMark \/ Copy \/ Prefix \/ Tab
     \/ HistoryPrev /\ history_pos' = history_pos
     \/ \E line \in use.lines : HistoryAdd(line)
     \/ \E size \in use.historySizes : SetHistorySize(size)
     \/ \E chars \in use.wordChars : SetWordChars(chars)
     \/ SetFocus
  /\ UNCHANGED <<windowVars, promptVars, terminal_width, stale>>

\* tui_textinput_set_terminal_width scrolls at once,
SetTerminalWidth(width) ==
  /\ terminal_width' = width
  /\ UNCHANGED <<tiVars, promptVars>>
  /\ Scrolled

\* the setters of the prompts do not.
SetPrompt ==
  /\ \/ /\ "set_prompt" \in Calls
        /\ prompt' \in use.prompts
        /\ UNCHANGED <<continuation_prompt, show_prompt>>
     \/ /\ "set_continuation_prompt" \in Calls
        /\ continuation_prompt' \in use.prompts
        /\ UNCHANGED <<prompt, show_prompt>>
     \/ /\ "set_show_prompt" \in Calls
        /\ show_prompt' = ~show_prompt
        /\ UNCHANGED <<prompt, continuation_prompt>>
  /\ stale' = TRUE
  /\ UNCHANGED <<tiVars, windowVars, terminal_width>>

IWNext == \/ ScrollWindow \/ ClearWindow \/ KeepWindow
          \/ \E width \in use.widths : SetTerminalWidth(width)
          \/ SetPrompt

IWSpec == IWInit /\ [][IWNext]_iwVars

----------------------------------------------------------------------------
(* What is drawn                                                           *)

\* Where the lines of the text start.
Starts == {0} \cup {i \in 1 .. Len(text) : text[i] = "nl"}

\* get_line_render_range, and the same in render_prompt_and_text: the bytes
\* that are drawn of the line from p.
Drawn(p) ==
  LET q    == LineEnd(text, p)
      row  == RowOf(text, p)
      part(from, to) == <<OffsetOf(text, p, q, from), OffsetOf(text, p, q, to)>>
  IN  IF terminal_width = 0 THEN <<p, q>>
      ELSE IF row = cursor_row /\ offset_right > offset
        THEN part(offset, offset_right)
      ELSE IF Multiline THEN part(0, Greatest({0, ContentWidth(row)}))
      ELSE <<p, q>>

\* The columns the line from p takes with its prompt.
RowColumns(p) ==
  PromptOf(RowOf(text, p)).columns + Columns(text, Drawn(p)[1], Drawn(p)[2])

\* The column tui_textinput_cursor_pos reports; a multi-line input counts the
\* bytes before the cursor.
CursorColumn ==
  PromptOf(cursor_row).len - offset
    + (IF Multiline THEN cursor_col
       ELSE Chars(text, LineStart(text, cursor_byte), cursor_byte))

----------------------------------------------------------------------------
(* Properties                                                              *)

CursorLine == LineStart(text, cursor_byte)
Clips(row) == terminal_width > 0 /\ ContentWidth(row) > 0

\* Types; single-line inputs hold single lines.
IWTypeOK ==
  /\ offset \in Nat /\ offset_right \in Nat
  /\ terminal_width \in use.widths \cup {0}
  /\ prompt \in use.prompts /\ continuation_prompt \in use.prompts \cup {NoPrompt}
  /\ ~Multiline => Starts = {0}

\* Deletions at the end of a scrolled line take characters out of the window
\* until none is left, and the window is no longer used.
Collapsed == offset = offset_right /\ CursorLine < LineEnd(text, cursor_byte)

\* Every character has one column, in the text and in the prompts.
IsNarrow == /\ \A i \in DOMAIN text : text[i] # "lead3"
            /\ \A p \in use.prompts : p.columns = p.len

\* No line of such characters is drawn beyond the width set, whatever was
\* edited, moved and resized since.
LinesFit ==
  ~stale /\ IsNarrow /\ ~Collapsed =>
    \A p \in Starts : Clips(RowOf(text, p)) /\ (Multiline \/ p = CursorLine) =>
      RowColumns(p) <= terminal_width

\* The cursor's line holds the window that was chosen for it, whatever edits
\* came since: the cursor is in it, it is not wider than there is room, and
\* what is drawn of it and of the other lines fits.
WindowHoldsCursor ==
  /\ IWTypeOK
  /\ ~stale /\ Clips(cursor_row) =>
       LET cp == Chars(text, CursorLine, cursor_byte)
       IN  /\ cp \in offset .. offset_right
           /\ offset_right - offset <= ContentWidth(cursor_row)
  /\ LinesFit

\* The terminal cursor stands on the screen, and on the character that the
\* next key acts on: the columns drawn before it are those that are reported.
StandsOnText ==
  /\ cursor_byte >= Drawn(CursorLine)[1]
  /\ CursorColumn = PromptOf(cursor_row).columns
                      + Columns(text, Drawn(CursorLine)[1], cursor_byte)
  /\ CursorColumn < terminal_width

\* The text before the cursor just fills its row: handle_overflow does not
\* scroll a line that fits, and the cursor is behind the last column.
FillsRow == Chars(text, CursorLine, cursor_byte) = ContentWidth(cursor_row)

CursorFollowsText ==
  ~stale /\ Clips(cursor_row) /\ IsNarrow /\ ~Collapsed
    /\ (Multiline => \A i \in DOMAIN text : text[i] # "cont")
    /\ (offset = 0 => ~FillsRow)
  => StandsOnText
=============================================================================
