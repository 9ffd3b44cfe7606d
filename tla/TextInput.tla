----------------------------- MODULE TextInput ------------------------------
(***************************************************************************)
(* The editing state of a TuiTextInput (components/textinput.c): text and  *)
(* cursor, selection mark, kill buffer, undo stack and command history.    *)
(* One action is one key press given to tui_textinput_update(), or one     *)
(* call of a public setter.                                                *)
(*                                                                         *)
(* Text is a sequence of bytes, each standing for its class: " " (a blank  *)
(* or a tab), "nl", "lead" and "lead3" (the first byte of a character of   *)
(* two or three bytes), "cont" (its other bytes), and any other string for *)
(* an ordinary character.  The cursor is a byte offset.  The word          *)
(* characters are a set of bytes, as the code compares them.               *)
(* A saved_input of NULL behaves as the empty string everywhere and is     *)
(* written <<>>.  Allocation does not fail, and the pre-edit snapshot is   *)
(* the unprimed state of the key that takes it.                            *)
(***************************************************************************)
EXTENDS Integers, Sequences, FiniteSets

\* The bytes that the code tells apart, and any other.
Byte == {" ", "nl", "lead", "lead3", "cont"} \cup STRING

CONSTANT Uses   \* the ways of using an input that are explored, each one
                \* with its bounds: see UseOK

(***************************************************************************)
(* One way of using an input: what its user types and its application      *)
(* calls.  It is chosen at the start and stays.                            *)
(***************************************************************************)
UseOK(u) ==
  /\ u.runes \subseteq Seq(Byte)       \* what a printable key inserts
  /\ u.keys \subseteq STRING             \* the other keys
  /\ u.calls \subseteq STRING            \* setters, by name
  /\ u.lines \subseteq Seq(Byte)       \* for set_text and history_add
  /\ u.words \subseteq Seq(Byte)       \* completions
  /\ u.historySizes \subseteq Nat        \* for set_history_size
  /\ u.wordChars \subseteq SUBSET Byte    \* for set_word_chars
  /\ u.multiline \in BOOLEAN
  /\ u.maxText \in Nat /\ u.maxKill \in Nat /\ u.maxUndo \in Nat  \* bounds

ASSUME TextInputAssumption == \A u \in Uses : UseOK(u)

VARIABLES
  use,
  text, cursor_byte,
  cursor_row, cursor_col,    \* cached by recalculate_cursor_position
  mark,                      \* mark_byte, or NoMark when has_mark is 0
  kill_buf, last_was_kill,
  undo_stack, ctrl_x_prefix,
  history, history_size,     \* most recent entry first
  history_pos, saved_input,
  focused,
  word_chars,                \* the bytes words are made of
  result                     \* the command the last key returned

lineVars    == <<text, cursor_byte, cursor_row, cursor_col, mark>>
killVars    == <<kill_buf, last_was_kill>>
historyVars == <<history, history_size>>
browseVars  == <<history_pos, saved_input>>
tiVars == <<lineVars, killVars, undo_stack, ctrl_x_prefix, historyVars,
            browseVars, focused, word_chars, result, use>>

Runes == use.runes
Keys  == use.keys
Calls == use.calls
Multiline == use.multiline

NoMark   == -1
NoWordChars == {"(none)"}   \* word_chars of NULL: no byte of a text
NoResult == [type |-> "none", text |-> <<>>, at |-> 0]

----------------------------------------------------------------------------
(* Positions in a text                                                     *)

\* Least and greatest element of a non-empty set of offsets.
Least(S)    == CHOOSE i \in S : \A j \in S : i <= j
Greatest(S) == CHOOSE i \in S : \A j \in S : j <= i

Before(t, p)    == SubSeq(t, 1, p)
After(t, p)     == SubSeq(t, p + 1, Len(t))
Between(t, p, q) == SubSeq(t, p + 1, q)
Without(t, p, q) == Before(t, p) \o After(t, q)

CharLen(byte) == CASE byte = "lead" -> 2 [] byte = "lead3" -> 3 [] OTHER -> 1

\* is_word_char, with its fallback when no characters were set.
IsWordChar(byte) ==
  IF word_chars = NoWordChars THEN byte # " " ELSE byte \in word_chars

\* Mutant of PrevChar: one byte back, whatever the character.
PrevByte(t, p) == IF p = 0 THEN 0 ELSE p - 1

\* tui_utf8_prev_char, and the step to the next character.
PrevChar(t, p) ==
  IF p = 0 THEN 0
  ELSE Greatest({i \in 0 .. p - 1 : i = 0 \/ t[i + 1] # "cont"})
NextChar(t, p) ==
  IF p = Len(t) THEN p ELSE Least({p + CharLen(t[p + 1]), Len(t)})

\* Offset p of t lies between two characters.
Boundary(t, p) == p < Len(t) => t[p + 1] # "cont"

LineStart(t, p) == Greatest({i \in 0 .. p : i = 0 \/ t[i] = "nl"})
LineEnd(t, p)   == Least({i \in p .. Len(t) : i = Len(t) \/ t[i + 1] = "nl"})

\* The cursor row and column (in bytes) that recalculate_cursor_position
\* counts for offset p.
RowOf(t, p) == Cardinality({i \in 1 .. p : t[i] = "nl"})
ColOf(t, p) == p - LineStart(t, p)

\* find_line_start
FindLineStart(t, row) ==
  LET starts == {i \in 1 .. Len(t) : t[i] = "nl" /\ RowOf(t, i) = row}
  IN  IF row <= 0 THEN 0 ELSE IF starts = {} THEN Len(t) ELSE Least(starts)

WordLeft(t, p) ==
  LET end == Greatest({i \in 0 .. p : i = 0 \/ IsWordChar(t[i])})
  IN  Greatest({i \in 0 .. end : i = 0 \/ ~IsWordChar(t[i])})
WordRight(t, p) ==
  LET end == Least({i \in p .. Len(t) : i = Len(t) \/ ~IsWordChar(t[i + 1])})
  IN  Least({i \in end .. Len(t) : i = Len(t) \/ IsWordChar(t[i + 1])})

\* Start of the run of word characters that ends at p: the Tab prefix.
PrefixStart(t, p) == Greatest({i \in 0 .. p : i = 0 \/ ~IsWordChar(t[i])})

\* Offset p + col of the line that starts at p, or its end if shorter.
AtColumn(t, p, col) == Least({p + col, LineEnd(t, p)})

HasNextLine == Multiline /\ LineEnd(text, cursor_byte) < Len(text)

\* selection_range
SelStart == Least({mark, cursor_byte})
SelEnd   == Greatest({mark, cursor_byte})
Selection == mark # NoMark /\ SelStart < SelEnd

\* What the code does with a region that reaches beyond the text is not
\* defined by C: such a step has no outcome here.
RegionReadable == SelEnd <= Len(text)

----------------------------------------------------------------------------
(* What the key handlers share                                             *)

TIInit ==
  /\ use \in Uses
  /\ text = <<>> /\ cursor_byte = 0 /\ cursor_row = 0 /\ cursor_col = 0
  /\ mark = NoMark
  /\ kill_buf = <<>> /\ last_was_kill = FALSE
  /\ undo_stack = <<>> /\ ctrl_x_prefix = FALSE
  /\ history = <<>> /\ history_size = 0
  /\ history_pos = -1 /\ saved_input = <<>>
  /\ focused = TRUE /\ word_chars = NoWordChars
  /\ result = NoResult

\* recalculate_cursor_position, for the text and cursor of the next state.
Recalculated ==
  /\ cursor_row' = RowOf(text', cursor_byte')
  /\ cursor_col' = ColOf(text', cursor_byte')

SameText == UNCHANGED <<text, cursor_byte, cursor_row, cursor_col>>

\* An edit: new text and cursor, the mark cleared.
Edit(t, p) ==
  /\ text' = t /\ cursor_byte' = p /\ mark' = NoMark
  /\ Recalculated

\* undo_commit: a changed text pushes the snapshot and ends any browsing.
Commit ==
  IF text' = text THEN UNCHANGED <<undo_stack, browseVars>>
  ELSE /\ undo_stack' = Append(undo_stack,
                               [text |-> text, cursor_byte |-> cursor_byte])
       /\ history_pos' = -1
       /\ saved_input' = IF history_pos = -1 THEN saved_input ELSE <<>>

\* A key press as tui_textinput_update() sees it, before it is dispatched.
KeyPress(isKill, isPrefix) ==
  /\ focused
  /\ last_was_kill' = isKill
  /\ ctrl_x_prefix' = isPrefix
  /\ UNCHANGED <<historyVars, focused, word_chars, use>>
  /\ Len(text') <= use.maxText /\ Len(undo_stack') <= use.maxUndo
  /\ Len(kill_buf') <= use.maxKill

\* A key with no kill and no command, whose change of text is committed.
PlainKey == /\ Commit
            /\ result' = NoResult
            /\ UNCHANGED kill_buf
            /\ KeyPress(FALSE, FALSE)

\* kill_save of a non-empty text, and the clipboard command it returns.
KillSave(killed, appends) ==
  /\ kill_buf' = IF appends THEN kill_buf \o killed ELSE killed
  /\ result' = [type |-> "copy", text |-> kill_buf', at |-> 0]

\* tui_textinput_set_text; an empty text is tui_textinput_clear, which
\* frees the undo stack as well.
SetText(t) ==
  /\ Edit(t, Len(t))
  /\ undo_stack' = IF t = <<>> THEN <<>> ELSE undo_stack

----------------------------------------------------------------------------
(* Keys that edit                                                          *)

\* A printable key, and Shift+Enter or C-j of a multi-line input.
Insert(bytes) ==
  /\ Edit(Before(text, cursor_byte) \o bytes \o After(text, cursor_byte),
          cursor_byte + Len(bytes))
  /\ PlainKey
Newline == "newline" \in Keys /\ Multiline /\ Insert(<<"nl">>)

Yank == /\ "C-y" \in Keys
        /\ kill_buf # <<>>
        /\ Insert(kill_buf)

DeleteBefore ==
  /\ "backspace" \in Keys
  /\ cursor_byte > 0
  /\ LET prev == PrevChar(text, cursor_byte)
     IN  Edit(Without(text, prev, cursor_byte), prev)
  /\ PlainKey

\* delete_at does not move the cursor and leaves its cached position alone.
DeleteAt ==
  /\ "C-d" \in Keys
  /\ cursor_byte < Len(text)
  /\ text' = Without(text, cursor_byte, NextChar(text, cursor_byte))
  /\ mark' = NoMark
  /\ UNCHANGED <<cursor_byte, cursor_row, cursor_col>>
  /\ PlainKey

\* C-d on an empty single line asks the program to quit.
QuitOnEmpty ==
  /\ "C-d" \in Keys
  /\ text = <<>> /\ ~Multiline
  /\ result' = [NoResult EXCEPT !.type = "quit"]
  /\ UNCHANGED <<lineVars, kill_buf, undo_stack, browseVars>>
  /\ KeyPress(FALSE, FALSE)

\* C-t: the characters around the cursor, or the last two at the end.
Transpose ==
  LET c2_end   == NextChar(text, cursor_byte)
      c2_start == IF cursor_byte = Len(text) THEN PrevChar(text, cursor_byte)
                  ELSE cursor_byte
      c1_start == PrevChar(text, c2_start)
  IN  /\ "C-t" \in Keys
      /\ cursor_byte > 0 /\ Len(text) >= 2
      /\ c1_start < c2_start
      /\ Edit(Before(text, c1_start) \o Between(text, c2_start, c2_end)
                \o Between(text, c1_start, c2_start) \o After(text, c2_end),
              c2_end)
      /\ PlainKey

\* Mutant of Kill: the text is saved after the bytes have been moved.
KillSavedLate(p, q, appends) ==
  /\ text' = Without(text, p, q)
  /\ mark' = NoMark
  /\ cursor_byte' = p
  /\ KillSave(Between(text', p, Least({q, Len(text')})), appends)
  /\ Commit
  /\ KeyPress(TRUE, FALSE)

\* The end of every kill: the text between p and q goes.
Kill(p, q, appends) ==
  /\ text' = Without(text, p, q)
  /\ mark' = NoMark
  /\ cursor_byte' = p
  /\ KillSave(Between(text, p, q), appends)
  /\ Commit
  /\ KeyPress(TRUE, FALSE)

\* C-k; the cursor's cached position is left alone.
KillLine ==
  /\ "C-k" \in Keys
  /\ cursor_byte < LineEnd(text, cursor_byte)
  /\ Kill(cursor_byte, LineEnd(text, cursor_byte), last_was_kill)
  /\ UNCHANGED <<cursor_row, cursor_col>>

\* C-u, unless C-x came before it.
KillToStart ==
  /\ "C-u" \in Keys /\ ~ctrl_x_prefix
  /\ LineStart(text, cursor_byte) < cursor_byte
  /\ Kill(LineStart(text, cursor_byte), cursor_byte, FALSE)
  /\ Recalculated

\* C-w with a region.
KillRegion ==
  /\ "C-w" \in Keys
  /\ Selection /\ RegionReadable
  /\ Kill(SelStart, SelEnd, FALSE)
  /\ Recalculated

\* C-w without one.
KillWord ==
  /\ "C-w" \in Keys
  /\ ~Selection
  /\ cursor_byte > 0
  /\ Kill(WordLeft(text, cursor_byte), cursor_byte, last_was_kill)
  /\ Recalculated

\* C-k at the end of a line and C-u at its start kill nothing, and still
\* count as a kill for the next key.
KillNothing ==
  /\ \/ "C-k" \in Keys /\ cursor_byte = LineEnd(text, cursor_byte)
     \/ /\ "C-u" \in Keys /\ ~ctrl_x_prefix
        /\ cursor_byte = LineStart(text, cursor_byte)
  /\ result' = NoResult
  /\ UNCHANGED <<lineVars, kill_buf, undo_stack, browseVars>>
  /\ KeyPress(TRUE, FALSE)

\* undo_pop, for C-_ and for C-u after C-x.  The mark stays.
Undo ==
  /\ \/ "C-_" \in Keys
     \/ "C-u" \in Keys /\ ctrl_x_prefix
  /\ undo_stack # <<>>
  /\ LET top == undo_stack[Len(undo_stack)]
     IN  /\ text' = top.text
         /\ cursor_byte' = Least({top.cursor_byte, Len(top.text)})
  /\ undo_stack' = Before(undo_stack, Len(undo_stack) - 1)
  /\ Recalculated
  /\ result' = NoResult
  /\ UNCHANGED <<mark, kill_buf, browseVars>>
  /\ KeyPress(FALSE, FALSE)

----------------------------------------------------------------------------
(* Keys that leave the text alone                                          *)

\* Where each motion key takes the cursor.
Target(key) ==
  CASE key = "left"   -> PrevChar(text, cursor_byte)
    [] key = "right"  -> NextChar(text, cursor_byte)
    [] key = "C-left" -> WordLeft(text, cursor_byte)
    [] key = "C-right" -> WordRight(text, cursor_byte)
    [] key = "home"   -> LineStart(text, cursor_byte)
    [] key = "end"    -> LineEnd(text, cursor_byte)
    [] key = "up"     -> AtColumn(text, FindLineStart(text, cursor_row - 1),
                                  cursor_col)
    [] key = "down"   -> AtColumn(text, LineEnd(text, cursor_byte) + 1,
                                  cursor_col)

\* Up in the first line and Down in the last one go to the history.
Moves(key) ==
  /\ key \in {"left", "right", "C-left", "C-right", "home", "end", "up", "down"}
  /\ key = "up" => Multiline /\ cursor_row > 0
  /\ key = "down" => HasNextLine

Move(key) ==
  /\ Moves(key)
  /\ text' = text /\ mark' = mark
  /\ cursor_byte' = Target(key)
  /\ Recalculated
  /\ PlainKey

\* C-SPC sets the mark or takes it away; Esc and C-g take it away.
SetMark(m) == mark' = m /\ SameText /\ PlainKey
ToggleMark == /\ "C-SPC" \in Keys
              /\ SetMark(IF mark = NoMark THEN cursor_byte ELSE NoMark)
ClearMark  == "C-g" \in Keys /\ mark # NoMark /\ SetMark(NoMark)

\* Any key that finds nothing to do, such as a Backspace at the start: it
\* still ends a run of kills and a pending C-x.
Idle == mark' = mark /\ SameText /\ PlainKey

\* M-w copies the region, or the whole input.
Copy ==
  /\ "M-w" \in Keys
  /\ Selection => RegionReadable
  /\ mark' = NoMark /\ SameText
  /\ LET copied == IF Selection THEN Between(text, SelStart, SelEnd) ELSE text
     IN  result' = IF copied = <<>> THEN NoResult
                   ELSE [type |-> "copy", text |-> copied, at |-> 0]
  /\ Commit
  /\ UNCHANGED kill_buf
  /\ KeyPress(FALSE, FALSE)

Prefix ==
  /\ "C-x" \in Keys
  /\ result' = NoResult
  /\ UNCHANGED <<lineVars, kill_buf, undo_stack, browseVars>>
  /\ KeyPress(FALSE, TRUE)

\* Tab returns the word before the cursor and where it starts.
Tab ==
  /\ "tab" \in Keys
  /\ LET start == PrefixStart(text, cursor_byte)
     IN  result' = [type |-> "tab", at |-> start,
                    text |-> Between(text, start, cursor_byte)]
  /\ UNCHANGED <<lineVars, kill_buf, undo_stack, browseVars>>
  /\ KeyPress(FALSE, FALSE)

----------------------------------------------------------------------------
(* Submission and history                                                  *)

\* line_submit, on Enter and on C-j of a single-line input.
LineSubmit ==
  /\ "enter" \in Keys
  /\ result' = [type |-> "submit", text |-> text, at |-> 0]
  /\ SetText(<<>>)
  /\ history_pos' = -1 /\ saved_input' = <<>>
  /\ UNCHANGED kill_buf
  /\ KeyPress(FALSE, FALSE)

MatchesPrefix(entry, prefix) ==
  /\ Len(prefix) <= Len(entry)
  /\ Before(entry, Len(prefix)) = prefix

\* The entry at 0-based position i.
Entry(i) == history[i + 1]

\* Every key that reaches the history drops the undo stack first, whether or
\* not it then finds an entry.
Browse ==
  /\ result' = NoResult
  /\ UNCHANGED kill_buf
  /\ KeyPress(FALSE, FALSE)

\* history_prev: the next older entry that begins with the saved input.
HistoryPrev ==
  LET prefix == IF history_pos = -1 THEN text ELSE saved_input
      older  == {i \in history_pos + 1 .. Len(history) - 1 :
                   MatchesPrefix(Entry(i), prefix)}
  IN  /\ "up" \in Keys /\ ~Moves("up")
      /\ history # <<>>
      /\ saved_input' = prefix
      /\ undo_stack' = <<>>
      /\ IF older = {}
         THEN UNCHANGED <<lineVars, history_pos>>
         ELSE /\ history_pos' = Least(older)
              /\ Edit(Entry(Least(older)), Len(Entry(Least(older))))
      /\ Browse

\* history_next: the next newer one, or the saved input after the newest.
HistoryNext ==
  LET newer == {i \in 0 .. history_pos - 1 :
                  MatchesPrefix(Entry(i), saved_input)}
      shown == IF newer = {} THEN saved_input ELSE Entry(Greatest(newer))
  IN  /\ "down" \in Keys /\ ~Moves("down")
      /\ history_pos >= 0
      /\ undo_stack' = <<>>
      /\ history_pos' = IF newer = {} THEN -1 ELSE Greatest(newer)
      /\ saved_input' = IF newer = {} THEN <<>> ELSE saved_input
      /\ Edit(shown, Len(shown))
      /\ Browse

----------------------------------------------------------------------------
(* Calls of the application                                                *)

\* The history without the entry equal to line: the first one that is found.
Others(line) ==
  LET same == {i \in 1 .. Len(history) : history[i] = line}
  IN  IF same = {} THEN history ELSE Without(history, Least(same) - 1, Least(same))

\* Mutant of HistoryAdd: the browsing position is not reset.
HistoryAddKeepsPos(line) ==
  LET kept == Before(Others(line), Least({Len(Others(line)), history_size - 1}))
  IN  /\ "history_add" \in Calls
      /\ line # <<>> /\ history_size > 0
      /\ history' = <<line>> \o kept
      /\ UNCHANGED <<lineVars, killVars, undo_stack, ctrl_x_prefix,
                     history_size, browseVars, focused, word_chars, result, use>>

\* tui_textinput_history_add: a repeated line moves to the front, and the
\* oldest one makes room.
HistoryAdd(line) ==
  LET kept == Before(Others(line), Least({Len(Others(line)), history_size - 1}))
  IN  /\ "history_add" \in Calls
      /\ line # <<>> /\ history_size > 0
      /\ history' = <<line>> \o kept
      /\ history_pos' = -1
      /\ UNCHANGED <<lineVars, killVars, undo_stack, ctrl_x_prefix,
                     history_size, saved_input, focused, word_chars, result, use>>

SetHistorySize(size) ==
  /\ "set_history_size" \in Calls
  /\ history_size' = size
  /\ history' = Before(history, Least({Len(history), size}))
  /\ history_pos' = -1
  /\ UNCHANGED <<lineVars, killVars, undo_stack, ctrl_x_prefix, saved_input,
                 focused, word_chars, result, use>>

\* tui_textinput_insert_completion, from the handler of the Tab command:
\* not an edit that undo knows of.  A cursor that has moved before the word
\* leaves all of the text; an offset beyond the text is undefined, as above.
InsertCompletion(word) ==
  LET tail == Greatest({result.at, cursor_byte})
  IN
  /\ "insert_completion" \in Calls
  /\ result.type = "tab"
  /\ tail <= Len(text)
  /\ Edit(Before(text, result.at) \o word \o After(text, tail),
          result.at + Len(word))
  /\ Len(text') <= use.maxText
  /\ result' = NoResult
  /\ UNCHANGED <<killVars, undo_stack, ctrl_x_prefix, historyVars, browseVars,
                 focused, word_chars, use>>

ReplaceText(line) ==
  /\ "set_text" \in Calls
  /\ SetText(line)
  /\ UNCHANGED <<killVars, ctrl_x_prefix, historyVars, browseVars, focused,
                 word_chars, result, use>>

\* tui_textinput_set_cursor, at the start of a character.
SetCursor(p) ==
  /\ "set_cursor" \in Calls
  /\ Boundary(text, p)
  /\ text' = text /\ mark' = mark
  /\ cursor_byte' = p
  /\ Recalculated
  /\ UNCHANGED <<killVars, undo_stack, ctrl_x_prefix, historyVars, browseVars,
                 focused, word_chars, result, use>>

\* TUI_MSG_FOCUS and TUI_MSG_BLUR: a pending C-x survives both.
SetFocus ==
  /\ "set_focus" \in Calls
  /\ focused' = ~focused
  /\ UNCHANGED <<lineVars, killVars, undo_stack, ctrl_x_prefix, historyVars,
                 browseVars, word_chars, result, use>>

SetWordChars(chars) ==
  /\ word_chars' = chars
  /\ UNCHANGED <<lineVars, killVars, undo_stack, ctrl_x_prefix, historyVars,
                 browseVars, focused, result, use>>

----------------------------------------------------------------------------

EditKey == \/ \E rune \in Runes : Insert(rune)
           \/ Newline \/ Yank \/ DeleteBefore \/ DeleteAt \/ QuitOnEmpty
           \/ Transpose \/ KillLine \/ KillToStart \/ KillRegion \/ KillWord
           \/ KillNothing \/ Undo

OtherKey == \/ \E key \in Keys : Move(key)
            \/ Idle \/ ToggleMark \/ ClearMark \/ Copy \/ Prefix \/ Tab
            \/ LineSubmit \/ HistoryPrev \/ HistoryNext

Call == \/ \E line \in use.lines : HistoryAdd(line) \/ ReplaceText(line)
        \/ \E size \in use.historySizes : SetHistorySize(size)
        \/ \E word \in use.words : InsertCompletion(word)
        \/ \E p \in 0 .. Len(text) : SetCursor(p)
        \/ \E chars \in use.wordChars : SetWordChars(chars)
        \/ SetFocus

TINext == EditKey \/ OtherKey \/ Call

TISpec == TIInit /\ [][TINext]_tiVars

----------------------------------------------------------------------------
(* Properties                                                              *)

\* Types, and the places that the offsets and the browsing position point to.
TITypeOK ==
  /\ use \in Uses
  /\ text \in Seq(Byte) /\ kill_buf \in Seq(Byte)
  /\ saved_input \in Seq(Byte)
  /\ cursor_byte \in 0 .. Len(text)
  /\ mark \in Nat \cup {NoMark}
  /\ history \in Seq(Seq(Byte)) /\ history_size \in Nat
  /\ history_pos \in -1 .. Len(history) - 1
  /\ last_was_kill \in BOOLEAN /\ ctrl_x_prefix \in BOOLEAN
  /\ focused \in BOOLEAN /\ word_chars \in use.wordChars \cup {NoWordChars}
  /\ \A i \in 1 .. Len(undo_stack) :
       undo_stack[i].cursor_byte \in 0 .. Len(undo_stack[i].text)

\* No key cuts a multi-byte character in two, where words are made of plain
\* characters: the text stays well formed,
\* the cursor never stands inside a character, nor does one that undo will
\* restore, and what a kill took out is whole.
WellFormed(t) ==
  \A i \in 1 .. Len(t) :
    (t[i] = "cont") <=> \E j \in 1 .. i - 1 : i - j < CharLen(t[j])
WholeCharacters ==
  /\ WellFormed(text) /\ WellFormed(kill_buf)
  /\ Boundary(text, cursor_byte)
  /\ \A i \in 1 .. Len(undo_stack) :
       /\ WellFormed(undo_stack[i].text)
       /\ Boundary(undo_stack[i].text, undo_stack[i].cursor_byte)

\* Yanking right after a kill that did not follow another one gives back the
\* text the kill found: no byte is lost, doubled or moved at its edges.
YankRestores ==
  [][kill_buf' # kill_buf /\ ~last_was_kill =>
       Before(text', cursor_byte') \o kill_buf' \o After(text', cursor_byte')
         = text]_tiVars

\* While the user browses, undo does not reach across the entry shown,
\* whatever edits, submissions and additions came before; and the line shown
\* is the entry at history_pos, which begins with the input typed before:
\* history_add, which shifts the entries, never leaves the position on
\* another one.  Only set_text and insert_completion, which keep the position,
\* replace the line.
BrowsingShowsEntry ==
  history_pos >= 0 =>
    /\ undo_stack = <<>>
    /\ Calls \cap {"set_text", "insert_completion"} = {} =>
         text = Entry(history_pos) /\ MatchesPrefix(text, saved_input)

\* The history holds no line twice, and never more than its size.
HistoryIsSquashed ==
  /\ Len(history) <= history_size
  /\ \A i, j \in 1 .. Len(history) : history[i] = history[j] => i = j

\* The cached row and column are those of the cursor, although two of the
\* edits (C-k and delete_at) do not recalculate them.
PositionFresh ==
  /\ cursor_row = RowOf(text, cursor_byte)
  /\ cursor_col = ColOf(text, cursor_byte)

\* What every key and call keeps: types, whole characters, the cached
\* position, and the history.
InputConsistent == TITypeOK /\ WholeCharacters /\ PositionFresh /\ HistoryIsSquashed

\* A whole number of characters: their continuation bytes and no others.
ByteAt(t, i)  == IF i \in 1 .. Len(t) THEN t[i] ELSE ""
Follows(t, i) == \/ ByteAt(t, i - 1) \in {"lead", "lead3"}
                 \/ ByteAt(t, i - 2) = "lead3"
Whole(t) == \A i \in 1 .. Len(t) + 2 : ByteAt(t, i) = "cont" <=> Follows(t, i)

\* Characters of one byte each.
Plain(t) == \A i \in 1 .. Len(t) : t[i] \notin {"lead", "lead3", "cont"}

\* The ways of using an input in which characters stay whole: what comes in
\* is whole; and either all of it is plain, or the word characters are, and
\* the three offsets that outlive their text are not used: the column of Up
\* and Down, the mark after undo, and the offset of a completion after
\* set_text.
PlainUse(u) == \A t \in u.runes \cup u.lines \cup u.words : Plain(t)
CanUndo(u)  == u.keys \cap {"C-_", "C-x"} # {}
WholeUse(u) ==
  /\ \A t \in u.runes \cup u.lines \cup u.words : Whole(t)
  /\ \/ PlainUse(u)
     \/ /\ \A chars \in u.wordChars : chars \cap {"lead", "lead3", "cont"} = {}
        /\ u.multiline => u.keys \cap {"up", "down"} = {}
        /\ CanUndo(u) => "C-SPC" \notin u.keys
        /\ "set_text" \in u.calls => "insert_completion" \notin u.calls

\* README, Selection: any edit clears the mark, so it lies in the text.
MarkInText == mark # NoMark => mark <= Len(text)

============================================================================
