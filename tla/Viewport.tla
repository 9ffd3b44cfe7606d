------------------------------ MODULE Viewport ------------------------------
(***************************************************************************)
(* The scrollback, window and copy mode of a TuiViewport                   *)
(* (components/viewport.c): its content, what it draws of it and what a    *)
(* selection highlights and copies.  A line is its cells (see Rows) and    *)
(* the cached number of rows they take.  Positions are as in the code:     *)
(* visual lines count from 0 at the oldest row kept, columns from 0.  The  *)
(* render position is the terminal's first cell.                           *)
(***************************************************************************)
EXTENDS Rows

CONSTANT Uses   \* the ways of using a viewport that are explored, each one
                \* with its bounds: see UseOK

(***************************************************************************)
(* One way of using a viewport, chosen at the start.                       *)
(***************************************************************************)
UseOK(u) ==
  /\ u.ops \subseteq STRING             \* operations, by name
  /\ \A text \in u.texts :              \* appended texts, cut at newlines
       text \in Seq(Text) /\ text # <<>>
  /\ u.sizes \subseteq (Nat \ {0}) \X (Nat \ {0})  \* <<width, height>>
  /\ "words" \in u.ops => \A size \in u.sizes : size[1] > 1  \* see WordScan
  /\ u.limits \subseteq Nat             \* for set_max_lines; 0 is unlimited
  /\ u.maxCells \in Nat                 \* bounds: on a line's cells,
  /\ u.maxCount \in Nat                 \* on the lines kept,
  /\ u.maxTrimmed \in Nat               \* and on the lines trimmed

ASSUME ViewportAssumption == \A u \in Uses : UseOK(u)

VARIABLES
  use,
  lines, total_visual_lines,
  width, height, y_offset,
  auto_scroll, max_lines, wrap_mode, word_wrap,
  focused, copy_mode, has_mark, cursor, mark, mouse_dragging,
  trimmed,     \* lines trimmed so far: lines[i] is line trimmed + i
  left_bottom  \* scrolling, a resize, or output while auto-scroll was off has
               \* taken the window off the bottom

contentVars == <<lines, total_visual_lines, trimmed>>
windowVars  == <<width, height, y_offset>>
wrapVars    == <<wrap_mode, word_wrap>>
configVars  == <<auto_scroll, max_lines, wrapVars>>
copyVars    == <<copy_mode, has_mark, cursor, mark, mouse_dragging>>
vpVars == <<use, contentVars, windowVars, configVars, focused, copyVars,
            left_bottom>>

Ops == use.ops

At(v, col) == [line |-> v, col |-> col]

----------------------------------------------------------------------------
(* Rows and offsets                                                        *)

Columns(t) == Width(t, 1, Len(t))

Line(t, cols, wrap, word) ==
  [cells |-> t, rows |-> RowCount(t, cols, wrap, word)]

\* Sum of the cached row counts of the lines from i to j.
RowsOf(ls, i, j) == SumFrom([k \in 1 .. Len(ls) |-> ls[k].rows], i, j)

MaxOffset(total, h) == AtLeast(0, total - h)
AtBottom == y_offset >= MaxOffset(total_visual_lines, height)

\* find_content_line_for_visual: the index of the line at visual offset v,
\* Len(lines) + 1 past the end, and the row within it.
LineAt(v) ==
  LET after == {i \in 1 .. Len(lines) : v < RowsOf(lines, 1, i)}
  IN  IF after = {} THEN Len(lines) + 1 ELSE Min(after)
RowAt(v) == IF LineAt(v) > Len(lines) THEN 0
            ELSE v - RowsOf(lines, 1, LineAt(v) - 1)

\* visual_line_width
VisualWidth(v) ==
  IF LineAt(v) > Len(lines) THEN 0
  ELSE LET line == lines[LineAt(v)] IN
       IF ~wrap_mode \/ line.rows <= 1 THEN AtMost(Columns(line.cells), width)
       ELSE IF RowAt(v) < line.rows - 1 THEN width
       ELSE AtLeast(0, Columns(line.cells) - RowAt(v) * width)

\* clamp_cursor
Clamped(pos) ==
  LET v == AtMost(pos.line, total_visual_lines - 1)
  IN  IF total_visual_lines = 0 THEN At(0, 0)
      ELSE At(v, AtMost(pos.col, VisualWidth(v)))

----------------------------------------------------------------------------

VPInit ==
  /\ lines = <<>> /\ total_visual_lines = 0
  /\ use \in Uses
  /\ \E size \in use.sizes : width = size[1] /\ height = size[2]
  /\ y_offset = 0
  /\ auto_scroll = TRUE /\ max_lines \in use.limits
  /\ wrap_mode = TRUE /\ word_wrap = FALSE
  /\ focused = FALSE
  /\ copy_mode = FALSE /\ has_mark = FALSE /\ mouse_dragging = FALSE
  /\ cursor = At(0, 0) /\ mark = At(0, 0)
  /\ trimmed = 0 /\ left_bottom = FALSE

----------------------------------------------------------------------------
(* Content                                                                 *)

\* How many lines trim_old_lines takes off `ls' under the limit `max'.
Excess(ls, max) == IF max = 0 THEN 0 ELSE AtLeast(0, Len(ls) - max)

\* trim_old_lines: the lines and the offset after it.
Trimmed(ls, max) == SubSeq(ls, Excess(ls, max) + 1, Len(ls))

\* Mutant of TrimmedOffset: the offset is clamped, and not moved with the
\* lines that went.
TrimmedOffsetClamped(ls, max) ==
  LET kept == RowsOf(ls, Excess(ls, max) + 1, Len(ls))
  IN  IF Excess(ls, max) = 0 THEN y_offset
      ELSE AtMost(y_offset, MaxOffset(kept, height))

TrimmedOffset(ls, max) ==
  LET kept == RowsOf(ls, Excess(ls, max) + 1, Len(ls))
  IN  IF Excess(ls, max) = 0 THEN y_offset
      ELSE AtMost(AtLeast(0, y_offset - RowsOf(ls, 1, Excess(ls, max))),
                  MaxOffset(kept, height))

\* The lines after a text: its first segment goes on the last line, each
\* other one starts a line.  Allocations succeed here: tui_viewport_append
\* ignores the failures of add_line and append_to_last_line, so that in the
\* code the segment concerned is lost.
Extended(text) ==
  LET n       == Len(lines)
      last    == IF n = 0 THEN <<>> ELSE lines[n].cells
      line(t) == Line(t, width, wrap_mode, word_wrap)
      before  == [i \in 1 .. n - 1 |-> lines[i]]
      tail    == [i \in 1 .. Len(text) - 1 |-> line(text[i + 1])]
  IN  IF text[1] = <<>> THEN lines \o tail
      ELSE before \o <<line(last \o text[1])>> \o tail

SetContent(ls, max) ==
  /\ lines' = Trimmed(ls, max)
  /\ trimmed' = trimmed + Excess(ls, max)
  /\ total_visual_lines' = RowsOf(ls, Excess(ls, max) + 1, Len(ls))
  /\ trimmed' <= use.maxTrimmed

\* tui_viewport_append: whether to follow is decided before, and the offset
\* set after trimming.
AppendText(text) ==
  LET ls == Extended(text) IN
  /\ SetContent(ls, max_lines)
  /\ Len(lines') <= use.maxCount
  /\ \A i \in 1 .. Len(lines') : Len(lines'[i].cells) <= use.maxCells
  /\ y_offset' = IF auto_scroll /\ AtBottom
                 THEN MaxOffset(total_visual_lines', height)
                 ELSE TrimmedOffset(ls, max_lines)
  /\ left_bottom' = (\/ left_bottom
                     \/ /\ ~auto_scroll
                        /\ y_offset' < MaxOffset(total_visual_lines', height))
  /\ UNCHANGED <<use, width, height, configVars, focused, copyVars>>

\* tui_viewport_clear
Clear ==
  /\ "clear" \in Ops
  /\ lines' = <<>> /\ total_visual_lines' = 0 /\ y_offset' = 0
  /\ left_bottom' = FALSE
  /\ UNCHANGED <<use, trimmed, width, height, configVars, focused, copyVars>>

SetMaxLines(max) ==
  /\ "limit" \in Ops
  /\ max_lines' = max
  /\ SetContent(lines, max)
  /\ y_offset' = TrimmedOffset(lines, max)
  /\ UNCHANGED <<use, width, height, auto_scroll, wrapVars, focused, copyVars,
                 left_bottom>>

----------------------------------------------------------------------------
(* Window                                                                  *)

\* Mutant of Rewrapped: the offset is not clamped.
RewrappedOnly ==
  /\ lines' = [i \in 1 .. Len(lines) |-> Line(lines[i].cells, width', wrap_mode', word_wrap')]
  /\ total_visual_lines' = RowsOf(lines', 1, Len(lines))
  /\ y_offset' = y_offset
  /\ left_bottom' = (y_offset' < MaxOffset(total_visual_lines', height'))
  /\ UNCHANGED <<use, trimmed>>

\* recompute_all_visual_lines and clamp_y_offset, under the new settings.
Rewrapped ==
  /\ lines' = [i \in 1 .. Len(lines) |-> Line(lines[i].cells, width', wrap_mode', word_wrap')]
  /\ total_visual_lines' = RowsOf(lines', 1, Len(lines))
  /\ y_offset' = AtMost(y_offset, MaxOffset(total_visual_lines', height'))
  /\ left_bottom' = (y_offset' < MaxOffset(total_visual_lines', height'))
  /\ UNCHANGED <<use, trimmed>>

SetSize(size) ==
  /\ "resize" \in Ops
  /\ width' = size[1] /\ height' = size[2]
  /\ UNCHANGED wrapVars
  /\ Rewrapped
  /\ UNCHANGED <<auto_scroll, max_lines, focused, copyVars>>

SetWrapMode ==
  /\ "wrap" \in Ops
  /\ wrap_mode' = ~wrap_mode
  /\ UNCHANGED <<word_wrap, width, height>>
  /\ Rewrapped
  /\ UNCHANGED <<auto_scroll, max_lines, focused, copyVars>>

SetWordWrap ==
  /\ "words" \in Ops
  /\ word_wrap' = ~word_wrap
  /\ UNCHANGED <<wrap_mode, width, height>>
  /\ Rewrapped
  /\ UNCHANGED <<auto_scroll, max_lines, focused, copyVars>>

SetAutoScroll ==
  /\ "auto_scroll" \in Ops
  /\ auto_scroll' = ~auto_scroll
  /\ UNCHANGED <<use, contentVars, windowVars, max_lines, wrapVars, focused,
                 copyVars, left_bottom>>

\* The offset after scrolling by n rows; a page is `height' rows.
Up(n)   == AtLeast(0, y_offset - n)
Down(n) == AtMost(y_offset + n, MaxOffset(total_visual_lines, height))

ScrollTo(offset) ==
  /\ y_offset' = offset
  /\ left_bottom' = (offset < MaxOffset(total_visual_lines, height))
  /\ UNCHANGED <<use, contentVars, width, height, configVars, focused>>

Scroll ==
  /\ "scroll" \in Ops
  /\ \/ \E n \in {1, height} : ScrollTo(Up(n)) \/ ScrollTo(Down(n))
     \/ ScrollTo(MaxOffset(total_visual_lines, height))
  /\ UNCHANGED copyVars

----------------------------------------------------------------------------
(* Focus and copy mode                                                     *)

\* tui_viewport_enter_copy_mode
EnterCopyMode ==
  /\ copy_mode' = TRUE /\ has_mark' = FALSE
  /\ cursor' = Clamped(At(y_offset, 0))
  /\ UNCHANGED <<mark, mouse_dragging>>

\* tui_viewport_exit_copy_mode
ExitCopyMode ==
  /\ copy_mode' = FALSE /\ has_mark' = FALSE /\ mouse_dragging' = FALSE
  /\ UNCHANGED <<cursor, mark>>

SameView == UNCHANGED <<use, contentVars, windowVars, configVars, left_bottom>>

\* TUI_MSG_FOCUS and TUI_MSG_BLUR
Focus == "focus" \in Ops /\ focused' = TRUE  /\ EnterCopyMode /\ SameView
Blur  == "focus" \in Ops /\ focused' = FALSE /\ ExitCopyMode  /\ SameView

\* A key press of a focused viewport; outside copy mode only C-SPC counts.
Key(name) == "copy" \in Ops /\ focused /\ copy_mode = (name # "enter")
KeepsView == SameView /\ UNCHANGED focused

EnterKey == Key("enter") /\ EnterCopyMode /\ KeepsView

\* C-SPC sets the mark at the cursor or clears it.
ToggleMark ==
  /\ Key("mark")
  /\ has_mark' = ~has_mark
  /\ mark' = IF has_mark THEN mark ELSE cursor
  /\ UNCHANGED <<copy_mode, cursor, mouse_dragging>>
  /\ KeepsView

\* C-g and Esc
Cancel ==
  /\ Key("cancel")
  /\ IF has_mark THEN /\ has_mark' = FALSE
                      /\ UNCHANGED <<copy_mode, cursor, mark, mouse_dragging>>
     ELSE ExitCopyMode
  /\ KeepsView

SetCursor(pos) ==
  /\ cursor' = pos
  /\ UNCHANGED <<copy_mode, has_mark, mark, mouse_dragging>>

\* Mutant of ScrollToCursor: a cursor below the window ends up under it.
ScrollPastCursor(v) ==
  IF total_visual_lines = 0 THEN y_offset
  ELSE AtMost(CASE v < y_offset -> v
                [] v >= y_offset + height -> v - height
                [] OTHER -> y_offset,
              MaxOffset(total_visual_lines, height))

\* scroll_to_cursor
ScrollToCursor(v) ==
  IF total_visual_lines = 0 THEN y_offset
  ELSE AtMost(CASE v < y_offset -> v
                [] v >= y_offset + height -> v - height + 1
                [] OTHER -> y_offset,
              MaxOffset(total_visual_lines, height))

\* Keys that move by rows: up, down, the pages, top and bottom.
MoveLines ==
  LET bottom == AtLeast(0, total_visual_lines - 1)
      by(n)  == IF total_visual_lines = 0 THEN cursor
                ELSE Clamped(At(AtMost(AtLeast(0, cursor.line + n), bottom),
                                cursor.col))
      last   == IF total_visual_lines = 0 THEN cursor.line ELSE bottom
  IN  /\ Key("move")
      /\ \E pos \in {by(n) : n \in {1, -1, height, 0 - height}}
                      \cup {At(0, 0), At(last, 0)} :
           /\ SetCursor(pos)
           /\ ScrollTo(ScrollToCursor(pos.line))

\* Keys that move within the row leave the window where it is.
MoveCols ==
  /\ Key("move")
  /\ \E col \in {AtLeast(0, cursor.col - 1), 0, VisualWidth(cursor.line),
                 AtMost(cursor.col + 1, VisualWidth(cursor.line))} :
       SetCursor(At(cursor.line, col))
  /\ KeepsView

\* The ends of the selection, as content lines and display columns.
Precedes(p, q) == p.line < q.line \/ (p.line = q.line /\ p.col <= q.col)
First == IF Precedes(cursor, mark) THEN cursor ELSE mark
Final == IF Precedes(cursor, mark) THEN mark ELSE cursor
DisplayCol(pos) == RowAt(pos.line) * width + pos.col

\* Mutant of Copied: the end of the selection is left out.
CopiedShort(i) ==
  LET t  == lines[i].cells
      from == IF i = LineAt(First.line) THEN DisplayCol(First) ELSE 0
      to   == IF i = LineAt(Final.line) THEN DisplayCol(Final) ELSE Columns(t)
  IN  IF i \in LineAt(First.line) .. LineAt(Final.line) THEN Between(t, from, to)
      ELSE {}

\* The cells of line i that lie between mark and cursor, both included.
Copied(i) ==
  LET t  == lines[i].cells
      from == IF i = LineAt(First.line) THEN DisplayCol(First) ELSE 0
      to   == IF i = LineAt(Final.line) THEN DisplayCol(Final) + 1 ELSE Columns(t)
  IN  IF i \in LineAt(First.line) .. LineAt(Final.line) THEN Between(t, from, to)
      ELSE {}

\* tui_viewport_extract_selection finds some text: in the selection, where a
\* newline counts, or on the line of the cursor.
Extracts ==
  LET i == LineAt(IF has_mark THEN First.line ELSE cursor.line)
      j == LineAt(IF has_mark THEN Final.line ELSE cursor.line)
  IN  /\ i <= Len(lines)
      /\ \/ i < AtMost(j, Len(lines))
         \/ has_mark /\ Copied(i) # {}
         \/ ~has_mark /\ \E k \in DOMAIN lines[i].cells : ~IsEscape(lines[i].cells[k])

\* M-w
Copy ==
  /\ Key("copy")
  /\ has_mark' = (has_mark /\ ~Extracts)
  /\ UNCHANGED <<copy_mode, cursor, mark, mouse_dragging>>
  /\ KeepsView

----------------------------------------------------------------------------
(* Mouse: row and col are relative to the viewport                         *)

Mouse == "mouse" \in Ops /\ focused
Inside(row, col) == row \in 0 .. height - 1 /\ col \in 0 .. width - 1

\* A press marks where it points, below the content or not, and then brings
\* the cursor back to the content.
Press(row, col) ==
  /\ Mouse /\ Inside(row, col)
  /\ copy_mode' = TRUE /\ has_mark' = TRUE /\ mouse_dragging' = TRUE
  /\ mark' = At(y_offset + row, col)
  /\ cursor' = Clamped(At(y_offset + row, col))
  /\ KeepsView

Wheel ==
  /\ Mouse
  /\ ScrollTo(Up(3)) \/ ScrollTo(Down(3))
  /\ UNCHANGED copyVars

Release ==
  /\ Mouse /\ mouse_dragging
  /\ mouse_dragging' = FALSE
  /\ UNCHANGED <<copy_mode, has_mark, cursor, mark>>
  /\ KeepsView

\* Dragging past an edge scrolls by one row.
Drag(row, col) ==
  LET x == AtMost(AtLeast(0, col), width - 1)
      v == CASE row < 0 -> Up(1)
             [] row >= height -> AtMost(Down(1) + height - 1,
                                        AtLeast(0, total_visual_lines - 1))
             [] OTHER -> y_offset + row
  IN  /\ Mouse /\ mouse_dragging
      /\ SetCursor(Clamped(At(v, x)))
      /\ ScrollTo(CASE row < 0 -> Up(1) [] row >= height -> Down(1)
                    [] OTHER -> y_offset)

\* Where the runtime puts the terminal cursor, 0 for the first row.
CursorRow   == cursor.line - y_offset

----------------------------------------------------------------------------
(* What is drawn                                                           *)

\* tui_viewport_view goes down the rows from the first one shown: the line
\* and row that each row of the window gets, past the content none.
Shown ==
  LET at[r \in 0 .. height - 1] ==
        IF r = 0 THEN <<LineAt(y_offset), RowAt(y_offset)>>
        ELSE LET line == at[r - 1][1]
                 sub  == at[r - 1][2] + 1
             IN  IF line > Len(lines) THEN <<line, 0>>
                 ELSE IF sub < lines[line].rows THEN <<line, sub>>
                 ELSE <<line + 1, 0>>
  IN  at

StartOf(i, sub) == RowStart(lines[i].cells, sub, width, wrap_mode, word_wrap)

\* The rows of line i that draw its cell k.
RowsDrawing(i, k) ==
  {sub \in 0 .. lines[i].rows - 1 :
     k \in Drawn(lines[i].cells, sub, width, wrap_mode, word_wrap)}

\* compute_row_selection: the columns of visual line v that are selected.
SelectedColumns(v) ==
  LET from == IF v = First.line THEN First.col ELSE 0
      end  == IF v = Final.line THEN AtMost(Final.col + 1, width) ELSE width
  IN  IF copy_mode /\ focused /\ has_mark /\ v \in First.line .. Final.line
      THEN from .. end - 1 ELSE {}

\* Row r of the window: the cells that are drawn, and those in reverse.
DrawnAt(r) ==
  LET i == Shown[r][1]
  IN  IF i > Len(lines) THEN {}
      ELSE Drawn(lines[i].cells, Shown[r][2], width, wrap_mode, word_wrap)

ReversedAt(r) ==
  LET i == Shown[r][1]
  IN  IF i > Len(lines) THEN {}
      ELSE Reversed(lines[i].cells, StartOf(i, Shown[r][2]), width,
                    SelectedColumns(y_offset + r))

----------------------------------------------------------------------------

Content == \/ \E text \in use.texts : AppendText(text)
           \/ Clear
           \/ \E max \in use.limits : SetMaxLines(max)

Window == \/ \E size \in use.sizes : SetSize(size)
          \/ SetWrapMode \/ SetWordWrap \/ SetAutoScroll \/ Scroll

CopyMode == \/ Focus \/ Blur \/ EnterKey \/ ToggleMark \/ Cancel
            \/ MoveLines \/ MoveCols \/ Copy

MouseMsg == \/ \E row \in -1 .. height, col \in -1 .. width :
                 Press(row, col) \/ Drag(row, col)
            \/ Wheel \/ Release

VPNext == Content \/ Window \/ CopyMode \/ MouseMsg

VPSpec == VPInit /\ [][VPNext]_vpVars

----------------------------------------------------------------------------
(* Properties                                                              *)

\* Types; copy mode ends with its mark and its drag.
VPTypeOK ==
  /\ use \in Uses
  /\ \A i \in 1 .. Len(lines) : lines[i].cells \in Text /\ lines[i].rows > 0
  /\ <<width, height>> \in use.sizes
  /\ y_offset \in Nat /\ total_visual_lines \in Nat
  /\ cursor.line \in Nat /\ cursor.col \in Nat
  /\ has_mark => copy_mode
  /\ mouse_dragging => copy_mode /\ focused

\* The cached row counts are those of the width and wrap mode in force, and
\* their total is their sum, through appends, trims and resizes.
RowsFresh ==
  /\ total_visual_lines = RowsOf(lines, 1, Len(lines))
  /\ \A i \in 1 .. Len(lines) :
       lines[i].rows = RowCount(lines[i].cells, width, wrap_mode, word_wrap)

\* The window never starts so far down that it could show more content.
OffsetInRange == y_offset <= MaxOffset(total_visual_lines, height)

\* The cached rows, their total and the offset into them.
WindowConsistent == VPTypeOK /\ RowsFresh /\ OffsetInRange

\* The first row shown, as a line of the whole output and a row within it.
TopRow == <<trimmed + LineAt(y_offset), RowAt(y_offset)>>

\* tui_viewport_cursor_pos relies on it: after every motion by rows, which
\* scrolls to the cursor, it lies in the window, wherever trimming, clearing,
\* resizing or the wheel had left it.  A motion along the row does not scroll,
\* and leaves a cursor outside where it is.
CursorInWindow == CursorRow \in 0 .. height - 1
MotionShowsCursor ==
  [][MoveLines /\ total_visual_lines > 0 => CursorInWindow']_vpVars

\* README, Auto-scroll: new content scrolls a window that nothing has taken
\* off the bottom, whatever was trimmed, cleared or limited in between; and it
\* does not move a reader who has scrolled back: the first row shown stays the
\* same, unless its line was trimmed.
PlaceIsKept ==
  /\ auto_scroll /\ ~left_bottom => AtBottom'
  /\ ~AtBottom /\ trimmed' < TopRow[1] => TopRow' = TopRow
EveryAppendKeepsPlace ==
  \A text \in use.texts : AppendText(text) => PlaceIsKept
AppendKeepsPlace == [][EveryAppendKeepsPlace]_vpVars

\* In every row a character has the colors that its line gives it (README,
\* State preservation), as far as SGR_STATE_BUF_SIZE goes.
HasItsColors(i, sub, k) ==
  DrawnWith(lines[i].cells, StartOf(i, sub), k) = InForce(lines[i].cells, k)
ColorsContinue ==
  \A i \in DOMAIN lines : \A sub \in 0 .. lines[i].rows - 1 :
    Cardinality(InForce(lines[i].cells, StartOf(i, sub))) <= SgrCap =>
      \A k \in Drawn(lines[i].cells, sub, width, wrap_mode, word_wrap) :
        HasItsColors(i, sub, k)

\* The rows counted for a wrapped line show all of it: under column wrap each
\* character of a line of single-column characters in one row (a wide one
\* across the edge is in none), and under word wrap, where a row is drawn on
\* past its break, each character in one at least.  In every row that starts
\* with no more attributes than are remembered, each has its colors.
Characters(i) == {k \in DOMAIN lines[i].cells : IsShown(lines[i].cells[k])}
HasWide(i)    == \E k \in DOMAIN lines[i].cells : lines[i].cells[k] = "wide"
RowsShowLine ==
  /\ \A i \in DOMAIN lines : \A k \in Characters(i) :
       /\ wrap_mode /\ word_wrap => RowsDrawing(i, k) # {}
       /\ wrap_mode /\ ~word_wrap /\ ~HasWide(i) =>
            Cardinality(RowsDrawing(i, k)) = 1
  /\ ColorsContinue

\* Of single-column characters, what is highlighted would be copied: the view,
\* which counts rows from the first one shown, and the copy, which counts
\* columns of the line, agree after any scrolling, trimming, clipping and
\* resizing that leaves the start of the selection within its row.  Not under
\* word wrap; and what is copied may be more than what is highlighted.
HighlightedIsCopied ==
  ~(wrap_mode /\ word_wrap) /\ First.col <= width =>
    \A r \in 0 .. height - 1 : LET i == Shown[r][1] IN
      i <= Len(lines) /\ ~HasWide(i) => ReversedAt(r) \subseteq Copied(i)

=============================================================================
