-------------------------------- MODULE Rows --------------------------------
(***************************************************************************)
(* How a line of a viewport is cut into rows, which of its cells a row     *)
(* draws, and which attributes they are drawn with (components/viewport.c  *)
(* and the widths of unicode.c).  A line is a sequence of cells: what      *)
(* counts of a character is its width and whether a word ends there, of an *)
(* escape sequence whether it sets or resets attributes.  Cells are        *)
(* numbered from 1, rows and columns from 0.                               *)
(***************************************************************************)
EXTENDS Integers, Sequences, FiniteSetsExt

CONSTANT SgrCap  \* colors that fit into SGR_STATE_BUF_SIZE

ASSUME SgrCapAssumption == SgrCap \in Nat

Cells == {"letter", "blank", "wide", "accent", "tab", "color", "reset"}
Text == Seq(Cells)

\* Columns a character takes on the screen.  A control character counts as
\* one column for the search of word breaks and as none elsewhere.
CellWidth(c) == CASE c = "wide" -> 2
                  [] c \in {"letter", "blank"} -> 1
                  [] OTHER -> 0
ScanWidth(c) == IF c = "tab" THEN 1 ELSE CellWidth(c)

IsBlank(c)   == c \in {"blank", "tab"}
IsEscape(c)  == c \in {"color", "reset"}
IsShown(c)   == CellWidth(c) > 0
IsPrinted(c) == ~IsEscape(c) /\ c # "tab"

\* f[i] + ... + f[j], none if j = i - 1.
SumFrom(f, i, j) ==
  LET sum[n \in i - 1 .. j] == IF n = i - 1 THEN 0 ELSE sum[n - 1] + f[n]
  IN  sum[j]

\* Columns of the cells from i to j.
Width(t, i, j)   == SumFrom([k \in 1 .. Len(t) |-> CellWidth(t[k])], i, j)
Scanned(t, i, j) == SumFrom([k \in 1 .. Len(t) |-> ScanWidth(t[k])], i, j)

\* The least element of S, or one past the end of the text.
FirstOf(t, S) == IF S = {} THEN Len(t) + 1 ELSE Min(S)

AtLeast(m, n) == IF m < n THEN n ELSE m
AtMost(m, n)  == IF m < n THEN m ELSE n

----------------------------------------------------------------------------
(* Breaking a line                                                         *)

\* Mutant of ColumnStart: one column too far is passed.
ColumnStartPast(t, r, cols) ==
  FirstOf(t, {k \in 1 .. Len(t) : Width(t, 1, k - 1) > r * cols})

\* Column wrap: row r starts where r * cols columns have been passed.
ColumnStart(t, r, cols) ==
  FirstOf(t, {k \in 1 .. Len(t) : Width(t, 1, k - 1) >= r * cols})

\* A word break nearer to the start of the row than this is not used.
Threshold(cols) == AtLeast(1, (cols * 3) \div 4)

\* Word wrap: where the row after the one that starts at `from' starts: after
\* the last blank of the row, if it is near enough to the edge, or at the
\* character that does not fit.
WordBreak(t, from, cols) ==
  LET over  == FirstOf(t, {k \in from .. Len(t) : Scanned(t, from, k) > cols})
      words == {k \in from .. over - 1 :
                  IsBlank(t[k]) /\ Scanned(t, from, k) >= Threshold(cols)}
  IN  IF over > Len(t) \/ words = {} THEN over ELSE Max(words) + 1

\* The search for breaks advances only if every character fits in a row.
Breakable(t, cols) == cols > 1 \/ \A k \in DOMAIN t : t[k] # "wide"

\* Where the rows of t start under word wrap, Len(t) + 1 past the last.
WordStart(t, cols) ==
  LET start[r \in 0 .. Len(t)] ==
        IF r = 0 THEN 1
        ELSE IF start[r - 1] > Len(t) THEN Len(t) + 1
        ELSE WordBreak(t, start[r - 1], cols)
  IN  start

\* line_visual_lines
RowCount(t, cols, wrap, word) ==
  LET w == Width(t, 1, Len(t)) IN
  IF ~wrap \/ w = 0 THEN 1
  ELSE IF word
    THEN Cardinality({r \in 0 .. Len(t) : WordStart(t, cols)[r] <= Len(t)})
  ELSE (w + cols - 1) \div cols

\* Where render_line_segment starts to draw row r.
RowStart(t, r, cols, wrap, word) ==
  IF ~wrap \/ r = 0 THEN 1
  ELSE IF word THEN WordStart(t, cols)[r]
  ELSE ColumnStart(t, r, cols)

----------------------------------------------------------------------------
(* Drawing a row                                                           *)

\* emit_cols draws from a cell on until the next character does not fit.
EmitEnd(t, from, cols) ==
  FirstOf(t, {k \in from .. Len(t) : IsShown(t[k]) /\ Width(t, from, k) > cols})

\* The characters that row r of t draws.
Drawn(t, r, cols, wrap, word) ==
  LET from == RowStart(t, r, cols, wrap, word)
  IN  {k \in from .. EmitEnd(t, from, cols) - 1 : IsShown(t[k])}

\* The column of its row where cell k is drawn.
ColumnIn(t, from, k) == Width(t, from, k - 1)

\* Colors in force before cell k, as the writer of the line meant them.
InForce(t, k) ==
  {i \in 1 .. k - 1 : t[i] = "color" /\ \A j \in i .. k - 1 : t[j] # "reset"}

\* collect_sgr_state_to_offset: a row that does not start its line repeats the
\* colors in force, as many of the oldest as fit.
Carried(t, from) ==
  {i \in InForce(t, from) : Cardinality({j \in InForce(t, from) : j <= i}) <= SgrCap}

\* Colors that cell k of a row from `from' is drawn with.
DrawnWith(t, from, k) ==
  IF \E j \in from .. k - 1 : t[j] = "reset" THEN InForce(t, k)
  ELSE Carried(t, from) \cup {i \in from .. k - 1 : t[i] = "color"}

\* The characters of a row from `from' that emit_cols draws in reverse for the
\* selected columns: SGR_REVERSE is written before the first of them, and a
\* reset of the line's own turns it off.
Reversed(t, from, cols, selected) ==
  LET in == {k \in from .. EmitEnd(t, from, cols) - 1 :
               IsPrinted(t[k]) /\ ColumnIn(t, from, k) \in selected}
  IN  {k \in in : /\ IsShown(t[k])
                  /\ \A j \in Min(in) .. k : t[j] # "reset"}

----------------------------------------------------------------------------
(* Taking text out of a line                                               *)

\* byte_offset_for_display_col: the first cell that reaches past column col.
CellAt(t, col) ==
  IF col <= 0 THEN 1
  ELSE FirstOf(t, {k \in 1 .. Len(t) : IsPrinted(t[k]) /\ Width(t, 1, k) > col})

\* append_stripped: the characters between two columns, to the end of the line
\* if the second lies at or beyond it.
Between(t, from, to) ==
  LET end == IF to >= Width(t, 1, Len(t)) THEN Len(t) + 1 ELSE CellAt(t, to)
  IN  {k \in CellAt(t, from) .. end - 1 : ~IsEscape(t[k])}
=============================================================================
