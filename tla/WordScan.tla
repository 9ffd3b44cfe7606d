------------------------------ MODULE WordScan ------------------------------
(***************************************************************************)
(* The search for word breaks of components/viewport.c as it runs:         *)
(* scan_word_wrapped_lines counts the rows of a line, and                  *)
(* find_word_wrap_subline_offset is the same loop, left at the row asked   *)
(* for.  One step is one turn of the loop; offsets are cells, from 1.      *)
(***************************************************************************)
EXTENDS Rows

CONSTANTS
  Kinds,      \* the cells of the lines explored
  MaxLen,     \* and the longest of them
  Widths,    \* viewport widths
  MaxStarts   \* row starts recorded, the capacity of out_starts; bounds
              \* n_lines too

ASSUME WordScanAssumption ==
  /\ Kinds \subseteq Cells
  /\ MaxLen \in Nat /\ MaxStarts \in Nat \ {0}
  /\ Widths \subseteq Nat \ {0}

VARIABLES
  text, viewport_width,             \* what the loop is called with
  i, col,                           \* the next cell, and its column
  cur_break,                        \* where the row starts
  last_word_start, last_word_start_col,
  out_starts, n_lines,
  done

rowVars == <<cur_break, out_starts, n_lines>>
wordVars == <<last_word_start, last_word_start_col>>
scanVars == <<text, viewport_width, i, col, rowVars, wordVars, done>>

ScanInit ==
  /\ text \in UNION {[1 .. n -> Kinds] : n \in 1 .. MaxLen}
  /\ viewport_width \in Widths
  /\ i = 1 /\ col = 0 /\ cur_break = 1
  /\ last_word_start = 1 /\ last_word_start_col = 0
  /\ out_starts = <<1>> /\ n_lines = 1
  /\ done = FALSE

Looking == ~done /\ i <= Len(text)
Fits == col + ScanWidth(text[i]) <= viewport_width

\* An escape sequence takes no columns.
SkipEscape ==
  /\ Looking /\ IsEscape(text[i])
  /\ i' = i + 1
  /\ UNCHANGED <<text, viewport_width, col, rowVars, wordVars, done>>

\* Mutant of TakeCell: the word starts at the blank.
TakeCellBefore ==
  /\ Looking /\ ~IsEscape(text[i]) /\ Fits
  /\ i' = i + 1
  /\ col' = col + ScanWidth(text[i])
  /\ IF IsBlank(text[i]) THEN last_word_start' = i /\ last_word_start_col' = col'
     ELSE UNCHANGED wordVars
  /\ UNCHANGED <<text, viewport_width, rowVars, done>>

\* A character that fits; after a blank a word starts.
TakeCell ==
  /\ Looking /\ ~IsEscape(text[i]) /\ Fits
  /\ i' = i + 1
  /\ col' = col + ScanWidth(text[i])
  /\ IF IsBlank(text[i]) THEN last_word_start' = i' /\ last_word_start_col' = col'
     ELSE UNCHANGED wordVars
  /\ UNCHANGED <<text, viewport_width, rowVars, done>>

\* Where the next row starts.
BreakAt ==
  IF last_word_start > cur_break /\ last_word_start_col >= Threshold(viewport_width)
  THEN last_word_start ELSE i

\* Mutant of NewRow: the column is not reset.
NewRowKeepsCol ==
  /\ Looking /\ ~IsEscape(text[i]) /\ ~Fits
  /\ cur_break' = BreakAt /\ i' = BreakAt /\ col' = col
  /\ last_word_start' = BreakAt /\ last_word_start_col' = 0
  /\ n_lines' = AtMost(n_lines + 1, MaxStarts + 1)
  /\ out_starts' = IF n_lines < MaxStarts THEN Append(out_starts, BreakAt)
                   ELSE out_starts
  /\ UNCHANGED <<text, viewport_width, done>>

\* A character that does not fit starts a row, or its word does.
NewRow ==
  /\ Looking /\ ~IsEscape(text[i]) /\ ~Fits
  /\ cur_break' = BreakAt /\ i' = BreakAt /\ col' = 0
  /\ last_word_start' = BreakAt /\ last_word_start_col' = 0
  /\ n_lines' = AtMost(n_lines + 1, MaxStarts + 1)
  /\ out_starts' = IF n_lines < MaxStarts THEN Append(out_starts, BreakAt)
                   ELSE out_starts
  /\ UNCHANGED <<text, viewport_width, done>>

Finish ==
  /\ ~done /\ i > Len(text)
  /\ done' = TRUE
  /\ UNCHANGED <<text, viewport_width, i, col, rowVars, wordVars>>

ScanNext == SkipEscape \/ TakeCell \/ NewRow \/ Finish

\* The loop runs to its end in one call.
ScanSpec == ScanInit /\ [][ScanNext]_scanVars /\ WF_scanVars(ScanNext)

----------------------------------------------------------------------------
(* Properties                                                              *)

\* No row before the current one is wider than the viewport.
RowsFit ==
  \A r \in 2 .. Len(out_starts) :
    Scanned(text, out_starts[r - 1], out_starts[r] - 1) <= viewport_width

\* Each row starts after the one before: although the loop goes back to the
\* start of the word that does not fit, it never goes back to a break.
StartsAscend ==
  \A r \in 2 .. Len(out_starts) : out_starts[r - 1] < out_starts[r]

\* The loop, with its breaks taken back to the last word, finds the rows that
\* Rows defines from the text alone, the ones the viewport counts with; on
\* its way every row it has found fits and starts after the one before.
FindsRows ==
  /\ RowsFit /\ StartsAscend
  /\ done =>
       /\ n_lines = AtMost(Cardinality({r \in 0 .. Len(text) :
                             WordStart(text, viewport_width)[r] <= Len(text)}),
                           MaxStarts + 1)
       /\ \A r \in DOMAIN out_starts :
            out_starts[r] = WordStart(text, viewport_width)[r - 1]

\* "Returns the total visual line count": the scan comes to an end, although
\* it goes back to the start of the word it breaks before.
Returns == <>done
=============================================================================
