----------------------------- MODULE StatusBar ------------------------------
(***************************************************************************)
(* The status bar (components/statusbar.c): its two texts with their cached *)
(* display widths, and the row the view draws from them.  A text is the    *)
(* sequence of its screen columns; NULL and the empty string are <<>>.     *)
(***************************************************************************)
EXTENDS Integers, Sequences

CONSTANTS
  Messages,    \* what the application shows
  Widths    \* for set_terminal_width; 0 stands for 80 columns

ASSUME StatusBarAssumption ==
  Messages \subseteq Seq(STRING) /\ Widths \subseteq Nat

VARIABLES
  mode_text, mode_display_width,
  notification, notification_display_width,
  terminal_width

modeTextVars  == <<mode_text, mode_display_width>>
notifVars == <<notification, notification_display_width>>
sbVars == <<modeTextVars, notifVars, terminal_width>>

Spaces(n) == [i \in 1 .. n |-> "blank"]

SBInit == /\ mode_text = <<>> /\ mode_display_width = 0
          /\ notification = <<>> /\ notification_display_width = 0
          /\ terminal_width = 0

\* Mutant of SetMode: the width of the text before stays.
SetModeStale(text) ==
  /\ \/ mode_text' = text
     \/ mode_text' = <<>>
  /\ UNCHANGED <<mode_display_width, notifVars, terminal_width>>

\* The setters free the old text first; when the copy cannot be allocated
\* nothing is shown.
SetMode(text) ==
  /\ \/ mode_text' = text /\ mode_display_width' = Len(text)
     \/ mode_text' = <<>> /\ mode_display_width' = 0
  /\ UNCHANGED <<notifVars, terminal_width>>
SetNotification(text) ==
  /\ \/ notification' = text /\ notification_display_width' = Len(text)
     \/ notification' = <<>> /\ notification_display_width' = 0
  /\ UNCHANGED <<modeTextVars, terminal_width>>
ClearNotification ==
  /\ notification' = <<>> /\ notification_display_width' = 0
  /\ UNCHANGED <<modeTextVars, terminal_width>>
SetTerminalWidth(width) ==
  /\ terminal_width' = width
  /\ UNCHANGED <<modeTextVars, notifVars>>

SBNext == \/ \E text \in Messages : SetMode(text) \/ SetNotification(text)
          \/ ClearNotification
          \/ \E width \in Widths : SetTerminalWidth(width)

SBSpec == SBInit /\ [][SBNext]_sbVars

----------------------------------------------------------------------------
(* tui_statusbar_view                                                      *)

term_width == IF terminal_width > 0 THEN terminal_width ELSE 80

\* The row: the mode on the left, the notification against the right edge,
\* and two columns between them when there is not even one.
Row ==
  LET padding == term_width - notification_display_width
                   - (IF mode_text = <<>> THEN 0 ELSE mode_display_width)
  IN  IF notification = <<>> THEN mode_text
      ELSE mode_text
             \o (IF padding > 0 THEN Spaces(padding)
                 ELSE IF mode_text = <<>> THEN <<>> ELSE Spaces(2))
             \o notification

----------------------------------------------------------------------------
(* Properties                                                              *)

SBTypeOK ==
  /\ mode_text \in Messages \cup {<<>>} /\ notification \in Messages \cup {<<>>}
  /\ terminal_width \in Widths \cup {0}

\* The row of the two texts fits the terminal, with a column between them
\* when there are both.  The view draws texts that leave no such room all the
\* same, two columns apart, and the terminal wraps the row.
HasRoom ==
  Len(mode_text) + Len(notification)
    + (IF mode_text = <<>> \/ notification = <<>> THEN 0 ELSE 1) <= term_width

\* Whatever was set, cleared, failed and resized before, the bar of texts
\* there is room for is a single line: it holds the whole mode at its left
\* end and the whole notification against the right edge of the terminal.
EndsWith(row, text) ==
  SubSeq(row, Len(row) - Len(text) + 1, Len(row)) = text
RowHolds ==
  /\ SBTypeOK
  /\ HasRoom => /\ SubSeq(Row, 1, Len(mode_text)) = mode_text
                /\ EndsWith(Row, notification)
                /\ Len(Row) <= term_width
                /\ notification # <<>> => Len(Row) = term_width
=============================================================================
