--------------------------- MODULE MCInputParser ----------------------------
(* Instances of InputParser for TLC: a shorter end marker, ESC [ 2 ~, and  *)
(* a start sequence of two bytes keep a whole paste within a few bytes.    *)
EXTENDS InputParser

ShortMarker == <<"ESC", "[", "2", "~">>
ShortStart  == <<"0", "~">>

\* Pastes, as the event loop reads them.
Pasting == [bytes |-> {"ESC", "[", "0", "2", "~"},
            reads |-> 1 .. 3, arrays |-> {3}]

\* Pastes whose end does not fit into the array with their payload.
Splitting == [Pasting EXCEPT !.reads = {1}, !.arrays = {1}]

\* Keys and characters, byte by byte.
Typing == [bytes |-> {"ESC", "[", "O", "A", "1", "~", "lead3", "cont", "ctl",
                      "nokey"},
           reads |-> {1}, arrays |-> {2}]

\* Mouse reports.
Pointing == [bytes |-> {"ESC", "[", "<", "M", ";", "0"},
             reads |-> {1}, arrays |-> {1}]

AllTerminals == {Pasting, Splitting, Typing, Pointing}
=============================================================================
