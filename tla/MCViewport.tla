----------------------------- MODULE MCViewport -----------------------------
(* Instances of Viewport for TLC, windows of a few cells, and beside them the *)
(* search for word breaks of WordScan, for every short line.  In a behavior   *)
(* either a viewport is used or one search runs.                              *)
EXTENDS Viewport, WordScan

a == <<"letter">>
ab == a \o a
abc == ab \o a

\* Content and window: partial lines, trimming, resizes and wrapping.
Scrolling ==
  [ops |-> {"clear", "limit", "resize", "wrap", "auto_scroll", "scroll"},
   texts |-> {<<ab, <<>>>>, <<<<>>, <<>>>>, <<a>>, <<<<>>, abc>>},
   sizes |-> {<<2, 1>>, <<1, 2>>, <<2, 2>>}, limits |-> {0, 2},
   maxCells |-> 3, maxCount |-> 3, maxTrimmed |-> 2]

\* Copy mode and the mouse, over three lines of two rows that are trimmed, and
\* over two lines of different lengths that are cleared, too.
Copying ==
  [ops |-> {"scroll", "focus", "copy", "mouse"},
   texts |-> {<<abc, <<>>>>}, sizes |-> {<<2, 2>>}, limits |-> {3},
   maxCells |-> 3, maxCount |-> 4, maxTrimmed |-> 1]
CopyingUneven ==
  [Copying EXCEPT !.ops = Copying.ops \cup {"clear"},
                  !.texts = {<<a, <<>>>>, <<abc, <<>>>>}, !.limits = {2}]

\* Words, wide characters and colors under every way of wrapping, put together
\* cell by cell.
Wrapping ==
  [ops |-> {"resize", "wrap", "words"},
   texts |-> {<<<<c>>>> : c \in {"letter", "blank", "wide", "color", "reset"}},
   sizes |-> {<<2, 1>>, <<3, 2>>}, limits |-> {0},
   maxCells |-> 4, maxCount |-> 1, maxTrimmed |-> 0]

\* Selections of lines of mixed cells that are wrapped, clipped, scrolled,
\* trimmed and resized.
Selecting ==
  [ops |-> {"resize", "wrap", "scroll", "focus", "copy", "mouse"},
   texts |-> {<<<<"letter", "color", "letter", "reset", "letter">>, <<>>>>},
   sizes |-> {<<2, 2>>, <<3, 1>>}, limits |-> {2},
   maxCells |-> 5, maxCount |-> 2, maxTrimmed |-> 1]

\* A viewport nothing happens to, for the searches.
Resting ==
  [ops |-> {}, texts |-> {}, sizes |-> {<<2, 1>>}, limits |-> {0},
   maxCells |-> 0, maxCount |-> 0, maxTrimmed |-> 0]

EveryUse ==
  {Scrolling, Copying, CopyingUneven, Wrapping, Selecting, Resting}

\* A search that has ended.
Searched ==
  /\ text = a /\ viewport_width = 2 /\ i = 2 /\ col = 1 /\ cur_break = 1
  /\ last_word_start = 1 /\ last_word_start_col = 0
  /\ out_starts = <<1>> /\ n_lines = 1 /\ done = TRUE

BothInit == VPInit /\ IF use = Resting THEN ScanInit ELSE Searched

BothNext == \/ VPNext /\ UNCHANGED scanVars
            \/ ScanNext /\ UNCHANGED vpVars

BothSpec == BothInit /\ [][BothNext]_<<vpVars, scanVars>> /\ WF_scanVars(ScanNext)
=============================================================================
