------------------------------ MODULE MCOutput ------------------------------
(* Instances for TLC of what ends in the terminal: the modes, the buffer a   *)
(* view is written into, the escape sequences, the layout functions, the     *)
(* status bar and the text view.  They share no state: a behavior uses one   *)
(* of them, chosen at the start, and the others rest in an initial state.    *)
EXTENDS TerminalModes, DynamicBuffer, EscapeOutput, Layout, StatusBar, TextView

\* Every combination of declarations a view can make.
AllViews == [alt_screen : BOOLEAN, mouse_mode : MouseModes, kitty : BOOLEAN,
             report_focus : {FALSE}, bracketed_paste : BOOLEAN,
             window_title : Titles \cup {NoTitle}, cursor : BOOLEAN]

\* A buffer of two bytes that grows by up to two doublings for one text.
AllStrings == {<<>>, <<"a">>, <<"b", "a", "b", "a">>}

\* Texts of up to four bytes, so that one whole group and each remainder
\* occur, with bytes whose bits differ on every six-bit boundary; sizes on
\* both sides of every bound; titles that just fit and one byte longer.
AllClips == BoundedSeq({0, 90, 255}, 4)
AllBufSizes == {0, 8, 9, 10, 12, 13, 14, 15, 16, 17, 18, 20, 23, 24}
AllDigits == 1 .. 5
AllTitleLengths == {0, 1, 505, 506}

\* Texts of one and three rows, one with wide characters, and an empty string.
Letters == {"a", "W", "w", "b", "c", "d", "line", "bar"}
AllTexts == {<< <<"a">>, <<"W", "w", "b">>, <<"c", "d">> >>, << <<>> >>}

\* A border as the prefabricated ones are, and one with a pattern of three
\* columns on top, a wide corner and nothing at the left.
Normal == [f \in BorderStrings |->
  IF f \in {"top", "bottom"} THEN <<"edge">>
  ELSE IF f \in {"left", "right"} THEN <<"side">> ELSE <<"corner">>]
Fancy == [Normal EXCEPT !.top = <<"edge", "bar", "blank">>, !.left = <<>>,
                        !.top_left = <<"corner", "corner">>]

Plain ==
  [width |-> Unset, height |-> Unset,
   padding_top |-> 0, padding_right |-> 0, padding_bottom |-> 0, padding_left |-> 0,
   margin_top |-> 0, margin_right |-> 0, margin_bottom |-> 0, margin_left |-> 0,
   align_h |-> "start", align_v |-> "start", has_border |-> FALSE,
   border |-> Normal, inline_ |-> FALSE]

\* Boxes that grow, boxes of a size, centered and at the end, and each kind of
\* decoration on one side only, so that no two of them are the same.
AllStyles ==
  {[Plain EXCEPT !.has_border = TRUE, !.padding_left = 1, !.margin_bottom = 1],
   [Plain EXCEPT !.padding_top = 1, !.padding_right = 2, !.margin_left = 1],
   [Plain EXCEPT !.width = 6, !.height = 5, !.has_border = TRUE,
                 !.align_h = "middle", !.align_v = "middle", !.margin_top = 1],
   [Plain EXCEPT !.width = 5, !.height = 2, !.padding_bottom = 1,
                 !.align_h = "end", !.align_v = "end", !.margin_right = 1],
   [Plain EXCEPT !.has_border = TRUE, !.border = Fancy, !.padding_right = 1],
   [Plain EXCEPT !.height = 0], [Plain EXCEPT !.inline_ = TRUE]}

AllBoxes == {<<2, 1>>, <<6, 4>>}
AllEdges ==
  {[pattern |-> << <<"line">> >>, title |-> <<"W", "w">>, align |-> "middle",
    title_pad_left |-> 1, title_pad_right |-> 0],
   [pattern |-> << <<"line">>, <<"bar", "bar">> >>, title |-> <<>>, align |-> "start",
    title_pad_left |-> 0, title_pad_right |-> 0]}

\* Texts of no, one, two and four columns, on terminals that hold all, some
\* and none of their combinations.
AllMessages == {<<>>, <<"m">>, <<"W", "w">>, <<"a", "b", "c", "d">>}

-----------------------------------------------------------------------------

VARIABLE used   \* the part that is used

parts == <<termVars, dbVars, eoVars, layoutVars, sbVars, tvVars>>

OutputInit ==
  /\ used \in {"modes", "buffer", "escape", "layout", "status", "text"}
  /\ TMInit /\ EOInit /\ SBInit /\ TVInit
  /\ DBInit     /\ (used # "buffer" => size = MIN_BUFFER_SIZE)
  /\ LayoutInit /\ (used # "layout" => block = << <<>> >>)

OutputNext ==
  /\ UNCHANGED used
  /\ \/ /\ used = "modes" /\ TMNext
        /\ UNCHANGED <<dbVars, eoVars, layoutVars, sbVars, tvVars>>
     \/ /\ used = "buffer" /\ DBNext
        /\ UNCHANGED <<termVars, eoVars, layoutVars, sbVars, tvVars>>
     \/ /\ used = "escape" /\ EONext
        /\ UNCHANGED <<termVars, dbVars, layoutVars, sbVars, tvVars>>
     \/ /\ used = "layout" /\ LayoutNext
        /\ UNCHANGED <<termVars, dbVars, eoVars, sbVars, tvVars>>
     \/ /\ used = "status" /\ SBNext
        /\ UNCHANGED <<termVars, dbVars, eoVars, layoutVars, tvVars>>
     \/ /\ used = "text" /\ TVNext
        /\ UNCHANGED <<termVars, dbVars, eoVars, layoutVars, sbVars>>

OutputSpec == OutputInit /\ [][OutputNext]_<<used, parts>>
=============================================================================
