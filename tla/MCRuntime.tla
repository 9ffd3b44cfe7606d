------------------------------ MODULE MCRuntime ------------------------------
(* Runtime with a component that switches between two views: a plain inline  *)
(* one and a full-screen one with every mode on.                             *)
EXTENDS Runtime

Plain == [alt_screen |-> FALSE, mouse_mode |-> "none", kitty |-> FALSE,
          report_focus |-> FALSE, bracketed_paste |-> FALSE,
          window_title |-> NoTitle, cursor |-> TRUE]
Full  == [alt_screen |-> TRUE, mouse_mode |-> "cell", kitty |-> TRUE,
          report_focus |-> FALSE, bracketed_paste |-> TRUE,
          window_title |-> NoTitle, cursor |-> FALSE]
PlainAndFull == {Plain, Full}
JustFull == {Full}
============================================================================
