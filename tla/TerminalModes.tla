---------------------------- MODULE TerminalModes ----------------------------
(***************************************************************************)
(* The terminal-mode half of runtime.c: tui_runtime_start, _flush and      *)
(* _stop, which keep the terminal in the modes that the component's last   *)
(* TuiView declares by writing only the toggles that differ from what the  *)
(* runtime believes the terminal to be in.                                 *)
(*                                                                         *)
(* `term' is the terminal itself, as the bytes written have left it; the   *)
(* other variables are the runtime's record of it.                         *)
(***************************************************************************)
EXTENDS Integers

CONSTANTS
  Views,              \* the TuiViews the component may return
  NoFrame,            \* stands for "nothing flushed"
  Titles,             \* window titles
  NoTitle,            \* a NULL window_title, which leaves the title alone
  ParentKbdDepth,     \* kitty-keyboard pushes made before the program began
  KbdStackPerScreen   \* does each screen have its own kitty stack?

MouseModes == {"none", "cell", "all"}
Screens == {"main", "alt"}

View == [alt_screen : BOOLEAN, mouse_mode : MouseModes, kitty : BOOLEAN,
         report_focus : BOOLEAN, bracketed_paste : BOOLEAN,
         window_title : Titles \cup {NoTitle}, cursor : BOOLEAN]

Terminal == [alt_screen : BOOLEAN, mouse : BOOLEAN, kbd : [Screens -> Nat],
             report_focus : BOOLEAN, bracketed_paste : BOOLEAN,
             window_title : Titles \cup {NoTitle}, cursor : BOOLEAN]

ASSUME TerminalAssumption ==
  /\ Views \subseteq View
  /\ NoFrame \notin View
  /\ ParentKbdDepth \in Nat
  /\ KbdStackPerScreen \in BOOLEAN

VARIABLES
  started,
  in_alt_screen, cur_mouse_mode, cur_kitty, cur_bracketed_paste,
  term,
  frame     \* the last view flushed, NoFrame before the first and after a stop

modeVars == <<in_alt_screen, cur_mouse_mode, cur_kitty, cur_bracketed_paste>>
termVars == <<started, modeVars, term, frame>>

----------------------------------------------------------------------------
(* The terminal: what the escape sequences do to it                        *)

FreshTerminal ==
  [alt_screen |-> FALSE, mouse |-> FALSE,
   kbd |-> [s \in Screens |-> IF s = "main" THEN ParentKbdDepth ELSE 0],
   report_focus |-> FALSE, bracketed_paste |-> FALSE,
   window_title |-> NoTitle, cursor |-> TRUE]

\* As the program found it; a title it has set stays.
Restored(t) == \A field \in DOMAIN FreshTerminal \ {"window_title"} :
                 t[field] = FreshTerminal[field]

\* The stack that CSI > 1 u pushes to and CSI < u pops.
KbdScreen(t) == IF KbdStackPerScreen /\ t.alt_screen THEN "alt" ELSE "main"

PushKitty(t) == [t EXCEPT !.kbd[KbdScreen(t)] = @ + 1]
PopKitty(t)  == [t EXCEPT !.kbd[KbdScreen(t)] = IF @ = 0 THEN 0 ELSE @ - 1]

\* How many of the pushes on the current screen are this program's.
OwnKbdDepth(t) == t.kbd[KbdScreen(t)] - FreshTerminal.kbd[KbdScreen(t)]

----------------------------------------------------------------------------

TMInit ==
  /\ started = FALSE
  /\ in_alt_screen = FALSE
  /\ cur_mouse_mode = "none"
  /\ cur_kitty = FALSE
  /\ cur_bracketed_paste = FALSE
  /\ term = FreshTerminal
  /\ frame = NoFrame

\* tui_runtime_start only saves the cursor position; the modes are left to
\* the first flush.
Start ==
  /\ ~started
  /\ started' = TRUE
  /\ UNCHANGED <<modeVars, term, frame>>

\* Mutant of ToggleKitty: the mode is pushed again by every frame that wants it.
PushKittyAgain(t, want) ==
  IF want THEN PushKitty(t) ELSE IF cur_kitty THEN PopKitty(t) ELSE t

\* The kitty toggle of a flush, after the alternate-screen toggle.
ToggleKitty(t, want) ==
  IF want = cur_kitty THEN t ELSE IF want THEN PushKitty(t) ELSE PopKitty(t)

\* Mutant of Flush: the record of mouse tracking is not kept.
FlushForgetsMouse(v) ==
  /\ in_alt_screen' = v.alt_screen
  /\ cur_mouse_mode' = cur_mouse_mode
  /\ cur_kitty' = v.kitty
  /\ cur_bracketed_paste' = v.bracketed_paste
  /\ term' = ToggleKitty(
       [term EXCEPT
          !.alt_screen = IF v.alt_screen # in_alt_screen THEN v.alt_screen ELSE @,
          !.mouse = IF v.mouse_mode # cur_mouse_mode
                    THEN v.mouse_mode # "none" ELSE @,
          !.bracketed_paste = IF v.bracketed_paste # cur_bracketed_paste
                              THEN v.bracketed_paste ELSE @,
          !.window_title = IF v.window_title # NoTitle THEN v.window_title ELSE @,
          !.cursor = v.cursor], v.kitty)
  /\ frame' = v
  /\ UNCHANGED started

\* tui_runtime_flush of view v.  It does not look at `started', and it writes
\* nothing for v.report_focus.
Flush(v) ==
  /\ in_alt_screen' = v.alt_screen
  /\ cur_mouse_mode' = v.mouse_mode
  /\ cur_kitty' = v.kitty
  /\ cur_bracketed_paste' = v.bracketed_paste
  /\ term' = ToggleKitty(
       [term EXCEPT
          !.alt_screen = IF v.alt_screen # in_alt_screen THEN v.alt_screen ELSE @,
          !.mouse = IF v.mouse_mode # cur_mouse_mode
                    THEN v.mouse_mode # "none" ELSE @,
          !.bracketed_paste = IF v.bracketed_paste # cur_bracketed_paste
                              THEN v.bracketed_paste ELSE @,
          !.window_title = IF v.window_title # NoTitle THEN v.window_title ELSE @,
          !.cursor = v.cursor], v.kitty)
  /\ frame' = v
  /\ UNCHANGED started

\* tui_runtime_stop, of a runtime that has started: the kitty stack is popped
\* before the alternate screen is left.
StopStarted ==
  /\ started
  /\ started' = FALSE
  /\ in_alt_screen' = FALSE
  /\ cur_mouse_mode' = "none"
  /\ cur_kitty' = FALSE
  /\ cur_bracketed_paste' = FALSE
  /\ term' = [(IF cur_kitty THEN PopKitty(term) ELSE term) EXCEPT
                !.alt_screen = IF in_alt_screen THEN FALSE ELSE @,
                !.mouse = IF cur_mouse_mode # "none" THEN FALSE ELSE @,
                !.bracketed_paste = IF cur_bracketed_paste THEN FALSE ELSE @,
                !.cursor = TRUE]
  /\ frame' = NoFrame

\* tui_runtime_stop in general: nothing happens twice.
Stop == StopStarted \/ (~started /\ UNCHANGED termVars)

TMNext == Start \/ StopStarted \/ \E v \in Views : Flush(v)

TMSpec == TMInit /\ [][TMNext]_termVars

----------------------------------------------------------------------------
(* Properties                                                              *)

\* Types; the terminal's keyboard stacks never go below empty.
TMTypeOK ==
  /\ started \in BOOLEAN
  /\ in_alt_screen \in BOOLEAN
  /\ cur_mouse_mode \in MouseModes
  /\ cur_kitty \in BOOLEAN
  /\ cur_bracketed_paste \in BOOLEAN
  /\ term \in Terminal
  /\ frame \in Views \cup {NoFrame}

\* The runtime's record of the terminal is right: toggles are never doubled
\* (a second kitty push would survive the pop) and never forgotten.
RecordMatchesTerminal ==
  /\ in_alt_screen = term.alt_screen
  /\ (cur_mouse_mode # "none") = term.mouse
  /\ cur_bracketed_paste = term.bracketed_paste
  /\ OwnKbdDepth(term) = (IF cur_kitty THEN 1 ELSE 0)

\* Stopping leaves the terminal exactly as the program found it, including
\* the keyboard modes its parent had pushed, whatever frames were shown.
StopRestoresTerminal ==
  [][started /\ ~started' => Restored(term')]_termVars

\* The terminal is in the modes that the last frame declares, and in the
\* modes the program found it in when there is no frame: toggles cancel out
\* however the views change from one flush to the next.
ModesFollowFrame ==
  IF frame = NoFrame THEN Restored(term)
  ELSE /\ term.alt_screen = frame.alt_screen
       /\ term.mouse = (frame.mouse_mode # "none")
       /\ term.bracketed_paste = frame.bracketed_paste
       /\ term.cursor = frame.cursor
       /\ frame.window_title # NoTitle => term.window_title = frame.window_title
       /\ OwnKbdDepth(term) = (IF frame.kitty THEN 1 ELSE 0)

\* What a flush relies on to write only the differences, and what it brings
\* about.
ModesConsistent == TMTypeOK /\ RecordMatchesTerminal /\ ModesFollowFrame
============================================================================
