----------------------------- MODULE MCTextInput -----------------------------
(* Instances of TextInput and InputWindow for TLC.  "e" stands for a two-byte *)
(* character.                                                                 *)
EXTENDS InputWindow

a == <<"a">>
b == <<"b">>
aa == a \o a
blank == <<" ">>
e == <<"lead", "cont">>

Marker == [len |-> 1, columns |-> 1]

Nothing == [runes |-> {a}, keys |-> {}, calls |-> {}, lines |-> {},
            words |-> {}, wordChars |-> {}, historySizes |-> {}, multiline |-> FALSE,
            maxText |-> 3, maxKill |-> 3, maxUndo |-> 2,
            widths |-> {}, prompts |-> {NoPrompt}]

\* Editing and undo, with multi-byte characters and no mark.
Editing ==
  [Nothing EXCEPT
     !.runes = {a, e}, !.maxText = 4, !.maxKill = 4,
     !.keys = {"C-y", "backspace", "C-d", "C-t", "C-k", "C-u", "C-w", "C-x",
               "left", "right", "C-left", "home"},
     !.calls = {"set_text"}, !.lines = {a \o blank \o e}]

\* Words made of other characters, with multi-byte ones between them.
Wording ==
  [Nothing EXCEPT
     !.runes = {a, e, blank}, !.maxText = 4,
     !.keys = {"C-left", "C-right", "C-w", "tab"},
     !.calls = {"insert_completion"}, !.words = {a},
     !.wordChars = {NoWordChars, {"a", "b"}, {}}]

\* The mark and the region.
Marking ==
  [Nothing EXCEPT
     !.runes = {a}, !.maxUndo = 1,
     !.keys = {"C-SPC", "C-g", "M-w", "C-w", "C-u", "C-d", "C-t", "C-right",
               "left", "C-_"},
     !.calls = {"set_text", "set_cursor"},
     !.lines = {a \o blank \o b}]

\* Several lines, Tab and its completion.
Multilining ==
  [Nothing EXCEPT
     !.runes = {a, b}, !.multiline = TRUE,
     !.keys = {"newline", "up", "down", "home", "end", "C-d", "C-k", "C-t",
               "left", "C-right", "tab", "C-u"},
     !.calls = {"insert_completion", "set_text", "set_cursor"},
     !.lines = {a, a \o b, b}, !.words = {a \o b}]

\* History, submission and undo.
Browsing ==
  [Nothing EXCEPT
     !.runes = {a, b}, !.maxText = 2, !.maxKill = 2,
     !.keys = {"up", "down", "enter", "backspace", "C-_", "C-u"},
     !.calls = {"history_add", "set_history_size", "set_focus"},
     !.lines = {a, a \o b, b}, !.historySizes = {0, 2}]

\* A single line that scrolls under edits, motion and undo,
Narrow ==
  [Nothing EXCEPT
     !.runes = {a, e},
     !.keys = {"left", "right", "home", "C-left", "C-right", "backspace", "C-d",
               "C-k", "C-u", "C-t", "C-_", "enter"},
     !.calls = {"set_text", "set_show_prompt"},
     !.lines = {aa \o e \o a}, !.maxText = 5, !.maxKill = 1, !.maxUndo = 1,
     !.widths = {3, 5}, !.prompts = {NoPrompt, Marker}]

\* and one that is browsed into.
NarrowBrowsing ==
  [Nothing EXCEPT
     !.keys = {"left", "up", "down", "C-d"},
     !.calls = {"history_add", "set_history_size", "set_prompt"},
     !.lines = {aa \o aa \o a, aa \o e \o a}, !.historySizes = {2},
     !.maxText = 5, !.maxKill = 4, !.maxUndo = 1,
     !.widths = {3, 5}, !.prompts = {NoPrompt, Marker}]

\* Several lines of different lengths, each with its prompt.
NarrowLines ==
  [Nothing EXCEPT
     !.multiline = TRUE,
     !.keys = {"newline", "up", "down", "left", "end", "C-d", "C-k",
               "backspace"},
     !.calls = {"set_text", "set_cursor", "set_continuation_prompt"},
     !.lines = {aa \o aa \o <<"nl">> \o a, <<>>},
     !.maxText = 6, !.maxKill = 2, !.maxUndo = 1,
     !.widths = {3, 5}, !.prompts = {NoPrompt, Marker}]

\* The mark and undo together.
UndoWithMark ==
  [Nothing EXCEPT !.keys = {"C-SPC", "C-x", "C-u"}, !.maxUndo = 3]

EveryUse == {Editing, Wording, Marking, Multilining, Browsing,
             Narrow, NarrowBrowsing, NarrowLines}
MarkUse  == {UndoWithMark}

\* All of them are uses of which TextInputProofs proves that characters stay
\* whole.
ASSUME EveryUseIsWhole == \A u \in EveryUse : WholeUse(u)
=============================================================================
