# bloom-boba in TLA+

Specifications of the stateful parts of bloom-boba, a C library for terminal
user interfaces in the Elm style, with model-checking configurations for TLC
and proofs checked by TLAPS. Source locations are written `file.c:line`, for
files below `src/` and `include/bloom-boba/` of the repository.

## The system

An application is a component: `init`, `update(model, msg)`, which may return a
command, and `view(model)`, which returns a `TuiView` (text, cursor, and the
terminal modes it wants). The runtime owns the rest.

| Part | Source | State | Operations | Module |
|---|---|---|---|---|
| event queue | `runtime.c:300-374`, `503-647` | message queue, command queue, self-pipe, `running` | `send`, `post`, `schedule`, `wakeup`, `quit`, `drain` | `EventQueue` (abstract: `Mailbox`; statement level: `AsyncPost`) |
| terminal modes | `runtime.c:379-490` | `started`, the record of the modes the terminal is in | `start`, `flush`, `stop` | `TerminalModes` |
| event loop | `runtime.c:27-97`, `651-817` | signal flags, raw mode, `s_active_runtime`, size | `tui_runtime_run`, signal handlers, atexit handler | `Runtime` |
| commands | `cmd.c`, `runtime.c:231-297` | the tree of a command, who owns it | constructors, `execute_cmd`, `tui_cmd_free` | `Commands` |
| input parser | `input_parser.c` | parser state, sequence and paste buffers, one pending message | `parse`, `feed`, `reset` | `InputParser`, `Doubling` |
| text input | `components/textinput.c` | text, cursor, mark, kill buffer, undo stack, history, word characters; prompts, the scrolled window | keys, setters, view, cursor position | `TextInput`, `InputWindow` |
| viewport | `components/viewport.c` | lines and their rows, window offset, copy mode | `append`, `clear`, setters, scrolling, keys, mouse, view | `Viewport`, `Rows`, `WordScan` |
| unicode | `unicode.c` | none | stepping over characters, counting, widths | inside `TextInput`, `InputWindow`, `Rows` |
| style | `style.c` | none: strings in, strings out | `render`, `place`, joins, border edges, measuring | `Layout` |
| status bar | `components/statusbar.c` | two texts and their widths | setters, view | `StatusBar` |
| text view | `components/textview.c` | a text and its memory | `append`, `clear` | `TextView`, `Doubling` |
| dynamic buffer | `dynamic_buffer.c` | memory, size, length | `append`, `printf`, `ensure_size`, `clear`, `reset` | `DynamicBuffer` (abstract: `ByteBuffer`) |
| escape sequences | `ansi_sequences.c`, `base64.c` | a buffer of the caller | OSC 52, formatters, title | `EscapeOutput` |
| messages | `msg.c` | none | constructors | not modelled |

How they meet:

- `tui_runtime_run` reads stdin, gives the bytes to the parser, and each message
  to `update()` through `tui_runtime_send`, which executes the command that
  `update()` returns; a flush then paints the view and reconciles the modes.
- `update()` and the callbacks of the configuration call back into the runtime:
  they post, schedule, quit, or even `exit()`. This is the re-entrancy that
  makes the drain and the loop hard: whatever they queue arrives in the middle
  of a walk over a snapshot.
- Signals set flags, and other threads write one byte into the self-pipe.
- The components (text input, viewport, text view, status bar) are driven by
  `update()` with messages and by the application with setters, in any order.
- Every `view()` appends to a dynamic buffer; the application wraps what views
  return with the functions of `style.c`, one call on the result of another.
- The runtime formats titles and clipboard contents into buffers of fixed or
  computed size.

What is hard about it, and what makes each part correct:

- *event queue*: re-entrant posts during a drain, a full pipe, allocations that
  fail in the middle, quitting half-way. Correct when nothing is lost, doubled
  or reordered, commands come before the messages posted after them, and the
  pipe is readable while work waits.
- *terminal modes*: only differences from a record are written. Correct when
  the record matches the terminal, the terminal matches the last view, and a
  stop gives it back.
- *event loop*: signals at every point, six ways out. Correct when every way
  out restores the terminal, no change that the loop made to the model is
  unseen when it blocks, and quits, posts and signals are served.
- *commands*: trees of commands freed by several parties. Correct when each is
  executed at most once, in order, and freed once.
- *input parser*: bytes arrive in arbitrary pieces, and the memory of a paste
  may fail to grow. Correct when pieces do not matter to a paste, nothing but
  what a failed growth was for is missing from it, and the output array
  suffices.
- *text input*: offsets (cursor, mark, snapshots, history position) into a text
  that many keys replace, and a window that is scrolled by some keys and
  setters and not by others. Correct when they stay valid and mean what they
  meant, and when the cursor is in what is drawn, at the column that is
  reported.
- *viewport*: cached row counts and an offset over content that grows, is
  trimmed and re-wrapped; the same rows are counted, drawn, highlighted and
  copied by different code. Correct when caches are fresh, the reader's place
  is kept, and the four agree.
- *style*: sizes are computed twice, for measuring and for rendering, and calls
  are composed. Correct when both agree and no content is lost.
- *status bar*: cached widths and a padding that may be zero or negative.
- *buffers and escape sequences*: growth that may fail half-way, a terminator
  behind the last byte, sequences that fit exactly. Correct when nothing is
  written outside, failures change nothing, and no sequence is cut.

`PROJECT.json` lists the hazards one by one, at their lines, with the properties
that cover them.

## The modules

### EventQueue, Mailbox, AsyncPost

`EventQueue` has the variables of `TuiRuntime` by their names: `msg_queue` and
`cmd_queue` as sequences with the capacities of their buffers, `wakeup_pipe` as
the number of bytes in the pipe, `running` and `quit_requested`. The locals of
`tui_runtime_drain` are `snap_msgs` and `snap_cmds`. Four counters number the
items, so that order and loss can be stated.

`tui_runtime_drain` is cut where it calls the application. `phase` says where
its thread is:

    idle --DrainBegin--> swap --DrainSwap--> cmds --CmdsDone--> msgs --MsgsDone--> swap
                          |                  |  ^                |  ^
                          DrainEnd -> idle   incmd               inmsg

`Post`, `Schedule` and `Quit` are enabled outside a drain and inside a callback
(`incmd`, `inmsg`), which is where the code can call them. `Grown` is the growth
rule of the buffers, `SwappedCaps` what a swap leaves behind when `malloc`
succeeds or fails. A failed `realloc` in a post drops the message and is a
stuttering step.

`Mailbox` is what `tui_runtime_post` promises: one queue, every message given to
`update()` once and in order, discarded after a quit. `EventQueue` implements it
with `pending` mapped to the snapshot followed by the queue.

`AsyncPost` takes the message half of the swap apart, statement by statement,
and lets a post run between any two, as from a signal handler. It exists because
the README invites such posts; `EventQueue` treats the swap as one step, which
is right for posts from the loop's own thread.

### TerminalModes

`term` is the terminal (screen, mouse, kitty keyboard stacks, bracketed paste,
title, cursor); `in_alt_screen`, `cur_mouse_mode`, `cur_kitty` and
`cur_bracketed_paste` are the runtime's record of it. `Flush(v)` is
`tui_runtime_flush` of a view, `StopStarted` is `tui_runtime_stop`.
`ParentKbdDepth` is the number of kitty pushes made before the program began.
`KbdStackPerScreen` says whether the main and the alternate screen have a stack
each: the code relies on one stack (see *Divergences without a run*).

### Runtime

Extends both modules on the same variables and adds the loop. `pc` follows
`tui_runtime_run` from statement to statement where anything can happen in
between; the application calls in at `AppPoints`. The environment resizes the
window, sends SIGINT, makes stdin and the external descriptor readable, closes
stdin, and wakes the loop from other threads, at any point. System calls may
fail. `interrupted` is a signal that reached a blocked `select()`.
`UsesItsParts` states that the loop's steps are steps of the two component
specifications: what is proved of those holds inside the loop.

The callbacks may change the model, themselves or through `tui_runtime_send`
(`AppChangesModel`). `unseen` remembers what no frame has shown yet: a change is
"due" where a flush follows in the code, and "late" in `get_external_fd`,
`get_tick_timeout_ms`, `on_external_ready` and `on_tick` (`Unflushed`), behind
which there is none before the next `select()`. Of a `tui_runtime_send` from a
callback only the change of the model and a quit are modelled, not the command
it runs. A second runtime in the same process is left out, and so is a SIGINT
while the runtime's handlers are not installed, which ends the process.

### Commands

Commands are numbered as they are allocated. `place` is who holds the pointer
(the application, a batch, the runtime, the application's `cmd_handler`), `frees`
counts calls of `free`. `stack` holds the activations of `execute_cmd`, which
recurses through batches and through the command that `update()` returns for the
message of a custom command. A batch has any number of children (`Children`); a
NULL among them is left out, as `execute_cmd` answers 1 to it and the loop of the
batch goes on as it would without it.

### InputParser

One `ParseBegin` is one call of `tui_input_parser_parse`; each `Feed(byte)` is
one call of `tui_input_parser_feed`. Bytes are classes. `fed` is what the
terminal has sent since the paste began, and `lost` what the full output array
left unread. The end marker and the start sequence are constants, so that a
whole paste fits into the bounds. `paste_buf` grows as in the code: `Appended`
gives what `paste_buf_append` may leave, the longer text in memory that was
doubled as often as needed (`Doubling`), or, when `realloc` fails, the text as
it was; `missing`, a ghost, counts the bytes that are dropped then. An empty
paste whose only `realloc` fails is given out with a NULL text of length 0, in
the model as an empty text.

### TextInput

One action per key of `tui_textinput_update` and per setter that touches the
editing state. A text is a sequence of byte classes; `lead` and `cont` make a
two-byte character, `lead3` begins a wide one. `Commit` is `undo_commit`: the
snapshot taken before the key is the unprimed state. A step whose region reaches
beyond the text is undefined in C and has no outcome in the model; `MarkInText`
shows that such regions arise. `word_chars` is the set of bytes of which words
are made, as `strchr` compares them, and `NoWordChars` the NULL that stands for
everything but blanks. A use (`Uses`) fixes which keys and setters an
application's user reaches for, so that each group of keys that share state is
explored in every order.

### InputWindow

Extends `TextInput` with what is shown: `offset` and `offset_right` (the window
into the cursor's line, in characters), `terminal_width` and the prompts, whose
length in characters is kept next to their display width. A step is a step of
`TextInput` together with what the same handler does to the window: those that
call `recalculate_cursor_position` choose it with `Overflow`
(`handle_overflow`), `tui_textinput_clear` resets it, and C-d, C-k and the
history setters keep it. `Drawn` is `get_line_render_range`, `CursorColumn` is
`tui_textinput_cursor_pos`. `stale` is a ghost: the window was chosen for other
prompts, or the width has grown or shrunk around it, and no key has scrolled
since.

### Rows, WordScan

`Rows` holds the operators on one line: a line is a sequence of cells (letter,
blank, wide character, combining accent, tab, escape sequences that set or reset
attributes); a row is drawn from the cell where it starts for as many columns as
the window has. `WordStart` and `ColumnStart` say where rows start under the two
ways of wrapping, `Drawn` what a row draws, `Carried` which attributes are in
force when it starts, within `SgrCap`. They are recursive functions on the
numbers of rows and cells.

`WordScan` is the loop of `scan_word_wrapped_lines` as it runs, one turn a step,
with the row starts it records. It is compared with `WordStart`, so that the
viewport may use the function. `MCViewport` runs it beside the viewport: a
behavior either uses a viewport or follows one search.

### Viewport

A line is its cells and its cached number of rows; `y_offset`,
`total_visual_lines`, the copy-mode cursor and mark are as in the code. One
action per setter, scroll, key and mouse event. `Shown`, `DrawnAt`, `ReversedAt`
are what the view puts into each row of the window (`tui_viewport_view`,
`render_line_segment`, `compute_row_selection`, `emit_cols`); `Copied` is
`tui_viewport_extract_selection`. `trimmed` and `left_bottom` are ghosts.
Allocations succeed in `Extended`: in the code `tui_viewport_append` ignores
that `add_line` or `append_to_last_line` fails (`viewport.c:217-274`, `590`,
`594`, `604`), and the segment concerned is lost or goes to the line before; the
row counts stay those of the lines that are there.

`TerminalModes`, `Layout`, `StatusBar`, `TextView`, `DynamicBuffer` and
`EscapeOutput` share no state with one another; `MCOutput` instantiates them side
by side, each behavior using one of them while the others rest (`used`).

### Layout

A block is what a string shows: a sequence of rows of columns. `Render`,
`Place`, `JoinHorizontal`, `JoinVertical` and `Edge` are the functions of
`style.c` in the order of their code; each action applies one to the block the
last call gave, or to a text. The eight strings of a border are rows of any
width, also of none (`TuiBorder` is public). `made` is a ghost that records what
the call promised: the size measured before, whether the content fitted in
columns (`fits`) and in rows (`whole`), the blocks given. A call of render is
"ornate" when a string of its border is not one column wide. `NextFrame` starts
over from another text.

### StatusBar, TextView

One action per setter, with both outcomes of each allocation. `Row` is
`tui_statusbar_view`. Of the text view only lengths matter: `content_len`, the
capacity on record and, as a ghost, the memory really allocated; its view copies
all of the text.

### ByteBuffer, DynamicBuffer

`DynamicBuffer` has the struct by its names and the memory byte by byte, with
`Junk` for what was never written. `ensure_size` is taken apart: `growing` says
who called it, each doubling is a step, and then `realloc` succeeds or fails.
`torn` is a ghost for a `printf` that did not fit and could not grow, which
leaves a cut text behind `len` without a terminator at `len`. `ByteBuffer` is
what the header promises; `DynamicBuffer` implements it with the text mapped to
the first `len` bytes.

### EscapeOutput

`ansi_format_osc52` with the loop of the base64 encoder group by group, and one
action per `snprintf` formatter. A byte is a token that names its kind; base64
digits have their values. The sequences of formatters are as long as the number
of digits makes them.

## Runs

All bounds are in the `.cfg` and `MC*` modules. `EventQueue`, `Output`,
`TextInput` and `InputParser` check for deadlock. The others really stop:
`Runtime`, `RuntimeLive` and `Commands` with a process that exits or a program
that has made all its commands, `Viewport` with a search for word breaks that
has returned, and the runs that end in a trace with their last call.

| Run | Shows | Bounds, and why they are enough |
|---|---|---|
| `EventQueue` | capacity, wakeups, commands before messages, the refinement of `Mailbox`, delivery and execution | 4 messages and 3 commands over buffers of 1 and a pipe of 2: two growths of a buffer, a full pipe, a post in each of two consecutive drains, each with failing allocations |
| `Output` | *modes*: record, modes of the last frame, restoration | every view that can be declared; finite without bounds |
| | *buffer*: memory, terminator, the promise of `ByteBuffer` | memory of 2 bytes, texts of up to 4, 6 bytes in all: up to two doublings at once, each realloc failing or not, a printf that just fits and just does not |
| | *escape sequences*: inside the buffer, nothing refused that fits, decodes to the text | texts of up to 4 bytes (a group and each rest) with bytes 0, 90 and 255, sizes around every bound, up to 5 digits |
| | *layout*: measured is rendered, blocks come out even, content that fits is kept | seven styles (each side of padding and margin, borders of one column, a border with strings of none, two and three columns, sizes set too small and too large, inline), two boxes, three calls: every function on the result of every two others |
| | *status bar*: one line with both texts whole, at their ends, when there is room for them | texts of 0, 1, 2 and 4 columns in 1 to 80: room to spare, exactly enough, none |
| | *text view*: inside the memory | memory of 2, texts of 1 and 3 bytes, 9 in all: one doubling and two |
| `Runtime` | loop invariants, changes of the model shown, terminal handed back, use of both components | two views (nothing on, everything on), one post, one schedule, one resize, one chunk of input and of the external descriptor, two runs: every pair of events meets at every point of an iteration |
| `RuntimeLive` | quits, posts and signals are served | the same loop with one view, two posts, with and without a timeout |
| `Commands` | ownership, order, leaks, unwinding | five commands in batches of two: a batch of a batch, and a custom command that leads to a batch; four commands in batches of none to three |
| `TextInput` | validity of offsets, undo and history, kills; the window holds the cursor, lines fit, the terminal cursor stands on its character | eight ways of use, each a group of keys that share state: five of an input without a width (one of them sets word characters, with characters of several bytes around) with texts of 2 to 4 bytes and up to two undo levels, three of inputs of 3 and 5 columns with and without a prompt of one and texts of up to 6 bytes (one line, history, several lines): windows of 2 to 5 characters that scroll both ways |
| `InputParser` | pastes, brackets, the memory of a paste, the output array | a marker of 4 bytes, 6 bytes per paste: a broken match that restarts, at every split into reads of 1 to 3; memory of 2 bytes first, so that it is doubled up to twice, each realloc failing or not |
| `Viewport` | caches, the reader's place, following, copy mode; no character lost between rows, colors continue; highlighted is copied | six ways of use: windows of 1 to 3 columns and 1 or 2 rows over up to 4 lines, trims and limits; every line of up to 4 cells of five kinds under each way of wrapping: words that fit, that do not, and that fall back; two lines of 5 cells with colors for the selections |
| | the search for word breaks finds the rows, fits and ascends, and returns | every line of up to 6 cells in 2, 4 and 5 columns: the threshold for a word break is reached and missed; three starts recorded of more rows |
| `RuntimeSigintLost`, `CommandsDoubleFree`, `AsyncPostSignal`, `TextInputUndoMark` | a trace, see *What the checks found* | the smallest instance that shows it |

Every property of a passing run has a mutant: the definition named under
"mutants" is replaced by a variant with a plausible bug, defined next to it with
a comment "Mutant of", and the property then fails.

### Fairness

- `EQFairSpec`: weak fairness of the steps of a drain (the thread goes on, the
  callbacks return) and of beginning a drain while the pipe is readable (the
  owner of the loop drains when `tui_runtime_wakeup_fd` is readable, as the
  header asks it to).
- `RTFairSpec`: weak fairness of `Loop`, the steps the thread owes. The thread
  is scheduled, callbacks return, and `select()` returns when a descriptor is
  readable, its timeout is over or a signal has interrupted it: `SelectReturns`
  and `SelectInterrupted` are enabled only then, and a loop that blocks without
  any of these may block for ever. That `select()` fails (`SelectFails`) is a
  step of its own outside `Loop`: it may happen and is never owed. No fairness
  of the environment is assumed: input, signals and posts may never come.

What wakes the loop is therefore the work it waits for. `PostReachesUpdate`
rests on the byte that a post leaves in the pipe. `QuitReturns` cannot rest on
one, since a quit writes none: with a timeout it is stated of every quit, and
without one of the quits made where the loop still tests `running` before it
blocks (`PastTheTest` names the places where it does not, see *Divergences
without a run*).

- `ScanSpec` (and with it `BothSpec` of `MCViewport`), for `Returns`: weak
  fairness of the steps of the search for word breaks. There is one thread, and
  the loop runs until it is done.

Deliveries are bounded by the number of posts; an `update()` that posts for every
message keeps a drain going for ever, in the model as in the code.

## Proofs

The theorems hold for every value of the constants that the modules' assumptions
allow; those that ask for more say so, and the reason is given here.

| Module | Proves about |
|---|---|
| `RuntimeProofs` | `EventQueue`, `Mailbox`, `TerminalModes`, `Runtime` |
| `InputParserProofs` | `InputParser` |
| `CommandsProofs` | `Commands` |
| `BufferProofs` | `DynamicBuffer`, `ByteBuffer`, `TextView`, `EscapeOutput` |
| `LayoutProofs` | `Layout`, `StatusBar` |
| `ViewportProofs` | `Rows`, `Viewport`, `WordScan` |
| `TextInputProofs` | `TextInput`, `InputWindow` |
| `Induction` | the natural numbers, for the others |

**Induction.** The library's induction theorems take an operator as a parameter,
which the installed provers cannot instantiate. `WFMin` does not: from the
well-foundedness of `<` it gives every non-empty set of naturals a least element
(`LeastNatural`), and induction follows for sets (`Inductive`,
`InductiveFromAll`). A recursive function is by definition the `CHOOSE` of a
function that satisfies its equation, so an induction that exhibits one gives
the equation (`RecursionUpTo`, `SumsExist`, `TreesExist`, `SolvesAll`). This is
how what is counted, stacked, tiled, doubled or nested to any depth is proved
about.

**Event queue.** The invariant of `QueueInvariant` is the conjunction of types,
capacities, the order of messages and of commands, the wakeup, and how `phase`
restricts the snapshots. It is needed because none of the properties is
inductive alone: `QueuesConsistent` after a swap needs the capacities to be
naturals and the queue to be empty; `CommandsBeforeMessages` needs to know that
all the commands scheduled when a message was posted have numbers up to `after`,
and that those still waiting have larger numbers than `executed`; `NoLostWakeup`
needs to hold for the whole drain, since the pipe is emptied at its beginning
and the queues only at its end. The theorems `QueuesWithinCapacity`,
`QueuesInOrder`, `WakeupNeverLost`, `CommandsComeFirst` and `DeliveryInOrder`
follow from it, and `QueueImplementsMailbox` shows step by step that the two
buffers implement the abstract mailbox: a swap is a stuttering step because the
concatenation of snapshot and queue does not change.

**Terminal modes.** The checked properties speak of the keyboard stack of the
current screen and of the terminal after a stop; neither survives a switch of
screens by itself. `ModesInvariant` proves a stronger pair: the record matches
the terminal field by field, with both stacks (`RecordByField`), and the record
is what the last frame declares, or all off without one (`RecordFollowsFrame`).
`ModesAreRight` and `StopAlwaysRestores` follow: undoing what the record says
undoes what the terminal is in. They assume `~KbdStackPerScreen`: with a kitty
stack per screen the statements are false.

**Event loop.** `LoopUsesItsParts` shows each step of the loop to be a step or a
stutter of both components, so their theorems hold inside it
(`PartsKeepTheirPromises`: capacities, order, wakeups, commands first, the
Mailbox, the modes). `LoopInv` says by control point whether the terminal is
started, the runtime active, the handlers installed, raw mode on, a drain under
way, and no change of the model due to be shown. `TerminalHandedBack` needs it
at the points that are still running: that `active` holds at "start" already,
before anything is started, is what makes an `exit()` from a callback find a
runtime to stop. `LoopStaysConsistent` joins it with `NoLostWakeup` of the queue
and states what a run sets up and takes down together (`SetUpTogether`).
`FrameStaysFresh` is about the changes that a flush follows;
`TerminalIsHandedBack` assumes `~KbdStackPerScreen`.

**Input parser.** `ParserInv` adds to what is checked that the bytes held back
are the longest end of the paste that may become the marker (`MatchIsLongest`):
the parser keeps one candidate and restarts from the first byte only, which is
right for markers whose first byte does not occur in them again
(`MarkerAssumption`, true of `ESC [ 2 0 1 ~`). It carries `missing` through the
flush of the bytes held back, which takes two appends that may fail one by one,
so that `PayloadsAreExact` can say how much a payload lacks: nothing without a
failed `realloc`. That the doubling makes room is `DoubledHolds`.
`MessagesArePaidFor` and `LongArrayKeepsUp` count messages against bytes, which
bounds what a full array loses.

**Commands.** `CommandsInv` follows the tree: each child has one parent, the
children of an idle batch wait, those of a running one are over up to the one
that runs (`KidsRunning`), and activations hold what the runtime owns, each
command once. `CommandsAreOwned` states the owners (`OneOwner`) of all commands,
children of batches included, and the number of their frees (`SingleFree`) of
those outside batches only: the others are freed twice, see below. `Waiting`
needs to say that of the commands that are not batches only custom ones wait for
a result. `Tree` is a recursive function whose equation is proved from the order
of allocation.

**Dynamic buffer and text view.** `BufferInv` adds to types, room and terminator
what a growth in progress owes its caller (`GrowthOwed`): the size asked for is
that of the text that waits and its terminator, so that what is written after a
successful `realloc` fits. `EndsAtLen` is inductive only together with it, and
with `torn`. `BufferStaysConsistent` adds that the memory always holds a string
(`StringEnds`), whose end `WrittenEnds` names for each way of writing, a cut
`printf` included. `BufferImplementsText` shows each step to be a step of
`ByteBuffer` or a stutter: growth copies the first `len` bytes, a reset shrinks
only what is then forgotten. For the text view, as for pastes, `DoubledHolds`
solves the doubling loop.

**Escape sequences.** `EscapeInv` keeps, during the groups, that their number is
a natural `g` with three bytes read and four written each, so that at the end
the bytes written are what the length computed beforehand says, for every length
modulo three. `BufferAlwaysSuffices` follows. `WrittenInv` adds what is written:
every byte in the `h`-th group of four is the digit that the `h`-th group of
three bytes has there, or a pad (`DigitOf`, where missing bytes count as zeros,
so that the last group is no exception). `Decodes` then reads the text back bit
by bit, from the bits of the four digits of any three bytes (`BitsOfGroup`).
`SequencesAreWhole` follows for every text and size; what it says of the
formatters assumes rows and columns of at most five digits, which is as many as
the size of a terminal has (`unsigned short`), and is false for ten.

**Layout and status bar.** The lemmas follow the code's pieces (padding a row,
stacking, borders, margins, pieces of a join, the repetition of a border
pattern) and add up their lengths. `RenderHasHeight`, `RenderHasWidth`,
`PlaceFillsBox` are about sizes, and `RenderKeepsRows`, `PlaceKeepsRows`,
`VerticalKeepsRows`, `HorizontalKeepsRows` about content, for every style and
number of blocks. Heights are right for every border and content; widths only
where every string of the border is one column wide (`OneColumn`) and the
content fits, and a box keeps the content whose rows and columns fit it: what
the code does with the rest is not what its documentation says (see *Divergences
without a run*). (`IsBlock`, which the first two ask for, holds of every
non-empty block: `BlocksAre`.) `RenderKeepsMeasure`, `PlaceKeepsBox`,
`JoinKeepsBlocks` and `DividerKeepsBlock` are the steps of `LayoutInvariant`,
from which `MeasuresAreRight` and `CompositionIsWhole` follow. The status bar
needs only that its cached widths are those of its texts; `StatusBarHoldsBoth`
is about texts there is room for, with a column between them (`HasRoom`).

**Viewport.** Row counts are sums over the lines, and the proofs are about how
the sums change: an append that merges into the last line and trims at the front
(`ExtendedIs`, `EndsOfExtended`, `TrimmedIs`), a new width. `WindowInv` needs
`FollowsBottom`: only what `left_bottom` records takes the window off the
bottom. `CursorStaysShown` is about the motions by rows, `MoveLines`, which
scroll to the cursor; the motions along a row do not, and a cursor that was
outside the window stays there. `AppendsKeepPlace` compares the row at the top
before and after, through `LineInIs` and `LineInOnly`, by which a row belongs to
one line.

`RowsShowEveryLine` needs one fact more, that words are wrapped only in uses
that allow it (`WordsAllowed`), in which every width holds a wide character.
Each row of a line then starts later than the one above (`RowsAdvance`), so
every cell lies between two starts, and a row draws at least up to where the
next one starts (`ScannedCovers`). Without words, `ColumnStartIs` solves the
recursion for lines without wide characters, to which the property is restricted
there, as the code draws a wide character across the edge in no row: row `r`
starts after `r * width` columns, so a cell is drawn in the row its column
divides to. The colors carried into a row are those in force there, for rows
that start with at most `SgrCap` attributes. In clip mode, which cuts lines,
nothing is claimed about which characters are shown.

`HighlightsAreCopied` compares two ways of counting: the drawing walks down from
the top of the window line by line, while copy mode names a row by its place
among all rows. `ShownIs` shows that both mean the same row; that a cell is
highlighted is copied is then arithmetic on `row * width + column`
(`AfterStart`, `BetweenHas`). The theorem has one direction, for lines of
single-column characters, without word wrap, and while the start of the
selection lies within its row; outside of that the code copies other characters
than it highlights.

**Text input.** `InputInv` is the types, the offsets of the line and of every
snapshot, the history without repetitions, the cached row and column, and
`BrowsingShowsEntry`. One lemma per key and call shows what it does to the line;
undo and history are the same lemma for all keys, since `Commit` only pushes the
line as it was. C-k and `delete_at` do not recalculate the cached position and
need not: they leave the bytes in front of the cursor alone (`SamePosition`).
`YankHolds` splits the line at the edges of the kill (`PutBack`).
`BrowsingHolds` rests on its two halves together: an edit ends the browsing, and
what could change the line without an edit, an undo, finds an empty stack.
`WindowKeepsInput` shows each step of the window to be a step of the input, so
that all of this holds for the input with its window.

`InputHolds` is about whole characters. A text is sound when each character has
the continuation bytes it announces; cutting and joining sound texts at
boundaries keeps them sound, and `WholeInv` says that every offset that is used
later is a boundary of its text: the cursor, the mark, the place of a
completion, the cursors of the snapshots. A motion by words goes byte by byte
and stops where the byte before is in a word and the next one is not, or the
other way round; that is a boundary when all bytes of a character are alike to
`is_word_char` (`WordsWhole`, `StartsWord`). It assumes `WholeUse`: what comes
in is whole, and where characters have several bytes, the word characters that
are set are plain ones, and three offsets that outlive their text are not used,
the byte column of Up and Down, a mark after undo, and the place of a completion
after `set_text`. Without that the statement is false (see below for each).
Every use in the runs satisfies `WholeUse`, which TLC evaluates
(`EveryUseIsWhole`). The other theorems about the input hold for all uses.

The window is kept in characters and the cursor in bytes; `CharsSplit`,
`OffsetOfIs` and `OffsetOfCounts` carry one to the other. `ShownInv` says that
the cursor lies in the window and the window fits beside the prompt
(`CursorShown`), unless the window is stale. A motion keeps this because it
scrolls last (`ScrolledHolds`, from the cases of `Overflow`); an edit without a
scroll keeps it because the cursor does not move. `ShownInv` also says that no
text of a single-line input, in whatever buffer, snapshot or history line, holds
a line break (`LinesInv`), since its view draws the text as one line. That is
assumed of what comes in (`InputWindowAssumption`): the keys enter a break only
where `multiline` allows several lines (`textinput.h:52`), and an application
that gives a single-line input a text with breaks leaves the range the code
handles. `WindowHolds` follows for all uses. `CursorFollows` assumes `WholeUse`:
a cursor inside a character is no place where `OffsetOf` stops. It says that the
cursor is on the screen as well as on its character, except where the text
before it just fills a row that is not scrolled (`FillsRow`): there the code
puts it behind the last column.

**Word breaks.** `RowsAdvance` shows that the search goes back to the start of a
word but never to where the row starts. `SearchFindsRows` shows that the loop
finds the rows of the recursive definition by which the viewport counts and
draws: its invariant (`ScanFinds`) relates the word start the loop remembers to
the one that the definition finds from the whole line. Both assume `WideFits`,
that a wide character fits into a row: without it the loop does not end (see
below).

Every invariant and action property that a passing run checks is stated by a
theorem. Only model-checked is liveness (`QueuedIsTaken`, `QuitReturns`,
`PostReachesUpdate`, `TimeoutServesSignals`, `Returns`): the prover has no rules
for `ENABLED`, on which weak fairness rests.

## What the checks found

Four runs end in a trace against a sentence of the documentation (or, for the
double free, against any use of `free`); `PROJECT.json` quotes them.

1. `RuntimeSigintLost`: without a tick timeout a SIGINT between the test of its
   flag and `select()` is not served (`runtime.c:697`, `759`). Writing to the
   self-pipe in the handlers would close the gap.
2. `CommandsDoubleFree`: `execute_cmd` frees the children of a batch, and then the
   batch, which frees them again (`runtime.c:295`, `cmd.c:144`).
3. `AsyncPostSignal`: a post from a signal handler, as `README.md:127` suggests,
   can be lost in the swap of a drain (`runtime.c:604-611`).
4. `TextInputUndoMark`: undo is an edit that keeps the mark (`textinput.c:557`).

### Divergences without a run

The models follow the code in each of these. The properties of the passing runs
are stated around them (the conditions in their definitions say where), or the
bounds leave them out, as noted.

Runtime:

- A resize between the first reading of the size and the installation of the
  handler is not noticed (`runtime.c:658`, `682`; `README.md:619`).
- A quit writes nothing to the self-pipe. Made on a resize by `update()` or
  `on_resize` (`runtime.c:700-714`), or by `get_external_fd` or
  `get_tick_timeout_ms` (`725`, `743`), it comes after the test of `running`,
  and `select()` without a timeout (`759`) then blocks until something else
  happens (`README.md:102`: "Blocks until quit"). `QuitReturns` excludes these
  places.
- What `on_external_ready` (`runtime.c:788`), `on_tick` (`800`),
  `get_external_fd` and `get_tick_timeout_ms` change in the model, by
  `tui_runtime_send` or directly, is not flushed before the loop blocks again,
  unless they post; `README.md:618-620` offers the callbacks as the equivalents
  of subscriptions. `FrameIsFresh` is about the other changes.
- Without a self-pipe the loop never drains its queue (`runtime.c:791`;
  `README.md:140`). The runs have a pipe.
- A title of more than 505 bytes loses its terminator (`runtime.c:475`;
  `ansi_sequences.h:228`).

Text input:

- Up and Down keep a byte column and stop inside a character between lines of
  characters of different lengths (`textinput.c:359`; `README.md:282`). The
  uses with several lines have characters of one length.
- Word characters are compared byte by byte: with characters of several bytes
  in `word_chars`, a motion, a kill or a completion can stop inside a character
  that shares some of their bytes (`textinput.c:15-20`, `1564`;
  `README.md:292`, `306`). The uses set plain ones.
- A line that just fills its row puts the cursor behind the last column of the
  terminal (`textinput.c:80`; `tests/tmux/scroll_multiline.sh:30-33`).
  `CursorFollowsText` excludes it (`FillsRow`).
- The cursor column counts bytes in a multi-line input (`textinput.c:1677`),
  and wide characters as one column, in the text (`textinput.c:1672`) and in
  prompts (`textinput.c:1585`; `README.md:282`, `291`).
- C-d, C-k and a new prompt do not scroll the window (`textinput.c:233`,
  `1580`; `tests/test_textinput.c:765`, `816`).
- A narrower terminal cuts the window and can leave the cursor outside
  (`textinput.c:100`, whose comment says "Cursor in view").
- A backspace at the edge of the window can empty it; an empty window is taken
  for no window, and the whole line is drawn (`textinput.c:99`, `1243`).
- `tui_textinput_set_text` and `tui_textinput_insert_completion` while browsing
  keep the position in the history, which then names another line than the one
  shown (`textinput.c:1390`, `675`).
- A completion after `tui_textinput_set_text` goes to the offset of the old
  text, which may lie inside a character of the new one (`textinput.c:675`).

Viewport:

- In one column, word wrapping does not get past a wide character: an append
  never returns (`viewport.c:153`).
- Rows are drawn past the word break, so that the beginning of the next row is
  shown twice (`viewport.c:514`; `viewport.h:95`).
- A wide character across the edge of a wrapped row is shown on neither row
  (`viewport.c:56`, `474`; `README.md:326`).
- Attributes beyond the fixed buffer are dropped (`viewport.c:487`;
  `README.md:331`).
- A reset in the selection ends its reverse video (`viewport.c:45`;
  `README.md:333`).
- What is copied is not what is highlighted past the end of a row, inside a wide
  character, and under word wrapping (`viewport.c:1018`, `1048`;
  `viewport.h:124`).
- Trimming leaves mark and cursor where they were while the content moves
  (`viewport.c:297`; `viewport.h:56`).

Layout, status bar, text view:

- `tui_place` does not truncate rows that are too wide, and its block is then
  wider than the box (`style.c:538`; `style.h:228`: "Content longer than the
  box is truncated"). The properties are about content that fits.
- `tui_style_get_width` counts two columns for any border, while the renderer
  puts out its strings as they are, the top and bottom ones once per column
  (`style.c:711-713`, `865-867`, `1040`): the strings of `TuiBorder` may have
  other widths (`tests/test_style.c:264`, `339`). The heights agree all the
  same.
- The measuring functions disagree with the renderer on content that is too
  wide, and on inline styles (`style.c:1037`, `1055`; `style.h:217`, `221`).
- Texts that fill or exceed the row get a separator all the same, and the row
  wraps (`statusbar.c:162-170`; `README.md:374`, `statusbar.h:7`, "Single-line
  rendering"). `RowHolds` is about texts with room for a column between them.
- The text view puts out everything (`textview.c:120`; `textview.h:71`).

Seen while reading:

- `report_focus` of a `TuiView` (`component.h:92`, `README.md:208`) is written by
  no flush (`runtime.c:429-490`).
- On a terminal with a kitty stack per screen, a view that switches screens with
  the kitty protocol on leaves the stacks unbalanced (`runtime.c:456-462`).
- `MAX_MSGS_PER_FRAME` (`runtime.c:18`) assumes one message per byte; the last
  byte of a paste makes two, so a full read can lose one byte
  (`LongArraySuffices`, part of `PasteIsBracketed`, bounds the loss to one).
- C-u does not append to the kill buffer (`textinput.c:1000`; `README.md:288`).
- A resize can take a window off the bottom, after which output is not followed
  (`viewport.c:706-717`; `README.md:324`).
- The subtraction of `viewport.c:1132` can be negative after the wheel or an
  append, and a motion along the row, which does not scroll, leaves it so
  (`viewport.c:871-883`); the comment there only considers motions that scroll.
- `viewport.h:138` says the cursor is visible "only when focused AND in
  copy-mode"; `tui_viewport_cursor_pos` looks at the focus alone.
- Resizing leaves the copy-mode cursor and the mark at columns beyond the row.
- Combining accents at a row boundary are drawn at the end of one row and at the
  start of the next.
- `textinput.h:54` says that a `terminal_width` of 0 stands for 80 columns; it
  turns clipping off.
- A `dynamic_buffer_append_printf` that cannot grow leaves a cut text behind
  `len`, without a terminator at `len` (`dynamic_buffer.c:121-128`), unlike an
  append, which leaves the buffer as it was.
- A glyph of no width in a border pattern counts as one column (`style.c:935`).
- `README.md:429` calls `tui_style_render` with a buffer, which it does not take,
  and `README.md:369` a `tui_textview_write_direct`, which does not exist.

## Not modelled

- *Messages* (`msg.c`): constructors without state.
- *Colors and attributes* of styles: the SGR strings that `style.c` puts around
  each row, adaptive colors and the detection of the background. They take no
  columns, and nothing in the library reads them again except the viewport, where
  an escape sequence is a cell.
- *Setters of a style*: each copies one field; `Layout` takes the finished style.
- *Text view*: the terminal size, which nothing reads, and the view.
- *Text input*: echo mode, prompt styles, the reverse video of the region, the
  terminal row. *Viewport* and *status bar*: the position of the component on the
  screen.
- *The tables of `unicode.c`*: which code points are wide. The models take the
  kind of a character as given.
- The Windows branches (`#ifdef _WIN32`), which have no event loop.

## Plan

Done: all the stateful parts and the composition of the runtime; the drawing of
text input, viewport and status bar; layout; buffers and escape sequences; the
proofs about all of these. What is open is listed under "Not modelled" and, of
the proofs, liveness.
