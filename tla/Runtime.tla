------------------------------- MODULE Runtime -------------------------------
(***************************************************************************)
(* tui_runtime_run (runtime.c): the event loop that owns raw mode, the     *)
(* signal handlers, select() and the order in which messages are sent and  *)
(* frames flushed.  It drives the queues of EventQueue and the terminal of *)
(* TerminalModes, on the same variables.                                   *)
(*                                                                         *)
(* `pc' is where the loop's thread is.  At the points named in AppPoints   *)
(* it is inside application code (update(), view() or a callback), which   *)
(* may post, schedule, quit or call exit().  Signals, window resizes,      *)
(* input and wakeups from other threads arrive at any point.               *)
(***************************************************************************)
EXTENDS EventQueue, TerminalModes

CONSTANTS
  RawMode,            \* config.raw_mode
  BlockForever,       \* the values of block_forever that are explored
  SyscallsMayFail,    \* may tcsetattr, select and read fail?
  MaxResizes, MaxInput, MaxExternal, MaxRuns   \* bounds on the environment

ASSUME RuntimeAssumption ==
  /\ {RawMode, SyscallsMayFail} \subseteq BOOLEAN
  /\ BlockForever \subseteq BOOLEAN
  /\ {MaxResizes, MaxInput, MaxExternal, MaxRuns} \subseteq Nat

VARIABLES
  block_forever,        \* get_tick_timeout_ms answers -1, else with a timeout
  pc,
  ready,                \* the descriptors select() found readable
  s_sigwinch_received, s_sigint_received,
  handlers,             \* the runtime's signal handlers are installed
  interrupted,          \* a signal was handled while select() was blocked
  raw_mode_active,
  active,               \* s_active_runtime is this runtime
  winsize,              \* the terminal's size, as a count of its resizes
  known_size,           \* the size in the last TUI_MSG_WINDOW_SIZE updated on
  unseen,               \* the changes of the model since the last flush: "none",
                        \* only "late" ones, or such as a flush is "due" for
  input, input_left,    \* chunks readable on stdin, and chunks yet to arrive
  external, external_left,  \* the same for the external descriptor
  eof,                  \* stdin has been closed
  runs                  \* calls of tui_runtime_run

signalVars == <<s_sigwinch_received, s_sigint_received, handlers, interrupted>>
ttyVars == <<raw_mode_active, active>>
modelVars == <<known_size, unseen>>
envVars == <<winsize, input, input_left, external, external_left, eof>>
runVars == <<runs, block_forever>>
ownVars == <<pc, ready, signalVars, ttyVars, modelVars, envVars, runVars>>
vars == <<eqVars, termVars, ownVars>>

\* Where application code runs: outside the loop, in update() or on_resize for
\* a size message, in get_tick_timeout_ms, in update() or on_stdin_processed
\* for input, in on_external_ready, on_tick, and for an item of a drain.
AppPoints == {"outside", "first_size", "resized", "arm", "input", "external",
              "tick", "drain"}

LoopPoints == {"check", "winch", "resized", "arm", "select", "stdin", "input",
               "ext", "external", "wakeup", "drain", "drained", "tick"}

Points == LoopPoints \cup {"outside", "first_size", "raw", "start", "first_flush",
                           "teardown", "exited"}

RTInit ==
  /\ EQInit
  /\ TMInit
  /\ block_forever \in BlockForever
  /\ pc = "outside"
  /\ ready = {}
  /\ s_sigwinch_received = FALSE /\ s_sigint_received = FALSE
  /\ handlers = FALSE /\ interrupted = FALSE
  /\ raw_mode_active = FALSE /\ active = FALSE
  /\ winsize = 0 /\ known_size = 0 /\ unseen = "none"
  /\ input = 0 /\ input_left = MaxInput
  /\ external = 0 /\ external_left = MaxExternal
  /\ eof = FALSE
  /\ runs = 0

----------------------------------------------------------------------------
(* The environment                                                         *)

\* A signal: its handler sets the flag, and a blocked select() is interrupted
\* (Linux never restarts select, SA_RESTART or not).
Signal(winch) ==
  /\ IF handlers
     THEN /\ s_sigwinch_received' = (s_sigwinch_received \/ winch)
          /\ s_sigint_received' = (s_sigint_received \/ ~winch)
          /\ interrupted' = (interrupted \/ pc = "select")
     ELSE UNCHANGED <<s_sigwinch_received, s_sigint_received, interrupted>>
  /\ UNCHANGED <<eqVars, termVars, pc, ready, handlers, ttyVars, modelVars,
                 input, input_left, external, external_left, eof, runVars>>

\* The window changes size and the process gets SIGWINCH, which is ignored
\* by default.
Resize ==
  /\ pc # "exited"
  /\ winsize < MaxResizes
  /\ winsize' = winsize + 1
  /\ Signal(TRUE)

\* SIGINT from outside (in raw mode the terminal does not generate it).
Interrupt ==
  /\ handlers
  /\ UNCHANGED winsize
  /\ Signal(FALSE)

InputArrives ==
  /\ input_left > 0
  /\ ~eof
  /\ input' = input + 1 /\ input_left' = input_left - 1
  /\ UNCHANGED <<eqVars, termVars, pc, ready, signalVars, ttyVars, modelVars,
                 winsize, external, external_left, eof, runVars>>

InputCloses ==
  /\ ~eof
  /\ eof' = TRUE
  /\ UNCHANGED <<eqVars, termVars, pc, ready, signalVars, ttyVars, modelVars,
                 winsize, input, input_left, external, external_left, runVars>>

ExternalArrives ==
  /\ external_left > 0
  /\ external' = external + 1 /\ external_left' = external_left - 1
  /\ UNCHANGED <<eqVars, termVars, pc, ready, signalVars, ttyVars, modelVars,
                 winsize, input, input_left, eof, runVars>>

\* tui_runtime_wakeup from another thread.
ThreadWakeup == pc # "exited" /\ Wakeup /\ UNCHANGED <<termVars, ownVars>>

Environment ==
  Resize \/ Interrupt \/ InputArrives \/ InputCloses \/ ExternalArrives \/ ThreadWakeup

----------------------------------------------------------------------------
(* Application code                                                        *)

\* Application code posts, schedules or quits.
AppCalls ==
  /\ pc \in AppPoints
  /\ Application
  /\ UNCHANGED <<termVars, ownVars>>

\* get_external_fd, get_tick_timeout_ms, on_external_ready and on_tick: callbacks
\* without a flush behind them.
Unflushed == {"arm", "external", "tick"}

\* The model changes at a point.
Change(at) ==
  unseen' = IF at \notin Unflushed THEN "due"
            ELSE IF unseen = "none" THEN "late" ELSE unseen

\* Application code gives a message to tui_runtime_send, whose update() changes
\* the model, or changes the model itself.
AppChangesModel ==
  /\ pc \in AppPoints
  /\ InApplication
  /\ Change(pc)
  /\ UNCHANGED <<eqVars, termVars, pc, ready, signalVars, ttyVars, known_size,
                 envVars, runVars>>

\* Mutant of ProcessExit: no atexit handler is registered.
ProcessExitUncaught ==
  /\ pc \in AppPoints
  /\ InApplication
  /\ pc' = "exited"
  /\ UNCHANGED <<eqVars, termVars, ready, signalVars, ttyVars, modelVars, envVars,
                 runVars>>

\* Application code calls exit(): runtime_atexit_cleanup stops the runtime
\* that is in its loop.
ProcessExit ==
  /\ pc \in AppPoints
  /\ InApplication
  /\ pc' = "exited"
  /\ IF active /\ started
     THEN StopStarted /\ raw_mode_active' = FALSE
     ELSE UNCHANGED <<termVars, raw_mode_active>>
  /\ UNCHANGED <<eqVars, ready, signalVars, active, modelVars, envVars, runVars>>

----------------------------------------------------------------------------
(* tui_runtime_run up to its loop                                          *)

Goto(from, to) == pc = from /\ pc' = to

\* tui_runtime_send: update() runs unless the runtime has quit.
Update == IF running THEN Change(pc') ELSE UNCHANGED unseen

\* Mutant of SendSize: runtime_update_size is forgotten.
SendCachedSize == UNCHANGED known_size /\ Update

\* runtime_update_size and the TUI_MSG_WINDOW_SIZE it leads to.
SendSize ==
  /\ known_size' = IF running THEN winsize ELSE known_size
  /\ Update

\* Mutant of RunBegin: a second run revives a runtime that has quit.
RunBeginRevived ==
  /\ Goto("outside", "first_size")
  /\ runs < MaxRuns
  /\ runs' = runs + 1
  /\ running' = TRUE
  /\ SendSize
  /\ UNCHANGED <<queueVars, quit_requested, wakeup_pipe, phase, termVars, ready,
                 signalVars, ttyVars, envVars, block_forever>>

RunBegin ==
  /\ Goto("outside", "first_size")
  /\ runs < MaxRuns
  /\ runs' = runs + 1
  /\ SendSize
  /\ UNCHANGED <<eqVars, termVars, ready, signalVars, ttyVars, envVars,
                 block_forever>>

EnableRawMode ==
  /\ Goto("first_size", "raw")
  /\ raw_mode_active' = RawMode
  /\ UNCHANGED <<eqVars, termVars, ready, signalVars, active, modelVars, envVars, runVars>>

\* tcgetattr or tcsetattr fails: tui_runtime_run returns -1.
RawModeFails ==
  /\ Goto("first_size", "outside")
  /\ RawMode /\ SyscallsMayFail
  /\ UNCHANGED <<eqVars, termVars, ready, signalVars, ttyVars, modelVars, envVars, runVars>>

InstallHandlers ==
  /\ Goto("raw", "start")
  /\ s_sigwinch_received' = FALSE /\ s_sigint_received' = FALSE
  /\ interrupted' = FALSE
  /\ handlers' = TRUE
  /\ active' = TRUE
  /\ UNCHANGED <<eqVars, termVars, ready, raw_mode_active, modelVars, envVars, runVars>>

StartTerminal ==
  /\ Goto("start", "first_flush")
  /\ Start
  /\ UNCHANGED <<eqVars, ready, signalVars, ttyVars, modelVars, envVars, runVars>>

\* tui_runtime_flush paints what the model is now.
FlushFrame(from, to) ==
  /\ Goto(from, to)
  /\ \E v \in Views : Flush(v)
  /\ unseen' = "none"
  /\ UNCHANGED <<eqVars, ready, signalVars, ttyVars, known_size, envVars, runVars>>

FirstFlush == FlushFrame("first_flush", "check")

----------------------------------------------------------------------------
(* One iteration of the loop                                               *)

\* A step of the loop that only moves on.
Move(from, to) ==
  /\ Goto(from, to)
  /\ UNCHANGED <<eqVars, termVars, ready, signalVars, ttyVars, modelVars, envVars, runVars>>

\* Mutant of Continue: whether the runtime has quit is not looked at.
ContinueUnlessSigint == ~s_sigint_received

Continue == running /\ ~s_sigint_received

LoopEnds == ~Continue /\ Move("check", "teardown")

NoResizePending == Continue /\ ~s_sigwinch_received /\ Move("check", "arm")

\* The flag is cleared before the size is read, so that a resize in between
\* is seen by the next iteration at the latest.
ClearWinch ==
  /\ Goto("check", "winch")
  /\ Continue /\ s_sigwinch_received
  /\ s_sigwinch_received' = FALSE
  /\ UNCHANGED <<eqVars, termVars, ready, s_sigint_received, handlers, interrupted,
                 ttyVars, modelVars, envVars, runVars>>

HandleResize ==
  /\ Goto("winch", "resized")
  /\ SendSize
  /\ UNCHANGED <<eqVars, termVars, ready, signalVars, ttyVars, envVars, runVars>>

FlushResized == FlushFrame("resized", "arm")

\* The descriptor sets and the timeout are computed; from here a signal
\* interrupts select().
EnterSelect == Move("arm", "select")

Readable == {fd \in {"stdin", "external", "wakeup"} :
               \/ fd = "stdin" /\ (input > 0 \/ eof)
               \/ fd = "external" /\ external > 0
               \/ fd = "wakeup" /\ wakeup_pipe > 0}

\* select() returns with what is readable, or with nothing on a timeout.
SelectReturns ==
  /\ Goto("select", "stdin")
  /\ Readable # {} \/ ~block_forever
  /\ ready' = Readable
  /\ interrupted' = FALSE
  /\ UNCHANGED <<eqVars, termVars, s_sigwinch_received, s_sigint_received, handlers,
                 ttyVars, modelVars, envVars, runVars>>

SelectInterrupted ==
  /\ Goto("select", "check")
  /\ interrupted
  /\ interrupted' = FALSE
  /\ UNCHANGED <<eqVars, termVars, ready, s_sigwinch_received, s_sigint_received,
                 handlers, ttyVars, modelVars, envVars, runVars>>

SelectFails == SyscallsMayFail /\ Move("select", "teardown")

\* tui_runtime_process_input of one chunk, and on_stdin_processed.
ReadInput ==
  /\ Goto("stdin", "input")
  /\ "stdin" \in ready /\ input > 0
  /\ input' = input - 1
  /\ Update
  /\ UNCHANGED <<eqVars, termVars, ready, signalVars, ttyVars, known_size, winsize,
                 input_left, external, external_left, eof, runVars>>

FlushInput == FlushFrame("input", "ext")

\* End of file, or a read error.
ReadEnds ==
  /\ "stdin" \in ready
  /\ input = 0 \/ SyscallsMayFail
  /\ Move("stdin", "teardown")

\* Nothing to read, or a read that answers EAGAIN.
NoInput == ("stdin" \in ready => SyscallsMayFail) /\ Move("stdin", "ext")

ExternalReady ==
  /\ Goto("ext", "external")
  /\ "external" \in ready
  /\ external' = external - 1
  /\ UNCHANGED <<eqVars, termVars, ready, signalVars, ttyVars, modelVars, winsize,
                 input, input_left, external_left, eof, runVars>>

ExternalDone ==
  \/ "external" \notin ready /\ Move("ext", "wakeup")
  \/ Move("external", "wakeup")

BeginDrain ==
  /\ Goto("wakeup", "drain")
  /\ "wakeup" \in ready
  /\ DrainBegin
  /\ UNCHANGED <<termVars, ready, signalVars, ttyVars, modelVars, envVars, runVars>>

\* A step of tui_runtime_drain.  An item of it may run update(): a message
\* does, a command may through its result.
Drain ==
  /\ pc = "drain"
  /\ DrainStep
  /\ pc' = IF phase' = "idle" THEN "drained" ELSE "drain"
  /\ IF phase' \in {"incmd", "inmsg"} THEN Update ELSE UNCHANGED unseen
  /\ UNCHANGED <<termVars, ready, signalVars, ttyVars, known_size, envVars, runVars>>

\* Mutant of FlushDrained: a drain is not followed by a flush.
SkipFlush == Move("drained", "tick")

FlushDrained == FlushFrame("drained", "tick")

NotWoken == "wakeup" \notin ready /\ Move("wakeup", "tick")

TickDone == Move("tick", "check")

\* tui_runtime_stop, raw mode off, handlers restored.
Teardown ==
  /\ Goto("teardown", "outside")
  /\ Stop
  /\ raw_mode_active' = FALSE
  /\ active' = FALSE
  /\ handlers' = FALSE
  /\ interrupted' = FALSE
  /\ UNCHANGED <<eqVars, ready, s_sigwinch_received, s_sigint_received, modelVars,
                 envVars, runVars>>

----------------------------------------------------------------------------

Startup == EnableRawMode \/ RawModeFails \/ InstallHandlers \/ StartTerminal \/ FirstFlush

Wait == EnterSelect \/ SelectReturns \/ SelectInterrupted

Iterate ==
  \/ LoopEnds \/ NoResizePending \/ ClearWinch \/ HandleResize \/ FlushResized
  \/ ReadInput \/ FlushInput \/ ReadEnds \/ NoInput
  \/ ExternalReady \/ ExternalDone
  \/ BeginDrain \/ Drain \/ FlushDrained \/ NotWoken
  \/ TickDone

Loop == Startup \/ Wait \/ Iterate \/ Teardown

RTNext == \/ Environment \/ AppCalls \/ AppChangesModel \/ ProcessExit
          \/ RunBegin \/ Loop \/ SelectFails

RTSpec == RTInit /\ [][RTNext]_vars

\* The thread that called tui_runtime_run gets to run, callbacks return, and
\* select() returns when it has a reason to: a descriptor, its timeout, or a
\* signal.  That it fails is possible and never owed.
RTFairSpec == RTSpec /\ WF_vars(Loop)

----------------------------------------------------------------------------
(* Properties                                                              *)

\* Types; a drain is only under way inside the loop.
RTTypeOK ==
  /\ pc \in Points
  /\ ready \subseteq {"stdin", "external", "wakeup"}
  /\ {s_sigwinch_received, s_sigint_received, handlers, interrupted,
      raw_mode_active, active, eof} \subseteq BOOLEAN
  /\ unseen \in {"none", "late", "due"}
  /\ winsize \in 0 .. MaxResizes /\ known_size \in 0 .. MaxResizes
  /\ input \in 0 .. MaxInput /\ external \in 0 .. MaxExternal
  /\ phase # "idle" => pc \in {"drain", "exited"}

\* Whichever way the loop ends (a quit, SIGINT, end of input, a failing call,
\* or exit() from a callback), the terminal is handed back as it was found:
\* modes off, raw mode off.
TerminalHandedBack ==
  pc \in {"outside", "exited"} => Restored(term) /\ ~raw_mode_active

\* The loop never sleeps on a frame older than what update() made of a message
\* the loop gave it, or than what on_resize, on_stdin_processed and an item of a
\* drain changed.  The other callbacks have no flush behind them: what they
\* change is shown with the next frame, for which they have to post.
FrameIsFresh == pc = "select" => unseen # "due"

\* The thread that blocks in select() has queued nothing it cannot be woken
\* for, whichever callback of the iteration posted it.
WokenForWork ==
  pc = "select" /\ PipeAvailable /\ (msg_queue # <<>> \/ cmd_queue # <<>>)
    => "wakeup" \in Readable

\* What a run sets up is all there in its loop and all gone after it: terminal
\* started, signal handlers, raw mode, and the runtime that an exit() stops.
SetUpTogether ==
  /\ started => active
  /\ pc \in LoopPoints => started /\ handlers /\ raw_mode_active = RawMode
  /\ pc = "outside" => ~started /\ ~handlers /\ ~active

\* The state of the loop's thread, and what it relies on when it blocks.
LoopConsistent == RTTypeOK /\ WokenForWork /\ SetUpTogether

\* The loop uses the queues and the terminal only in the ways their modules
\* describe.
UsesItsParts == EQSpec /\ TMSpec

Running == pc \notin {"outside", "exited"}
Returned == ~Running

\* Where a quit would come after the test of `running' and before select():
\* update() and on_resize for a resize, get_external_fd, get_tick_timeout_ms.
PastTheTest == {"resized", "arm", "select"}

\* A quit ends the loop, made anywhere if it has a timeout, and without one
\* when `running' is looked at before the loop blocks: a quit does not write
\* to the pipe.
QuitReturns ==
  (quit_requested /\ Running /\ (block_forever => pc \notin PastTheTest))
    ~> Returned

\* A message posted to a runtime in its loop reaches update(), unless the
\* loop ends first: no input and no timeout is needed.
PostReachesUpdate ==
  \A n \in 1 .. MaxMsgs : (posted >= n /\ Running) ~> (delivered >= n \/ Returned)

\* With a timeout, SIGINT ends the loop and a resize that was signalled
\* reaches update(), at whatever point of the iteration the signal came.
TimeoutServesSignals ==
  /\ (s_sigint_received /\ Running /\ ~block_forever) ~> Returned
  /\ (s_sigwinch_received /\ Running /\ ~block_forever)
       ~> (known_size = winsize \/ ~running \/ Returned)

\* README.md, "The runtime handles SIGWINCH (resize), SIGINT": SIGINT ends the
\* loop, with or without a timeout.
SigintReturns == (s_sigint_received /\ Running) ~> Returned

============================================================================
