----------------------------- MODULE EventQueue -----------------------------
(***************************************************************************)
(* The message queue, the command queue and the self-pipe of a TuiRuntime  *)
(* (runtime.c): tui_runtime_post, tui_runtime_schedule, tui_runtime_drain, *)
(* tui_runtime_send and tui_runtime_quit, used from the thread that runs   *)
(* the event loop, and tui_runtime_wakeup from any thread.                 *)
(*                                                                         *)
(* A drain is cut at the points where it calls application code.  `phase'  *)
(* is where the thread is: "idle" outside tui_runtime_drain, "swap" at the *)
(* head of its loop, "cmds"/"msgs" between two items of a snapshot, and    *)
(* "incmd"/"inmsg" inside the application's callback for an item.          *)
(* Application code can post, schedule or quit wherever it runs.           *)
(***************************************************************************)
EXTENDS Naturals, Sequences

CONSTANTS
  QUEUE_INITIAL_CAP,  \* capacity of a fresh queue
  PIPE_CAP,           \* bytes the wakeup pipe holds before EAGAIN
  PipeAvailable,      \* FALSE when pipe() failed in tui_runtime_create
  AllocMayFail,       \* TRUE when malloc may return NULL for a new queue
  MaxMsgs, MaxCmds    \* bounds on the number of posts and of schedules

ASSUME QueueAssumption ==
  /\ QUEUE_INITIAL_CAP \in Nat \ {0}
  /\ PIPE_CAP \in Nat \ {0}
  /\ PipeAvailable \in BOOLEAN
  /\ AllocMayFail \in BOOLEAN
  /\ MaxMsgs \in Nat
  /\ MaxCmds \in Nat

VARIABLES
  msg_queue, msg_queue_cap,  \* queued messages, and the size of the buffer
  cmd_queue, cmd_queue_cap,  \* queued commands, and the size of the buffer
  wakeup_pipe,               \* bytes waiting in the pipe
  running, quit_requested,
  snap_msgs, snap_cmds,      \* what tui_runtime_drain took and has not run
  phase,
  posted, taken, delivered,  \* messages accepted, taken off a snapshot, and
                             \* the last one given to update()
  scheduled, executed        \* commands accepted and executed

queueVars == <<msg_queue, msg_queue_cap, cmd_queue, cmd_queue_cap, snap_msgs,
               snap_cmds, posted, taken, delivered, scheduled, executed>>
flagVars  == <<running, quit_requested>>
eqVars    == <<queueVars, flagVars, wakeup_pipe, phase>>

Phases == {"idle", "swap", "cmds", "incmd", "msgs", "inmsg"}

\* A queued message: its number, and how many commands had been scheduled
\* when it was posted.
Message == [id : Nat, after : Nat]

----------------------------------------------------------------------------

\* The capacity of a new buffer, or of none when malloc fails.
FreshCaps == {QUEUE_INITIAL_CAP} \cup (IF AllocMayFail THEN {0} ELSE {})

EQInit ==
  /\ msg_queue = <<>> /\ msg_queue_cap \in FreshCaps
  /\ cmd_queue = <<>> /\ cmd_queue_cap \in FreshCaps
  /\ wakeup_pipe = 0
  /\ running = TRUE /\ quit_requested = FALSE
  /\ snap_msgs = <<>> /\ snap_cmds = <<>>
  /\ phase = "idle"
  /\ posted = 0 /\ taken = 0 /\ delivered = 0
  /\ scheduled = 0 /\ executed = 0

----------------------------------------------------------------------------
(* Called by the application                                               *)

\* One byte into the pipe; a full pipe answers EAGAIN, which is ignored.
WriteWakeup ==
  wakeup_pipe' = IF PipeAvailable /\ wakeup_pipe < PIPE_CAP
                 THEN wakeup_pipe + 1 ELSE wakeup_pipe

\* Mutant of Grown: doubling is thought to cover a queue without a buffer.
GrownByDoubling(len, cap) == IF len < cap THEN cap ELSE 2 * cap

\* The capacity after making room for one more of `len' items.
Grown(len, cap) ==
  IF len < cap THEN cap ELSE IF cap = 0 THEN QUEUE_INITIAL_CAP ELSE 2 * cap

\* Application code of the loop's thread is running.
InApplication == phase \in {"idle", "incmd", "inmsg"}

\* Mutants of Post: the pipe is not written to; the newest message goes first.
PostSilently ==
  /\ InApplication
  /\ posted < MaxMsgs
  /\ posted' = posted + 1
  /\ msg_queue_cap' = Grown(Len(msg_queue), msg_queue_cap)
  /\ msg_queue' = Append(msg_queue, [id |-> posted + 1, after |-> scheduled])
  /\ UNCHANGED <<cmd_queue, cmd_queue_cap, snap_msgs, snap_cmds, taken,
                 delivered, scheduled, executed, flagVars, phase, wakeup_pipe>>
PostFirst ==
  /\ InApplication
  /\ posted < MaxMsgs
  /\ posted' = posted + 1
  /\ msg_queue_cap' = Grown(Len(msg_queue), msg_queue_cap)
  /\ msg_queue' = <<[id |-> posted + 1, after |-> scheduled]>> \o msg_queue
  /\ WriteWakeup
  /\ UNCHANGED <<cmd_queue, cmd_queue_cap, snap_msgs, snap_cmds, taken,
                 delivered, scheduled, executed, flagVars, phase>>

\* tui_runtime_post.  When realloc fails the message is dropped and nothing
\* changes: such a call is a stuttering step.
Post ==
  /\ InApplication
  /\ posted < MaxMsgs
  /\ posted' = posted + 1
  /\ msg_queue_cap' = Grown(Len(msg_queue), msg_queue_cap)
  /\ msg_queue' = Append(msg_queue, [id |-> posted + 1, after |-> scheduled])
  /\ WriteWakeup
  /\ UNCHANGED <<cmd_queue, cmd_queue_cap, snap_msgs, snap_cmds, taken,
                 delivered, scheduled, executed, flagVars, phase>>

\* tui_runtime_schedule; a failed realloc frees the command instead.
Schedule ==
  /\ InApplication
  /\ scheduled < MaxCmds
  /\ scheduled' = scheduled + 1
  /\ cmd_queue_cap' = Grown(Len(cmd_queue), cmd_queue_cap)
  /\ cmd_queue' = Append(cmd_queue, scheduled + 1)
  /\ WriteWakeup
  /\ UNCHANGED <<msg_queue, msg_queue_cap, snap_msgs, snap_cmds, posted, taken,
                 delivered, executed, flagVars, phase>>

\* tui_runtime_quit, or execute_cmd of a TUI_CMD_QUIT returned by update().
Quit ==
  /\ InApplication
  /\ running' = FALSE
  /\ quit_requested' = TRUE
  /\ UNCHANGED <<queueVars, wakeup_pipe, phase>>

\* tui_runtime_wakeup, from whatever thread.
Wakeup ==
  /\ WriteWakeup
  /\ UNCHANGED <<queueVars, flagVars, phase>>

----------------------------------------------------------------------------
(* tui_runtime_drain                                                       *)

DrainBegin ==
  /\ phase = "idle"
  /\ phase' = "swap"
  /\ wakeup_pipe' = 0
  /\ UNCHANGED <<queueVars, flagVars>>

\* The capacities a queue may have after the swap: it is left alone when it
\* is empty, and replaced by a fresh buffer (or none) otherwise.
SwappedCaps(queue, cap) == IF queue = <<>> THEN {cap} ELSE FreshCaps

DrainSwap ==
  /\ phase = "swap"
  /\ cmd_queue # <<>> \/ msg_queue # <<>>
  /\ phase' = "cmds"
  /\ snap_cmds' = cmd_queue /\ cmd_queue' = <<>>
  /\ snap_msgs' = msg_queue /\ msg_queue' = <<>>
  /\ cmd_queue_cap' \in SwappedCaps(cmd_queue, cmd_queue_cap)
  /\ msg_queue_cap' \in SwappedCaps(msg_queue, msg_queue_cap)
  /\ UNCHANGED <<posted, taken, delivered, scheduled, executed, flagVars,
                 wakeup_pipe>>

DrainEnd ==
  /\ phase = "swap"
  /\ cmd_queue = <<>> /\ msg_queue = <<>>
  /\ phase' = "idle"
  /\ UNCHANGED <<queueVars, flagVars, wakeup_pipe>>

\* execute_cmd of the next command; drain does not look at its result, so a
\* command runs even after the runtime has quit.
BeginCmd ==
  /\ phase = "cmds"
  /\ snap_cmds # <<>>
  /\ phase' = "incmd"
  /\ snap_cmds' = Tail(snap_cmds)
  /\ executed' = executed + 1
  /\ UNCHANGED <<msg_queue, msg_queue_cap, cmd_queue, cmd_queue_cap, snap_msgs,
                 posted, taken, delivered, scheduled, flagVars, wakeup_pipe>>

\* Mutant of CmdsDone: the commands left are given up in favour of the messages.
CmdsDoneEarly ==
  /\ phase = "cmds"
  /\ phase' = "msgs"
  /\ UNCHANGED <<queueVars, flagVars, wakeup_pipe>>

CmdsDone ==
  /\ phase = "cmds"
  /\ snap_cmds = <<>>
  /\ phase' = "msgs"
  /\ UNCHANGED <<queueVars, flagVars, wakeup_pipe>>

\* tui_runtime_send of the next message: update() sees it ...
BeginMsg ==
  /\ phase = "msgs"
  /\ snap_msgs # <<>>
  /\ running
  /\ phase' = "inmsg"
  /\ snap_msgs' = Tail(snap_msgs)
  /\ taken' = taken + 1
  /\ delivered' = Head(snap_msgs).id
  /\ UNCHANGED <<msg_queue, msg_queue_cap, cmd_queue, cmd_queue_cap, snap_cmds,
                 posted, scheduled, executed, flagVars, wakeup_pipe>>

\* ... unless the runtime has quit.
DropMsg ==
  /\ phase = "msgs"
  /\ snap_msgs # <<>>
  /\ ~running
  /\ snap_msgs' = Tail(snap_msgs)
  /\ taken' = taken + 1
  /\ UNCHANGED <<msg_queue, msg_queue_cap, cmd_queue, cmd_queue_cap, snap_cmds,
                 posted, delivered, scheduled, executed, flagVars, wakeup_pipe,
                 phase>>

\* The callback of the current item returns.
EndItem ==
  /\ \/ phase = "incmd" /\ phase' = "cmds"
     \/ phase = "inmsg" /\ phase' = "msgs"
  /\ UNCHANGED <<queueVars, flagVars, wakeup_pipe>>

\* Mutant of MsgsDone: the drain ends after one snapshot, with the pipe
\* emptied once more.
MsgsDoneAndOut ==
  /\ phase = "msgs"
  /\ snap_msgs = <<>>
  /\ phase' = "idle"
  /\ wakeup_pipe' = 0
  /\ UNCHANGED <<queueVars, flagVars>>

MsgsDone ==
  /\ phase = "msgs"
  /\ snap_msgs = <<>>
  /\ phase' = "swap"
  /\ UNCHANGED <<queueVars, flagVars, wakeup_pipe>>

----------------------------------------------------------------------------

Application == Post \/ Schedule \/ Quit

DrainStep == \/ DrainSwap \/ DrainEnd \/ BeginCmd \/ CmdsDone \/ BeginMsg
             \/ DropMsg \/ EndItem \/ MsgsDone

EQNext == Application \/ Wakeup \/ DrainBegin \/ DrainStep

EQSpec == EQInit /\ [][EQNext]_eqVars

\* A drain that has begun is carried on, its callbacks return, and the owner
\* of the loop drains whenever the wakeup descriptor is readable.
EQFairSpec ==
  /\ EQSpec
  /\ WF_eqVars(DrainStep)
  /\ WF_eqVars(DrainBegin /\ wakeup_pipe > 0)

----------------------------------------------------------------------------
(* Properties                                                              *)

\* Types; the pipe never holds more than it can.
TypeOK ==
  /\ msg_queue \in Seq(Message) /\ snap_msgs \in Seq(Message)
  /\ cmd_queue \in Seq(Nat) /\ snap_cmds \in Seq(Nat)
  /\ msg_queue_cap \in Nat /\ cmd_queue_cap \in Nat
  /\ wakeup_pipe \in 0 .. PIPE_CAP
  /\ running \in BOOLEAN /\ quit_requested \in BOOLEAN
  /\ phase \in Phases
  /\ posted \in Nat /\ taken \in Nat /\ delivered \in Nat
  /\ scheduled \in Nat /\ executed \in Nat

\* The store `queue[count++] = item' of tui_runtime_post and _schedule stays
\* inside the buffer, whatever a drain did to the capacity before it.
WithinCapacity ==
  /\ Len(msg_queue) <= msg_queue_cap
  /\ Len(cmd_queue) <= cmd_queue_cap

QueuesConsistent == TypeOK /\ WithinCapacity

\* No message is lost, duplicated or reordered between the two buffers: what
\* was posted and not yet taken is the snapshot followed by the queue.
MessagesInOrder ==
  /\ posted = taken + Len(snap_msgs) + Len(msg_queue)
  /\ \A i \in 1 .. Len(snap_msgs) : snap_msgs[i].id = taken + i
  /\ \A i \in 1 .. Len(msg_queue) :
       msg_queue[i].id = taken + Len(snap_msgs) + i

\* The same for commands, every one of which is executed.
CommandsInOrder ==
  /\ scheduled = executed + Len(snap_cmds) + Len(cmd_queue)
  /\ \A i \in 1 .. Len(snap_cmds) : snap_cmds[i] = executed + i
  /\ \A i \in 1 .. Len(cmd_queue) :
       cmd_queue[i] = executed + Len(snap_cmds) + i

\* The self-pipe never misses a wakeup: outside a drain, queued work keeps
\* the read end of the pipe readable, so select() returns.
NoLostWakeup ==
  PipeAvailable /\ phase = "idle" /\ (msg_queue # <<>> \/ cmd_queue # <<>>)
    => wakeup_pipe > 0

\* Each message remembers the commands scheduled before it was posted: they
\* have all been executed when its snapshot gets to the messages.
CommandsBeforeMessages ==
  phase \in {"msgs", "inmsg"} =>
    \A i \in 1 .. Len(snap_msgs) : snap_msgs[i].after <= executed

\* update() never sees a message once the runtime has been told to quit, and
\* never sees one twice or out of order, whichever callbacks posted it.
DeliveredInOrder ==
  [][delivered' # delivered => running /\ delivered' = delivered + 1]_eqVars

\* Quitting is final: nothing in the queues revives the runtime.
QuitIsFinal == [][~running => ~running' /\ delivered' = delivered]_eqVars

\* The mailbox that post() promises, as seen through the two buffers.
IdsOf(queue) == [i \in 1 .. Len(queue) |-> queue[i].id]
Box == INSTANCE Mailbox
         WITH pending <- IdsOf(snap_msgs \o msg_queue), accepted <- posted,
              open <- running
MailboxSpec == Box!Spec

\* Every accepted message is given to update(), or the runtime quits; every
\* scheduled command is executed, even when the runtime quits first.
QueuedIsTaken ==
  /\ \A n \in 1 .. MaxMsgs : posted >= n ~> (delivered >= n \/ ~running)
  /\ \A n \in 1 .. MaxCmds : scheduled >= n ~> executed >= n

============================================================================
