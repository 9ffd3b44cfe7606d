------------------------------ MODULE AsyncPost ------------------------------
(***************************************************************************)
(* tui_runtime_post against tui_runtime_drain, statement by statement: the *)
(* message half of the swap reads the buffer, reads the count, installs a  *)
(* fresh buffer and resets the count, and a post made from a signal        *)
(* handler runs between any two of these.  EventQueue treats the swap as   *)
(* one step, which is right for posts made by the loop's own thread.       *)
(***************************************************************************)
EXTENDS Naturals

CONSTANTS
  Cap,          \* slots of a buffer; posts that would grow it are left out
  MaxMsgs,      \* bound on the number of posts
  PostPoints    \* where in the loop a post may run

\* The statement the loop's thread is about to execute.
DrainPoints == {"read_buffer", "read_count", "install", "reset_count"}
Points == {"idle", "check", "deliver"} \cup DrainPoints

VARIABLES
  pc,
  msg_queue, msg_queue_count,   \* the live buffer, by number, and its count
  snap_msgs, snap_msg_count,    \* the drain's local copies of them
  i,                            \* the drain's index into the snapshot
  slot,                         \* slot[b][k]: message stored in buffer b, 0 if none
  wakeup_pipe,
  posted, seen                  \* messages posted, and those given to update()

apVars == <<pc, msg_queue, msg_queue_count, snap_msgs, snap_msg_count, i, slot,
            wakeup_pipe, posted, seen>>

\* Two buffers are enough: a snapshot is freed before the next swap.
Buffers == {1, 2}

APInit ==
  /\ pc = "idle"
  /\ msg_queue = 1 /\ msg_queue_count = 0
  /\ snap_msgs = 1 /\ snap_msg_count = 0 /\ i = 0
  /\ slot = [b \in Buffers |-> [k \in 0 .. Cap - 1 |-> 0]]
  /\ wakeup_pipe = 0
  /\ posted = 0 /\ seen = {}

\* The whole of tui_runtime_post, as a signal handler runs it.
AsyncPostCall ==
  /\ pc \in PostPoints
  /\ posted < MaxMsgs /\ msg_queue_count < Cap
  /\ posted' = posted + 1
  /\ slot' = [slot EXCEPT ![msg_queue][msg_queue_count] = posted + 1]
  /\ msg_queue_count' = msg_queue_count + 1
  /\ wakeup_pipe' = 1
  /\ UNCHANGED <<pc, msg_queue, snap_msgs, snap_msg_count, i, seen>>

----------------------------------------------------------------------------
(* tui_runtime_drain, without its commands                                 *)

DrainPipe ==
  /\ pc = "idle" /\ pc' = "check"
  /\ wakeup_pipe = 1 /\ wakeup_pipe' = 0
  /\ UNCHANGED <<msg_queue, msg_queue_count, snap_msgs, snap_msg_count, i, slot,
                 posted, seen>>

CheckCount ==
  /\ pc = "check"
  /\ pc' = IF msg_queue_count > 0 THEN "read_buffer" ELSE "idle"
  /\ UNCHANGED <<msg_queue, msg_queue_count, snap_msgs, snap_msg_count, i, slot,
                 wakeup_pipe, posted, seen>>

ReadBuffer ==
  /\ pc = "read_buffer" /\ pc' = "read_count"
  /\ snap_msgs' = msg_queue
  /\ UNCHANGED <<msg_queue, msg_queue_count, snap_msg_count, i, slot, wakeup_pipe,
                 posted, seen>>

ReadCount ==
  /\ pc = "read_count" /\ pc' = "install"
  /\ snap_msg_count' = msg_queue_count
  /\ UNCHANGED <<msg_queue, msg_queue_count, snap_msgs, i, slot, wakeup_pipe,
                 posted, seen>>

InstallFresh ==
  /\ pc = "install" /\ pc' = "reset_count"
  /\ msg_queue' = 3 - msg_queue
  /\ UNCHANGED <<msg_queue_count, snap_msgs, snap_msg_count, i, slot, wakeup_pipe,
                 posted, seen>>

ResetCount ==
  /\ pc = "reset_count" /\ pc' = "deliver"
  /\ msg_queue_count' = 0
  /\ i' = 0
  /\ UNCHANGED <<msg_queue, snap_msgs, snap_msg_count, slot, wakeup_pipe, posted,
                 seen>>

DeliverNext ==
  /\ pc = "deliver"
  /\ i < snap_msg_count
  /\ i' = i + 1
  /\ seen' = seen \cup {slot[snap_msgs][i]}
  /\ UNCHANGED <<pc, msg_queue, msg_queue_count, snap_msgs, snap_msg_count, slot,
                 wakeup_pipe, posted>>

FreeSnapshot ==
  /\ pc = "deliver" /\ pc' = "check"
  /\ i = snap_msg_count
  /\ slot' = [slot EXCEPT ![snap_msgs] = [k \in 0 .. Cap - 1 |-> 0]]
  /\ UNCHANGED <<msg_queue, msg_queue_count, snap_msgs, snap_msg_count, i,
                 wakeup_pipe, posted, seen>>

APNext == \/ AsyncPostCall
          \/ DrainPipe \/ CheckCount \/ ReadBuffer \/ ReadCount \/ InstallFresh
          \/ ResetCount \/ DeliverNext \/ FreeSnapshot

APSpec == APInit /\ [][APNext]_apVars

----------------------------------------------------------------------------
(* Properties                                                              *)

\* What the queue still holds, and what the drain still has to deliver.
Queued == {slot[msg_queue][k] : k \in 0 .. msg_queue_count - 1}
InSnapshot ==
  IF pc \in {"install", "reset_count", "deliver"}
  THEN {slot[snap_msgs][k] :
          k \in (IF pc = "deliver" THEN i ELSE 0) .. snap_msg_count - 1}
  ELSE {}

\* No posted message disappears between the swap's statements.
NoPostLost == 1 .. posted \subseteq seen \cup Queued \cup InSnapshot

============================================================================
