---------------------------- MODULE RuntimeProofs ----------------------------
(***************************************************************************)
(* Proofs about Runtime for every bound on the environment, every set of   *)
(* views and whether or not system calls fail.  The loop uses its queues   *)
(* and its terminal only in the ways of their own modules, so what is      *)
(* proved of them there holds of the running program; an invariant of the  *)
(* loop's control points adds the rest.                                    *)
(***************************************************************************)
EXTENDS Runtime, SequenceTheorems, TLAPS

----------------------------------------------------------------------------
(* The event queue, on its own: proofs about EventQueue for every capacity, *)
(* every bound and whether or not the pipe exists and malloc fails.         *)

\* Where the snapshots can be non-empty.
SnapshotsByPhase ==
  /\ phase \in {"idle", "swap"} => snap_msgs = <<>>
  /\ phase \notin {"cmds", "incmd"} => snap_cmds = <<>>

\* CommandsBeforeMessages, kept from the post to the delivery.
CommandsCounted ==
  /\ \A i \in 1 .. Len(snap_msgs) :
       snap_msgs[i].after <= executed + Len(snap_cmds)
  /\ \A i \in 1 .. Len(msg_queue) : msg_queue[i].after <= scheduled

\* Until the runtime quits, every message taken was delivered.
TakenIsDelivered == running => delivered = taken

QueueInv ==
  /\ TypeOK
  /\ WithinCapacity
  /\ SnapshotsByPhase
  /\ MessagesInOrder
  /\ CommandsInOrder
  /\ CommandsCounted
  /\ TakenIsDelivered
  /\ NoLostWakeup

----------------------------------------------------------------------------
(* Lemmas about the operators                                              *)

\* After growing there is a slot for one more item.
LEMMA GrownMakesRoom ==
  ASSUME NEW len \in Nat, NEW cap \in Nat, len <= cap
  PROVE  /\ Grown(len, cap) \in Nat
         /\ len + 1 <= Grown(len, cap)
  BY QueueAssumption DEF Grown

\* A swap leaves a queue with a natural capacity.
LEMMA SwappedCapsType ==
  ASSUME NEW q, NEW cap \in Nat, NEW c \in SwappedCaps(q, cap)
  PROVE  c \in Nat
  BY QueueAssumption DEF SwappedCaps, FreshCaps

\* Writing a wakeup byte leaves the pipe readable and within its capacity.
LEMMA WriteWakeupFills ==
  ASSUME wakeup_pipe \in 0 .. PIPE_CAP, WriteWakeup
  PROVE  /\ wakeup_pipe' \in 0 .. PIPE_CAP
         /\ PipeAvailable => wakeup_pipe' > 0
         /\ wakeup_pipe > 0 => wakeup_pipe' > 0
  BY QueueAssumption DEF WriteWakeup

----------------------------------------------------------------------------

\* A fresh runtime satisfies the invariant.
LEMMA InitQueueInv == EQInit => QueueInv
  <1> SUFFICES ASSUME EQInit PROVE QueueInv
    OBVIOUS
  <1> USE QueueAssumption DEF EQInit
  <1>1. Len(msg_queue) = 0 /\ Len(snap_msgs) = 0 /\ Len(cmd_queue) = 0
        /\ Len(snap_cmds) = 0
    OBVIOUS
  <1>2. TypeOK
    <2>1. /\ msg_queue \in Seq(Message) /\ snap_msgs \in Seq(Message)
          /\ cmd_queue \in Seq(Nat) /\ snap_cmds \in Seq(Nat)
      OBVIOUS
    <2>2. 0 \in 0 .. PIPE_CAP /\ msg_queue_cap \in Nat /\ cmd_queue_cap \in Nat
      BY DEF FreshCaps
    <2> QED BY <2>1, <2>2 DEF TypeOK, Phases
  <1>3. WithinCapacity /\ SnapshotsByPhase /\ TakenIsDelivered /\ NoLostWakeup
    BY <1>1, <1>2
    DEF TypeOK, WithinCapacity, SnapshotsByPhase, TakenIsDelivered, NoLostWakeup
  <1>4. MessagesInOrder /\ CommandsInOrder /\ CommandsCounted
    BY <1>1 DEF MessagesInOrder, CommandsInOrder, CommandsCounted
  <1> QED BY <1>2, <1>3, <1>4 DEF QueueInv

\* tui_runtime_post keeps the invariant.
LEMMA PostKeepsInv == QueueInv /\ Post => QueueInv'
  <1> SUFFICES ASSUME QueueInv, Post PROVE QueueInv'
    OBVIOUS
  <1> USE DEF QueueInv, TypeOK, flagVars
  <1> DEFINE m == [id |-> posted + 1, after |-> scheduled]
  <1>1. /\ msg_queue' = Append(msg_queue, m)
        /\ m \in Message
        /\ Len(msg_queue') = Len(msg_queue) + 1
        /\ \A i \in 1 .. Len(msg_queue) : msg_queue'[i] = msg_queue[i]
        /\ msg_queue'[Len(msg_queue) + 1] = m
    BY DEF Post, Message
  <1>2. TypeOK'
    BY <1>1, GrownMakesRoom, WriteWakeupFills DEF Post, WithinCapacity
  <1>3. WithinCapacity'
    BY <1>1, GrownMakesRoom DEF Post, WithinCapacity
  <1>4. SnapshotsByPhase' /\ CommandsInOrder' /\ TakenIsDelivered'
    BY DEF Post, SnapshotsByPhase, CommandsInOrder, TakenIsDelivered
  <1>5. MessagesInOrder'
    <2>1. posted' = taken' + Len(snap_msgs') + Len(msg_queue')
      BY <1>1 DEF Post, MessagesInOrder
    <2>2. m.id = taken + Len(snap_msgs) + (Len(msg_queue) + 1)
      BY DEF MessagesInOrder
    <2>3. ASSUME NEW i \in 1 .. Len(msg_queue')
          PROVE  msg_queue'[i].id = taken' + Len(snap_msgs') + i
      <3>1. CASE i \in 1 .. Len(msg_queue)
        BY <1>1, <3>1 DEF Post, MessagesInOrder
      <3>2. CASE i = Len(msg_queue) + 1
        BY <1>1, <2>2, <3>2 DEF Post
      <3> QED BY <1>1, <3>1, <3>2
    <2> QED BY <2>1, <2>3 DEF Post, MessagesInOrder
  <1>6. CommandsCounted'
    <2>1. UNCHANGED <<snap_msgs, snap_cmds, executed, scheduled>>
      BY DEF Post
    <2>2. ASSUME NEW i \in 1 .. Len(msg_queue') PROVE msg_queue'[i].after <= scheduled
      <3>1. CASE i \in 1 .. Len(msg_queue)
        BY <1>1, <3>1 DEF CommandsCounted
      <3>2. CASE i = Len(msg_queue) + 1
        <4>1. m.after = scheduled
          OBVIOUS
        <4> QED BY <1>1, <3>2, <4>1
      <3> QED BY <1>1, <3>1, <3>2
    <2> HIDE DEF m
    <2> QED BY <2>1, <2>2 DEF CommandsCounted
  <1>7. NoLostWakeup'
    BY WriteWakeupFills DEF Post, NoLostWakeup
  <1> QED BY <1>2, <1>3, <1>4, <1>5, <1>6, <1>7

\* tui_runtime_schedule keeps the invariant.
LEMMA ScheduleKeepsInv == QueueInv /\ Schedule => QueueInv'
  <1> SUFFICES ASSUME QueueInv, Schedule PROVE QueueInv'
    OBVIOUS
  <1> USE DEF QueueInv, TypeOK, flagVars
  <1>1. /\ cmd_queue' = Append(cmd_queue, scheduled + 1)
        /\ Len(cmd_queue') = Len(cmd_queue) + 1
        /\ \A i \in 1 .. Len(cmd_queue) : cmd_queue'[i] = cmd_queue[i]
        /\ cmd_queue'[Len(cmd_queue) + 1] = scheduled + 1
    BY DEF Schedule
  <1>2. TypeOK'
    BY <1>1, GrownMakesRoom, WriteWakeupFills DEF Schedule, WithinCapacity
  <1>3. WithinCapacity'
    BY <1>1, GrownMakesRoom DEF Schedule, WithinCapacity
  <1>4. SnapshotsByPhase' /\ MessagesInOrder' /\ TakenIsDelivered'
    BY DEF Schedule, SnapshotsByPhase, MessagesInOrder, TakenIsDelivered
  <1>5. CommandsInOrder'
    <2>1. scheduled' = executed' + Len(snap_cmds') + Len(cmd_queue')
      BY <1>1 DEF Schedule, CommandsInOrder
    <2>2. scheduled + 1 = executed + Len(snap_cmds) + (Len(cmd_queue) + 1)
      BY DEF CommandsInOrder
    <2>3. ASSUME NEW i \in 1 .. Len(cmd_queue')
          PROVE  cmd_queue'[i] = executed' + Len(snap_cmds') + i
      <3>1. CASE i \in 1 .. Len(cmd_queue)
        BY <1>1, <3>1 DEF Schedule, CommandsInOrder
      <3>2. CASE i = Len(cmd_queue) + 1
        BY <1>1, <2>2, <3>2 DEF Schedule
      <3> QED BY <1>1, <3>1, <3>2
    <2> QED BY <2>1, <2>3 DEF Schedule, CommandsInOrder
  <1>6. CommandsCounted'
    <2>1. \A i \in 1 .. Len(msg_queue) : msg_queue[i] \in Message
      OBVIOUS
    <2>2. \A i \in 1 .. Len(msg_queue) : msg_queue[i].after \in Nat
      BY <2>1 DEF Message
    <2>3. /\ UNCHANGED <<snap_msgs, snap_cmds, executed, msg_queue>>
          /\ scheduled' = scheduled + 1 /\ scheduled \in Nat /\ CommandsCounted
      BY DEF Schedule
    <2> HIDE DEF QueueInv, TypeOK
    <2>4. ASSUME NEW i \in 1 .. Len(msg_queue)
          PROVE  msg_queue[i].after <= scheduled + 1
      <3>1. msg_queue[i].after <= scheduled
        BY <2>3 DEF CommandsCounted
      <3>2. msg_queue[i].after \in Nat
        BY <2>2
      <3> QED BY <2>3, <3>1, <3>2
    <2> QED BY <2>3, <2>4 DEF CommandsCounted
  <1>7. NoLostWakeup'
    BY WriteWakeupFills DEF Schedule, NoLostWakeup
  <1> QED BY <1>2, <1>3, <1>4, <1>5, <1>6, <1>7

\* The swap at the head of a drain keeps the invariant.
LEMMA DrainSwapKeepsInv == QueueInv /\ DrainSwap => QueueInv'
  <1> SUFFICES ASSUME QueueInv, DrainSwap PROVE QueueInv'
    OBVIOUS
  <1> USE DEF QueueInv, TypeOK, flagVars, Phases
  <1>1. snap_msgs = <<>> /\ snap_cmds = <<>>
    BY DEF DrainSwap, SnapshotsByPhase
  <1>2. TypeOK'
    BY SwappedCapsType DEF DrainSwap
  <1>3. WithinCapacity' /\ SnapshotsByPhase' /\ TakenIsDelivered' /\ NoLostWakeup'
    BY <1>2 DEF DrainSwap, WithinCapacity, SnapshotsByPhase, TakenIsDelivered,
                NoLostWakeup
  <1>4. MessagesInOrder'
    BY <1>1 DEF DrainSwap, MessagesInOrder
  <1>5. CommandsInOrder'
    BY <1>1 DEF DrainSwap, CommandsInOrder
  <1>6. CommandsCounted'
    <2>1. scheduled = executed + Len(cmd_queue)
      BY <1>1 DEF CommandsInOrder
    <2> QED BY <2>1, <1>1 DEF DrainSwap, CommandsCounted
  <1> QED BY <1>2, <1>3, <1>4, <1>5, <1>6

\* What is left of a sequence once its head is taken.
LEMMA TailFacts ==
  ASSUME NEW S, NEW s \in Seq(S), s # <<>>
  PROVE  /\ Tail(s) \in Seq(S)
         /\ Len(Tail(s)) = Len(s) - 1
         /\ Len(s) \in Nat \ {0}
         /\ Head(s) = s[1]
         /\ s[1] \in S
         /\ \A i \in 1 .. Len(Tail(s)) : Tail(s)[i] = s[i + 1]
  OBVIOUS

\* Executing the next command keeps the invariant.
LEMMA BeginCmdKeepsInv == QueueInv /\ BeginCmd => QueueInv'
  <1> SUFFICES ASSUME QueueInv, BeginCmd PROVE QueueInv'
    OBVIOUS
  <1> USE DEF QueueInv, TypeOK, flagVars, Phases
  <1>1. /\ snap_cmds' = Tail(snap_cmds)
        /\ snap_cmds' \in Seq(Nat)
        /\ Len(snap_cmds') = Len(snap_cmds) - 1
        /\ \A i \in 1 .. Len(snap_cmds') : snap_cmds'[i] = snap_cmds[i + 1]
        /\ executed' = executed + 1
        /\ Len(snap_cmds) \in Nat \ {0}
    BY TailFacts DEF BeginCmd
  <1>2. TypeOK'
    BY <1>1 DEF BeginCmd
  <1>3. /\ WithinCapacity' /\ SnapshotsByPhase' /\ MessagesInOrder'
        /\ TakenIsDelivered' /\ NoLostWakeup'
    BY DEF BeginCmd, WithinCapacity, SnapshotsByPhase, MessagesInOrder,
           TakenIsDelivered, NoLostWakeup
  <1>4. CommandsInOrder'
    <2>1. executed' + Len(snap_cmds') = executed + Len(snap_cmds)
      BY <1>1
    <2> QED BY <1>1, <2>1 DEF BeginCmd, CommandsInOrder
  <1>5. CommandsCounted'
    <2>1. executed' + Len(snap_cmds') = executed + Len(snap_cmds)
      BY <1>1
    <2> QED BY <2>1 DEF BeginCmd, CommandsCounted
  <1> QED BY <1>2, <1>3, <1>4, <1>5

\* Taking the next message off the snapshot, delivered or dropped.
LEMMA TakeKeepsOrder ==
  ASSUME QueueInv, snap_msgs # <<>>, snap_msgs' = Tail(snap_msgs),
         taken' = taken + 1,
         UNCHANGED <<msg_queue, snap_cmds, posted, scheduled, executed>>
  PROVE  /\ snap_msgs' \in Seq(Message)
         /\ MessagesInOrder'
         /\ CommandsCounted'
         /\ Head(snap_msgs).id = taken + 1
  <1> USE DEF QueueInv, TypeOK
  <1>1. /\ snap_msgs' \in Seq(Message)
        /\ Len(snap_msgs') = Len(snap_msgs) - 1
        /\ Len(snap_msgs) \in Nat \ {0}
        /\ Head(snap_msgs) = snap_msgs[1]
        /\ \A i \in 1 .. Len(snap_msgs') : snap_msgs'[i] = snap_msgs[i + 1]
    BY TailFacts
  <1>2. MessagesInOrder'
    <2>1. taken' + Len(snap_msgs') = taken + Len(snap_msgs)
      BY <1>1
    <2>2. posted' = taken' + Len(snap_msgs') + Len(msg_queue')
      BY <2>1 DEF MessagesInOrder
    <2>3. ASSUME NEW i \in 1 .. Len(snap_msgs')
          PROVE  snap_msgs'[i].id = taken' + i
      <3>1. i + 1 \in 1 .. Len(snap_msgs)
        BY <1>1
      <3>2. snap_msgs[i + 1].id = taken + (i + 1)
        BY <3>1 DEF MessagesInOrder
      <3> QED BY <1>1, <3>2
    <2>4. ASSUME NEW i \in 1 .. Len(msg_queue')
          PROVE  msg_queue'[i].id = taken' + Len(snap_msgs') + i
      BY <2>1 DEF MessagesInOrder
    <2> QED BY <2>2, <2>3, <2>4 DEF MessagesInOrder
  <1>3. CommandsCounted'
    BY <1>1 DEF CommandsCounted
  <1> QED BY <1>1, <1>2, <1>3 DEF MessagesInOrder

\* Delivering the next message keeps the invariant.
LEMMA BeginMsgKeepsInv == QueueInv /\ BeginMsg => QueueInv'
  <1> SUFFICES ASSUME QueueInv, BeginMsg PROVE QueueInv'
    OBVIOUS
  <1> USE DEF QueueInv, TypeOK, flagVars, Phases
  <1>1. /\ snap_msgs' \in Seq(Message)
        /\ MessagesInOrder' /\ CommandsCounted'
        /\ Head(snap_msgs).id = taken + 1
    BY TakeKeepsOrder DEF BeginMsg
  <1>2. TypeOK'
    BY <1>1 DEF BeginMsg
  <1>3. /\ WithinCapacity' /\ SnapshotsByPhase' /\ CommandsInOrder'
        /\ NoLostWakeup'
    BY DEF BeginMsg, WithinCapacity, SnapshotsByPhase, CommandsInOrder,
           NoLostWakeup
  <1>4. TakenIsDelivered'
    BY <1>1 DEF BeginMsg, TakenIsDelivered
  <1> QED BY <1>1, <1>2, <1>3, <1>4

\* Dropping a message after a quit keeps the invariant.
LEMMA DropMsgKeepsInv == QueueInv /\ DropMsg => QueueInv'
  <1> SUFFICES ASSUME QueueInv, DropMsg PROVE QueueInv'
    OBVIOUS
  <1> USE DEF QueueInv, TypeOK, flagVars, Phases
  <1>1. /\ snap_msgs' \in Seq(Message)
        /\ MessagesInOrder' /\ CommandsCounted'
    BY TakeKeepsOrder DEF DropMsg
  <1>2. TypeOK'
    BY <1>1 DEF DropMsg
  <1>3. /\ WithinCapacity' /\ SnapshotsByPhase' /\ CommandsInOrder'
        /\ TakenIsDelivered' /\ NoLostWakeup'
    BY DEF DropMsg, WithinCapacity, SnapshotsByPhase, CommandsInOrder,
           TakenIsDelivered, NoLostWakeup
  <1> QED BY <1>1, <1>2, <1>3

\* The steps that leave the four queues alone.
LEMMA OtherStepsKeepInv ==
  QueueInv /\ (Quit \/ Wakeup \/ DrainBegin \/ DrainEnd \/ CmdsDone \/ EndItem
               \/ MsgsDone \/ UNCHANGED eqVars) => QueueInv'
  <1> SUFFICES ASSUME QueueInv, 
                      Quit \/ Wakeup \/ DrainBegin \/ DrainEnd \/ CmdsDone
                        \/ EndItem \/ MsgsDone \/ UNCHANGED eqVars
               PROVE  QueueInv'
    OBVIOUS
  <1> USE DEF QueueInv, TypeOK, queueVars, flagVars, Phases
  <1>1. UNCHANGED queueVars
    BY DEF Quit, Wakeup, DrainBegin, DrainEnd, CmdsDone, EndItem, MsgsDone, eqVars
  <1>2. TypeOK'
    <2>1. wakeup_pipe' \in 0 .. PIPE_CAP
      <3>1. CASE Wakeup
        BY <3>1, WriteWakeupFills DEF Wakeup
      <3>2. CASE DrainBegin
        BY <3>2, QueueAssumption DEF DrainBegin
      <3> QED BY <3>1, <3>2 DEF Quit, DrainEnd, CmdsDone, EndItem, MsgsDone, eqVars
    <2>2. running' \in BOOLEAN /\ quit_requested' \in BOOLEAN /\ phase' \in Phases
      BY DEF Quit, Wakeup, DrainBegin, DrainEnd, CmdsDone, EndItem, MsgsDone, eqVars
    <2> QED BY <1>1, <2>1, <2>2
  <1>3. WithinCapacity' /\ MessagesInOrder' /\ CommandsInOrder' /\ CommandsCounted'
    BY <1>1 DEF WithinCapacity, MessagesInOrder, CommandsInOrder, CommandsCounted
  <1>4. SnapshotsByPhase'
    BY <1>1 DEF SnapshotsByPhase, Quit, Wakeup, DrainBegin, DrainEnd, CmdsDone,
                EndItem, MsgsDone, eqVars
  <1>5. TakenIsDelivered'
    BY <1>1 DEF TakenIsDelivered, Quit, Wakeup, DrainBegin, DrainEnd, CmdsDone,
                EndItem, MsgsDone, eqVars
  <1>6. NoLostWakeup'
    BY <1>1, WriteWakeupFills
    DEF NoLostWakeup, Quit, Wakeup, DrainBegin, DrainEnd, CmdsDone, EndItem,
        MsgsDone, eqVars
  <1> QED BY <1>2, <1>3, <1>4, <1>5, <1>6

\* Every step keeps the invariant.
LEMMA NextKeepsInv == QueueInv /\ [EQNext]_eqVars => QueueInv'
  BY PostKeepsInv, ScheduleKeepsInv, DrainSwapKeepsInv, BeginCmdKeepsInv,
     BeginMsgKeepsInv, DropMsgKeepsInv, OtherStepsKeepInv
  DEF EQNext, Application, DrainStep

\* Every reachable state of the queues satisfies the inductive invariant.
THEOREM QueueInvariant == EQSpec => []QueueInv
  BY InitQueueInv, NextKeepsInv, PTL DEF EQSpec

----------------------------------------------------------------------------
(* The invariants that the runs check                                      *)

\* tui_runtime_post and _schedule never store past the end of their buffer.
THEOREM QueuesWithinCapacity == EQSpec => []QueuesConsistent
  BY QueueInvariant, PTL DEF QueueInv, QueuesConsistent

\* The swap of tui_runtime_drain loses, repeats and reorders nothing.
THEOREM QueuesInOrder == EQSpec => [](MessagesInOrder /\ CommandsInOrder)
  BY QueueInvariant, PTL DEF QueueInv

\* Outside a drain, queued work keeps the wakeup descriptor readable.
THEOREM WakeupNeverLost == EQSpec => []NoLostWakeup
  BY QueueInvariant, PTL DEF QueueInv

\* A message is delivered after the commands scheduled before its post.
THEOREM CommandsComeFirst == EQSpec => []CommandsBeforeMessages
  <1>1. QueueInv => CommandsBeforeMessages
    <2> SUFFICES ASSUME QueueInv, phase \in {"msgs", "inmsg"},
                        NEW i \in 1 .. Len(snap_msgs)
                 PROVE  snap_msgs[i].after <= executed
      BY DEF CommandsBeforeMessages
    <2>1. Len(snap_cmds) = 0 /\ executed \in Nat
      BY DEF QueueInv, SnapshotsByPhase, TypeOK
    <2> QED BY <2>1 DEF QueueInv, CommandsCounted
  <1> QED BY <1>1, QueueInvariant, PTL

\* update() is given consecutive messages, and only while running.
THEOREM DeliveryInOrder == EQSpec => DeliveredInOrder
  <1>1. QueueInv /\ [EQNext]_eqVars
          => [delivered' # delivered => running /\ delivered' = delivered + 1]_eqVars
    <2> SUFFICES ASSUME QueueInv, EQNext, delivered' # delivered
                 PROVE  running /\ delivered' = delivered + 1
      BY DEF eqVars, queueVars
    <2>1. BeginMsg
      BY DEF EQNext, Application, DrainStep, Post, Schedule, Quit, Wakeup,
             DrainBegin, DrainSwap, DrainEnd, BeginCmd, CmdsDone, DropMsg,
             EndItem, MsgsDone, queueVars
    <2>2. Head(snap_msgs).id = taken + 1
      BY <2>1, TakeKeepsOrder DEF BeginMsg
    <2> QED BY <2>1, <2>2 DEF BeginMsg, QueueInv, TakenIsDelivered
  <1> QED BY <1>1, QueueInvariant, PTL DEF EQSpec, DeliveredInOrder

----------------------------------------------------------------------------
(* EventQueue implements Mailbox                                           *)

\* n consecutive numbers after t.
Consecutive(t, n) == [i \in 1 .. n |-> t + i]

\* Extending a run of numbers at its end and taking its head.
LEMMA ConsecutiveFacts ==
  ASSUME NEW t \in Nat, NEW n \in Nat
  PROVE  /\ Append(Consecutive(t, n), t + n + 1) = Consecutive(t, n + 1)
         /\ n > 0 => /\ Consecutive(t, n) # <<>>
                     /\ Head(Consecutive(t, n)) = t + 1
                     /\ Tail(Consecutive(t, n)) = Consecutive(t + 1, n - 1)
  <1> DEFINE s == Consecutive(t, n)
  <1>1. s \in Seq(Nat) /\ Len(s) = n /\ \A i \in 1 .. n : s[i] = t + i
    BY DEF Consecutive
  <1>2. Append(s, t + n + 1) = Consecutive(t, n + 1)
    <2> DEFINE a == Append(s, t + n + 1)
               c == Consecutive(t, n + 1)
    <2> HIDE DEF s
    <2>1. a \in Seq(Nat) /\ Len(a) = n + 1 /\ \A i \in 1 .. n + 1 : a[i] = t + i
      <3>1. /\ Append(s, t + n + 1) \in Seq(Nat)
            /\ Len(Append(s, t + n + 1)) = n + 1
            /\ \A i \in 1 .. n : Append(s, t + n + 1)[i] = s[i]
            /\ Append(s, t + n + 1)[n + 1] = t + n + 1
        BY <1>1
      <3> QED BY <1>1, <3>1
    <2>2. c \in Seq(Nat) /\ Len(c) = n + 1 /\ \A i \in 1 .. n + 1 : c[i] = t + i
      BY DEF Consecutive
    <2> HIDE DEF a, c
    <2>3. a = c
      <3>1. Len(a) = Len(c) /\ \A i \in 1 .. Len(a) : a[i] = c[i]
        BY <2>1, <2>2
      <3> QED BY <2>1, <2>2, <3>1, SeqEqual
    <2> QED BY <2>1, <2>3 DEF a, c
  <1>3. ASSUME n > 0
        PROVE  s # <<>> /\ Head(s) = t + 1 /\ Tail(s) = Consecutive(t + 1, n - 1)
    <2> DEFINE a == Tail(s)
               c == Consecutive(t + 1, n - 1)
    <2> HIDE DEF s
    <2>1. /\ s # <<>> /\ Head(s) = t + 1
          /\ a \in Seq(Nat) /\ Len(a) = n - 1
          /\ \A i \in 1 .. n - 1 : a[i] = t + 1 + i
      BY <1>1, <1>3
    <2>2. /\ c \in Seq(Nat) /\ Len(c) = n - 1
          /\ \A i \in 1 .. n - 1 : c[i] = t + 1 + i
      BY <1>3 DEF Consecutive
    <2> HIDE DEF a, c
    <2>3. a = c
      <3>1. Len(a) = Len(c) /\ \A i \in 1 .. Len(a) : a[i] = c[i]
        BY <2>1, <2>2
      <3> QED BY <2>1, <2>2, <3>1, SeqEqual
    <2> QED BY <2>1, <2>3 DEF a, c
  <1> QED BY <1>2, <1>3

\* The two buffers together hold exactly the numbers not yet taken.
LEMMA PendingIsConsecutive ==
  QueueInv => /\ posted - taken \in Nat
              /\ IdsOf(snap_msgs \o msg_queue)
                   = Consecutive(taken, posted - taken)
  <1> SUFFICES ASSUME QueueInv
               PROVE  /\ posted - taken \in Nat
                      /\ IdsOf(snap_msgs \o msg_queue)
                           = Consecutive(taken, posted - taken)
    OBVIOUS
  <1> DEFINE both == snap_msgs \o msg_queue
  <1>1. /\ snap_msgs \in Seq(Message) /\ msg_queue \in Seq(Message)
        /\ posted \in Nat /\ taken \in Nat
        /\ posted = taken + Len(snap_msgs) + Len(msg_queue)
    BY DEF QueueInv, TypeOK, MessagesInOrder
  <1>2. Len(both) = posted - taken /\ posted - taken \in Nat
    BY <1>1
  <1>3. ASSUME NEW i \in 1 .. posted - taken
        PROVE  both[i].id = taken + i
    <2>1. CASE i \in 1 .. Len(snap_msgs)
      BY <1>1, <2>1 DEF QueueInv, MessagesInOrder
    <2>2. CASE i - Len(snap_msgs) \in 1 .. Len(msg_queue)
      <3>1. both[i] = msg_queue[i - Len(snap_msgs)]
        BY <1>1, <2>2
      <3>2. msg_queue[i - Len(snap_msgs)].id
              = taken + Len(snap_msgs) + (i - Len(snap_msgs))
        BY <2>2 DEF QueueInv, MessagesInOrder
      <3> QED BY <1>1, <3>1, <3>2
    <2> QED BY <1>1, <2>1, <2>2
  <1> QED BY <1>2, <1>3 DEF IdsOf, Consecutive

\* A fresh runtime is an empty, open mailbox.
LEMMA InitMailbox == EQInit => Box!Init
  <1> SUFFICES ASSUME EQInit PROVE Box!Init
    OBVIOUS
  <1>1. IdsOf(snap_msgs \o msg_queue) = Consecutive(0, 0)
    BY InitQueueInv, PendingIsConsecutive DEF EQInit
  <1>2. Consecutive(0, 0) = <<>>
    BY DEF Consecutive
  <1> QED BY <1>1, <1>2 DEF EQInit, Box!Init

\* Every step of the queues is a step of the mailbox or leaves it alone.
LEMMA StepMailbox ==
  QueueInv /\ QueueInv' /\ [EQNext]_eqVars => [Box!Next]_(Box!vars)
  <1> SUFFICES ASSUME QueueInv, QueueInv', [EQNext]_eqVars
               PROVE  [Box!Next]_(Box!vars)
    OBVIOUS
  <1> DEFINE pend == IdsOf(snap_msgs \o msg_queue)
             n == posted - taken
             m == posted' - taken'
  <1>1. pend = Consecutive(taken, n) /\ n \in Nat
    BY PendingIsConsecutive
  <1>a. (QueueInv => n \in Nat /\ pend = Consecutive(taken, n))'
    BY PendingIsConsecutive, PTL
  <1>2. pend' = Consecutive(taken', m) /\ m \in Nat
    BY <1>a
  <1>3. taken \in Nat /\ posted \in Nat /\ taken' \in Nat /\ posted' \in Nat
    BY DEF QueueInv, TypeOK
  <1>e. /\ snap_msgs \in Seq(Message)
        /\ Len(snap_msgs) \in Nat /\ Len(msg_queue) \in Nat
        /\ posted = taken + Len(snap_msgs) + Len(msg_queue)
    <2>1. snap_msgs \in Seq(Message) /\ msg_queue \in Seq(Message)
      BY DEF QueueInv, TypeOK
    <2>2. posted = taken + Len(snap_msgs) + Len(msg_queue)
      BY DEF QueueInv, MessagesInOrder
    <2> QED BY <2>1, <2>2
  <1>b. posted = taken + n /\ posted' = taken' + m
    <2>1. \A p, t \in Nat : p = t + (p - t)
      OBVIOUS
    <2> QED BY <1>3, <2>1
  <1>d. n \in Nat /\ m \in Nat
    BY <1>1, <1>2
  <1>c. /\ Append(Consecutive(taken, n), taken + n + 1) = Consecutive(taken, n + 1)
        /\ n > 0 => /\ Consecutive(taken, n) # <<>>
                    /\ Head(Consecutive(taken, n)) = taken + 1
                    /\ Tail(Consecutive(taken, n)) = Consecutive(taken + 1, n - 1)
    BY <1>1, <1>3, ConsecutiveFacts
  <1> HIDE DEF pend, n, m
  <1>4. CASE Post
    <2>1. posted' = posted + 1 /\ taken' = taken /\ m = n + 1
      BY <1>3, <1>b, <1>d, <1>4 DEF Post
    <2>2. pend' = Append(pend, posted + 1)
      BY <1>1, <1>2, <1>b, <1>c, <2>1
    <2> QED BY <1>4, <2>1, <2>2 DEF Post, Box!Next, Box!Put, flagVars, pend
  <1>5. CASE BeginMsg
    <2>1. taken' = taken + 1 /\ posted' = posted /\ n > 0 /\ m = n - 1
      <3>1. snap_msgs # <<>>
        BY <1>5 DEF BeginMsg
      <3>2. Len(snap_msgs) > 0
        BY <1>e, <3>1
      <3>3. n >= Len(snap_msgs)
        BY <1>3, <1>b, <1>d, <1>e
      <3>4. taken' = taken + 1 /\ posted' = posted
        BY <1>5 DEF BeginMsg
      <3> QED BY <1>3, <1>b, <1>d, <1>e, <3>2, <3>3, <3>4
    <2>2. pend # <<>> /\ pend' = Tail(pend) /\ Head(pend) = taken + 1
      BY <1>1, <1>2, <1>b, <1>c, <2>1
    <2>3. delivered' = taken + 1
      BY <1>5, TakeKeepsOrder DEF BeginMsg
    <2> QED BY <1>5, <2>1, <2>2, <2>3
            DEF BeginMsg, Box!Next, Box!Deliver, flagVars, pend
  <1>6. CASE DropMsg
    <2>1. taken' = taken + 1 /\ posted' = posted /\ n > 0 /\ m = n - 1
      <3>1. snap_msgs # <<>>
        BY <1>6 DEF DropMsg
      <3>2. Len(snap_msgs) > 0
        BY <1>e, <3>1
      <3>3. n >= Len(snap_msgs)
        BY <1>3, <1>b, <1>d, <1>e
      <3>4. taken' = taken + 1 /\ posted' = posted
        BY <1>6 DEF DropMsg
      <3> QED BY <1>3, <1>b, <1>d, <1>e, <3>2, <3>3, <3>4
    <2>2. pend # <<>> /\ pend' = Tail(pend)
      BY <1>1, <1>2, <1>b, <1>c, <2>1
    <2> QED BY <1>6, <2>1, <2>2
            DEF DropMsg, Box!Next, Box!Discard, flagVars, pend
  <1>7. CASE Quit
    <2>1. pend' = pend
      BY <1>1, <1>2, <1>7 DEF Quit, queueVars, n, m
    <2> QED BY <1>7, <2>1 DEF Quit, Box!Next, Box!Close, queueVars, pend
  <1>8. CASE \/ Schedule \/ Wakeup \/ DrainBegin \/ DrainSwap \/ DrainEnd
             \/ BeginCmd \/ CmdsDone \/ EndItem \/ MsgsDone \/ UNCHANGED eqVars
    <2>1. UNCHANGED <<posted, taken, delivered, running>>
      BY <1>8 DEF Schedule, Wakeup, DrainBegin, DrainSwap, DrainEnd, BeginCmd,
                  CmdsDone, EndItem, MsgsDone, eqVars, queueVars, flagVars
    <2>2. pend' = pend
      BY <1>1, <1>2, <2>1 DEF n, m
    <2> QED BY <2>1, <2>2 DEF Box!vars, pend
  <1> QED BY <1>4, <1>5, <1>6, <1>7, <1>8
          DEF EQNext, Application, DrainStep

\* Two buffers, a swap and a pipe behave as one mailbox: every accepted
\* message is handed over once and in order until the runtime quits.
THEOREM QueueImplementsMailbox == EQSpec => MailboxSpec
  BY InitMailbox, StepMailbox, QueueInvariant, PTL
  DEF EQSpec, MailboxSpec, Box!Spec

----------------------------------------------------------------------------
(* The terminal, on its own: proofs about TerminalModes for every set of   *)
(* views and any number of kitty pushes made by the parent, on a terminal  *)
(* with one kitty stack (a run shows that they fail when each screen has   *)
(* its own).                                                               *)

\* The runtime's record of the terminal, field by field.
RecordByField ==
  /\ in_alt_screen = term.alt_screen
  /\ (cur_mouse_mode # "none") = term.mouse
  /\ cur_bracketed_paste = term.bracketed_paste
  /\ term.report_focus = FALSE
  /\ term.kbd["main"] = ParentKbdDepth + (IF cur_kitty THEN 1 ELSE 0)
  /\ term.kbd["alt"] = 0

\* The record is what the last frame declares, and all off without one.
RecordFollowsFrame ==
  IF frame = NoFrame
  THEN /\ ~in_alt_screen /\ cur_mouse_mode = "none"
       /\ ~cur_bracketed_paste /\ ~cur_kitty /\ term.cursor = TRUE
  ELSE /\ in_alt_screen = frame.alt_screen
       /\ cur_mouse_mode = frame.mouse_mode
       /\ cur_bracketed_paste = frame.bracketed_paste
       /\ cur_kitty = frame.kitty
       /\ term.cursor = frame.cursor
       /\ frame.window_title # NoTitle => term.window_title = frame.window_title

ModesInv == TMTypeOK /\ RecordByField /\ RecordFollowsFrame

----------------------------------------------------------------------------
(* Lemmas about the terminal                                               *)

\* The terminal as the program found it is a terminal, with nothing of ours on it.
LEMMA FreshFacts ==
  /\ FreshTerminal \in Terminal
  /\ FreshTerminal.kbd["main"] = ParentKbdDepth
  /\ FreshTerminal.kbd["alt"] = 0
  BY TerminalAssumption DEF FreshTerminal, Terminal, Screens

\* A terminal with one stack has pushes and pops on the main screen.
LEMMA KittyFacts ==
  ASSUME ~KbdStackPerScreen, NEW t \in Terminal
  PROVE  /\ KbdScreen(t) = "main"
         /\ PushKitty(t) = [t EXCEPT !.kbd["main"] = @ + 1]
         /\ PushKitty(t) \in Terminal
         /\ PopKitty(t) = [t EXCEPT !.kbd["main"] = IF @ = 0 THEN 0 ELSE @ - 1]
         /\ PopKitty(t) \in Terminal
  <1>1. KbdScreen(t) = "main"
    BY DEF KbdScreen
  <1>2. t.kbd["main"] \in Nat
    BY DEF Terminal, Screens
  <1>3. (IF t.kbd["main"] = 0 THEN 0 ELSE t.kbd["main"] - 1) \in Nat
    BY <1>2
  <1> QED BY <1>1, <1>2, <1>3 DEF PushKitty, PopKitty, Terminal, Screens

\* A terminal is restored when each of its fields but the title is.
LEMMA RestoredByField ==
  ASSUME NEW t \in Terminal, t.alt_screen = FALSE, t.mouse = FALSE,
         t.kbd["main"] = ParentKbdDepth, t.kbd["alt"] = 0,
         t.report_focus = FALSE, t.bracketed_paste = FALSE, t.cursor = TRUE
  PROVE  Restored(t)
  <1>1. t.kbd = FreshTerminal.kbd
    BY DEF Terminal, FreshTerminal, Screens
  <1> SUFFICES ASSUME NEW field \in DOMAIN FreshTerminal \ {"window_title"}
               PROVE  t[field] = FreshTerminal[field]
    BY DEF Restored
  <1>2. field \in {"alt_screen", "mouse", "kbd", "report_focus",
                   "bracketed_paste", "cursor"}
    BY DEF FreshTerminal
  <1>3. CASE field = "kbd"
    BY <1>1, <1>3
  <1>4. /\ FreshTerminal.alt_screen = FALSE /\ FreshTerminal.mouse = FALSE
        /\ FreshTerminal.report_focus = FALSE
        /\ FreshTerminal.bracketed_paste = FALSE /\ FreshTerminal.cursor = TRUE
    BY DEF FreshTerminal
  <1>5. CASE field \in {"alt_screen", "mouse"}
    BY <1>4, <1>5
  <1>6. CASE field \in {"report_focus", "bracketed_paste", "cursor"}
    BY <1>4, <1>6
  <1> QED BY <1>2, <1>3, <1>5, <1>6

----------------------------------------------------------------------------

\* A runtime that has not started believes, rightly, that every mode is off.
LEMMA InitModesInv == TMInit => ModesInv
  <1> SUFFICES ASSUME TMInit PROVE ModesInv
    OBVIOUS
  <1>1. TMTypeOK
    BY FreshFacts DEF TMInit, TMTypeOK, MouseModes
  <1>2. RecordByField
    <2>1. /\ ~term.alt_screen /\ ~term.mouse /\ ~term.bracketed_paste
          /\ term.report_focus = FALSE
      BY DEF TMInit, FreshTerminal
    <2>2. /\ ~in_alt_screen /\ ~(cur_mouse_mode # "none")
          /\ ~cur_bracketed_paste /\ ~cur_kitty
      BY DEF TMInit
    <2>3. /\ term.kbd["main"] = ParentKbdDepth + (IF cur_kitty THEN 1 ELSE 0)
          /\ term.kbd["alt"] = 0
      BY <2>2, FreshFacts, TerminalAssumption DEF TMInit
    <2> QED BY <2>1, <2>2, <2>3, <1>1, Zenon
            DEF RecordByField, TMTypeOK, Terminal, TMInit, FreshTerminal
  <1>3. RecordFollowsFrame
    BY DEF TMInit, RecordFollowsFrame, FreshTerminal
  <1> QED BY <1>1, <1>2, <1>3 DEF ModesInv

\* A flush leaves record, terminal and frame in agreement.
LEMMA FlushKeepsInv ==
  ASSUME ~KbdStackPerScreen, ModesInv, NEW v \in Views, Flush(v)
  PROVE  ModesInv'
  <1> DEFINE a == IF v.alt_screen # in_alt_screen THEN v.alt_screen
                  ELSE term.alt_screen
             m == IF v.mouse_mode # cur_mouse_mode THEN v.mouse_mode # "none"
                  ELSE term.mouse
             p == IF v.bracketed_paste # cur_bracketed_paste
                  THEN v.bracketed_paste ELSE term.bracketed_paste
             w == IF v.window_title # NoTitle THEN v.window_title
                  ELSE term.window_title
             t == [term EXCEPT !.alt_screen = a, !.mouse = m,
                               !.bracketed_paste = p, !.window_title = w,
                               !.cursor = v.cursor]
  <1>1. v \in View /\ v # NoFrame
    BY TerminalAssumption
  <1>2. term \in Terminal
    BY DEF ModesInv, TMTypeOK
  <1>3. /\ t \in Terminal
        /\ t.alt_screen = v.alt_screen
        /\ t.mouse = (v.mouse_mode # "none")
        /\ t.bracketed_paste = v.bracketed_paste
        /\ t.cursor = v.cursor
        /\ v.window_title # NoTitle => t.window_title = v.window_title
        /\ t.report_focus = FALSE
        /\ t.kbd = term.kbd
    <2>1. /\ in_alt_screen = term.alt_screen
          /\ (cur_mouse_mode # "none") = term.mouse
          /\ cur_bracketed_paste = term.bracketed_paste
          /\ term.report_focus = FALSE
      BY DEF ModesInv, RecordByField
    <2>2. a = v.alt_screen /\ p = v.bracketed_paste /\ m = (v.mouse_mode # "none")
      BY <2>1
    <2>3. a \in BOOLEAN /\ p \in BOOLEAN /\ v.cursor \in BOOLEAN
      BY <1>1, <2>2 DEF View
    <2>4. m \in BOOLEAN
      BY <2>2
    <2>5. /\ w \in Titles \cup {NoTitle}
          /\ v.window_title # NoTitle => w = v.window_title
      BY <1>1, <1>2 DEF View, Terminal
    <2> HIDE DEF a, m, p, w
    <2>t. t = [term EXCEPT !.alt_screen = a, !.mouse = m,
                           !.bracketed_paste = p, !.window_title = w,
                           !.cursor = v.cursor]
      OBVIOUS
    <2> HIDE DEF t
    <2>6. /\ t.alt_screen = a /\ t.mouse = m /\ t.bracketed_paste = p
          /\ t.window_title = w /\ t.cursor = v.cursor
      <3>1. t.cursor = v.cursor
        BY <1>2, <2>t DEF Terminal
      <3>2. t.window_title = w
        BY <1>2, <2>t DEF Terminal
      <3>3. t.bracketed_paste = p
        BY <1>2, <2>t DEF Terminal
      <3>4. t.mouse = m
        BY <1>2, <2>t DEF Terminal
      <3>5. t.alt_screen = a
        BY <1>2, <2>t DEF Terminal
      <3> QED BY <3>1, <3>2, <3>3, <3>4, <3>5
    <2>7. t.report_focus = term.report_focus /\ t.kbd = term.kbd
      BY <1>2, <2>t DEF Terminal
    <2>8. t \in Terminal
      <3>1. t = [alt_screen |-> t.alt_screen, mouse |-> t.mouse, kbd |-> t.kbd,
                 report_focus |-> t.report_focus,
                 bracketed_paste |-> t.bracketed_paste,
                 window_title |-> t.window_title, cursor |-> t.cursor]
        BY <1>2, <2>t DEF Terminal
      <3>2. term.kbd \in [Screens -> Nat] /\ term.report_focus \in BOOLEAN
        BY <1>2 DEF Terminal
      <3> QED BY <2>3, <2>4, <2>5, <2>6, <2>7, <3>1, <3>2 DEF Terminal
    <2> QED BY <2>1, <2>2, <2>5, <2>6, <2>7, <2>8
  <1>4. term' = ToggleKitty(t, v.kitty)
    BY DEF Flush
  <1> HIDE DEF t, a, m, p, w
  <1>5. /\ term' \in Terminal
        /\ term'.kbd["main"] = ParentKbdDepth + (IF v.kitty THEN 1 ELSE 0)
        /\ term'.kbd["alt"] = 0
        /\ term'.alt_screen = t.alt_screen
        /\ term'.mouse = t.mouse
        /\ term'.bracketed_paste = t.bracketed_paste
        /\ term'.cursor = t.cursor
        /\ term'.window_title = t.window_title
        /\ term'.report_focus = t.report_focus
    <2>1. /\ t.kbd["main"] = ParentKbdDepth + (IF cur_kitty THEN 1 ELSE 0)
          /\ t.kbd["alt"] = 0
      BY <1>3 DEF ModesInv, RecordByField
    <2>2. ParentKbdDepth \in Nat /\ v.kitty \in BOOLEAN /\ cur_kitty \in BOOLEAN
      BY <1>1, TerminalAssumption DEF View, ModesInv, TMTypeOK
    <2>3. CASE v.kitty = cur_kitty
      BY <1>3, <1>4, <2>1, <2>2, <2>3 DEF ToggleKitty
    <2>4. CASE v.kitty /\ ~cur_kitty
      <3>1. term' = [t EXCEPT !.kbd["main"] = @ + 1] /\ term' \in Terminal
        BY <1>3, <1>4, <2>4, KittyFacts DEF ToggleKitty
      <3> QED BY <1>3, <2>1, <2>2, <2>4, <3>1 DEF Terminal, Screens
    <2>5. CASE ~v.kitty /\ cur_kitty
      <3>1. /\ term' = [t EXCEPT !.kbd["main"] = IF @ = 0 THEN 0 ELSE @ - 1]
            /\ term' \in Terminal
        BY <1>3, <1>4, <2>5, KittyFacts DEF ToggleKitty
      <3>2. t.kbd["main"] # 0 /\ t.kbd["main"] - 1 = ParentKbdDepth
        BY <2>1, <2>2, <2>5
      <3> QED BY <1>3, <2>1, <2>2, <2>5, <3>1, <3>2 DEF Terminal, Screens
    <2> QED BY <2>2, <2>3, <2>4, <2>5
  <1>6. TMTypeOK'
    BY <1>1, <1>5 DEF Flush, ModesInv, TMTypeOK, View
  <1>7. RecordByField'
    BY <1>3, <1>5 DEF Flush, RecordByField
  <1>8. RecordFollowsFrame'
    BY <1>1, <1>3, <1>5 DEF Flush, RecordFollowsFrame
  <1> QED BY <1>6, <1>7, <1>8 DEF ModesInv

\* tui_runtime_stop of a started runtime: the terminal is as it was found.
LEMMA StopRestores ==
  ASSUME ~KbdStackPerScreen, ModesInv, StopStarted
  PROVE  ModesInv' /\ Restored(term')
  <1> DEFINE t == IF cur_kitty THEN PopKitty(term) ELSE term
  <1>1. /\ term \in Terminal /\ ParentKbdDepth \in Nat
        /\ term.kbd["main"] = ParentKbdDepth + (IF cur_kitty THEN 1 ELSE 0)
        /\ term.kbd["alt"] = 0
        /\ cur_kitty \in BOOLEAN
    BY TerminalAssumption DEF ModesInv, TMTypeOK, RecordByField
  <1>2. /\ t \in Terminal
        /\ t.kbd["main"] = ParentKbdDepth /\ t.kbd["alt"] = 0
        /\ t.alt_screen = term.alt_screen /\ t.mouse = term.mouse
        /\ t.bracketed_paste = term.bracketed_paste
        /\ t.report_focus = term.report_focus
        /\ t.window_title = term.window_title
    <2>1. CASE cur_kitty
      <3>1. /\ t = [term EXCEPT !.kbd["main"] = IF @ = 0 THEN 0 ELSE @ - 1]
            /\ t \in Terminal
        BY <1>1, <2>1, KittyFacts
      <3>2. term.kbd["main"] # 0 /\ term.kbd["main"] - 1 = ParentKbdDepth
        BY <1>1, <2>1
      <3> QED BY <1>1, <3>1, <3>2 DEF Terminal, Screens
    <2>2. CASE ~cur_kitty
      BY <1>1, <2>2
    <2> QED BY <2>1, <2>2
  <1>3. term' = [t EXCEPT
                   !.alt_screen = IF in_alt_screen THEN FALSE ELSE @,
                   !.mouse = IF cur_mouse_mode # "none" THEN FALSE ELSE @,
                   !.bracketed_paste = IF cur_bracketed_paste THEN FALSE ELSE @,
                   !.cursor = TRUE]
    BY DEF StopStarted
  <1> HIDE DEF t
  <1>4. /\ in_alt_screen = term.alt_screen
        /\ (cur_mouse_mode # "none") = term.mouse
        /\ cur_bracketed_paste = term.bracketed_paste
        /\ term.report_focus = FALSE
    BY DEF ModesInv, RecordByField
  <1>5. /\ term' \in Terminal
        /\ term'.alt_screen = FALSE /\ term'.mouse = FALSE
        /\ term'.bracketed_paste = FALSE /\ term'.report_focus = FALSE
        /\ term'.cursor = TRUE
        /\ term'.kbd["main"] = ParentKbdDepth /\ term'.kbd["alt"] = 0
    BY <1>1, <1>2, <1>3, <1>4 DEF Terminal
  <1>6. TMTypeOK'
    BY <1>5 DEF StopStarted, TMTypeOK, MouseModes
  <1>7. RecordByField' /\ RecordFollowsFrame'
    <2>1. /\ in_alt_screen' = FALSE /\ cur_mouse_mode' = "none"
          /\ cur_bracketed_paste' = FALSE /\ cur_kitty' = FALSE
          /\ frame' = NoFrame
      BY DEF StopStarted
    <2>2. (cur_mouse_mode' # "none") = term'.mouse
      BY <1>5, <2>1
    <2>3. term'.kbd["main"] = ParentKbdDepth + (IF cur_kitty' THEN 1 ELSE 0)
      BY <1>1, <1>5, <2>1
    <2> QED BY <1>5, <2>1, <2>2, <2>3 DEF RecordByField, RecordFollowsFrame
  <1> QED BY <1>5, <1>6, <1>7, RestoredByField DEF ModesInv

\* Every operation of the runtime keeps the invariant.
LEMMA NextKeepsModesInv ==
  ASSUME ~KbdStackPerScreen, ModesInv, [TMNext]_termVars
  PROVE  ModesInv'
  <1>1. CASE Start
    BY <1>1 DEF Start, ModesInv, TMTypeOK, RecordByField, RecordFollowsFrame,
                modeVars
  <1>2. CASE UNCHANGED termVars
    BY <1>2 DEF ModesInv, TMTypeOK, RecordByField, RecordFollowsFrame,
                termVars, modeVars
  <1> QED BY <1>1, <1>2, FlushKeepsInv, StopRestores DEF TMNext

\* Record, terminal and last frame agree in every reachable state.
THEOREM ModesInvariant == ASSUME ~KbdStackPerScreen PROVE TMSpec => []ModesInv
  <1>1. ModesInv /\ [TMNext]_termVars => ModesInv'
    BY NextKeepsModesInv
  <1> QED BY <1>1, InitModesInv, PTL DEF TMSpec

----------------------------------------------------------------------------
(* The properties that the runs check                                      *)

\* The runtime never doubles and never forgets a toggle, and the terminal is
\* in the modes of the last frame, however the views change.
THEOREM ModesAreRight ==
  ASSUME ~KbdStackPerScreen
  PROVE  TMSpec => []ModesConsistent
  <1>1. ModesInv => RecordMatchesTerminal /\ ModesFollowFrame
    <2> SUFFICES ASSUME ModesInv PROVE RecordMatchesTerminal /\ ModesFollowFrame
      OBVIOUS
    <2>1. OwnKbdDepth(term) = IF cur_kitty THEN 1 ELSE 0
      <3>1. term \in Terminal /\ cur_kitty \in BOOLEAN
        BY DEF ModesInv, TMTypeOK
      <3>2. KbdScreen(term) = "main"
        BY <3>1, KittyFacts
      <3>3. term.kbd["main"] = ParentKbdDepth + (IF cur_kitty THEN 1 ELSE 0)
        BY DEF ModesInv, RecordByField
      <3> QED BY <3>1, <3>2, <3>3, FreshFacts, TerminalAssumption DEF OwnKbdDepth
    <2>2. RecordMatchesTerminal
      BY <2>1 DEF RecordMatchesTerminal, ModesInv, RecordByField
    <2>3. CASE frame = NoFrame
      <3>1. /\ ~in_alt_screen /\ cur_mouse_mode = "none"
            /\ ~cur_bracketed_paste /\ ~cur_kitty /\ term.cursor = TRUE
        BY <2>3 DEF ModesInv, RecordFollowsFrame
      <3>2. /\ term \in Terminal
            /\ term.alt_screen = FALSE /\ term.mouse = FALSE
            /\ term.bracketed_paste = FALSE /\ term.report_focus = FALSE
        BY <3>1 DEF ModesInv, TMTypeOK, RecordByField
      <3>3. term.kbd["main"] = ParentKbdDepth /\ term.kbd["alt"] = 0
        BY <3>1, TerminalAssumption DEF ModesInv, RecordByField
      <3>4. Restored(term)
        BY <3>1, <3>2, <3>3, RestoredByField
      <3> QED BY <2>2, <2>3, <3>4 DEF ModesFollowFrame
    <2>4. CASE frame # NoFrame
      BY <2>1, <2>2, <2>4
      DEF ModesFollowFrame, ModesInv, RecordByField, RecordFollowsFrame
    <2> QED BY <2>3, <2>4
  <1> QED BY <1>1, ModesInvariant, PTL DEF ModesInv, ModesConsistent

\* tui_runtime_stop restores the terminal the program was started in.
THEOREM StopAlwaysRestores ==
  ASSUME ~KbdStackPerScreen PROVE TMSpec => StopRestoresTerminal
  <1>1. ModesInv /\ [TMNext]_termVars
          => [started /\ ~started' => Restored(term')]_termVars
    <2> SUFFICES ASSUME ModesInv, TMNext, started, ~started'
                 PROVE  Restored(term')
      BY DEF termVars
    <2>1. StopStarted
      BY DEF TMNext, Start, Flush
    <2> QED BY <2>1, StopRestores
  <1> QED BY <1>1, ModesInvariant, PTL DEF TMSpec, StopRestoresTerminal

----------------------------------------------------------------------------
(* The loop and its parts                                                  *)

\* Every step of the program is a step of the queues or leaves them alone.
LEMMA StepOfQueues == [RTNext]_vars => [EQNext]_eqVars
  <1> SUFFICES ASSUME [RTNext]_vars PROVE [EQNext]_eqVars
    OBVIOUS
  <1>1. CASE UNCHANGED vars
    BY <1>1 DEF vars
  <1>2. CASE Environment
    BY <1>2 DEF Environment, Resize, Interrupt, Signal, InputArrives, InputCloses,
                ExternalArrives, ThreadWakeup, EQNext
  <1>3. CASE AppCalls \/ AppChangesModel
    BY <1>3 DEF AppCalls, AppChangesModel, EQNext
  <1>4. CASE ProcessExit \/ RunBegin
    BY <1>4 DEF ProcessExit, RunBegin
  <1>5. CASE Startup
    BY <1>5 DEF Startup, EnableRawMode, RawModeFails, InstallHandlers,
                StartTerminal, FirstFlush, FlushFrame
  <1>6. CASE Wait \/ SelectFails
    BY <1>6 DEF Wait, EnterSelect, SelectReturns, SelectInterrupted, SelectFails,
                Move
  <1>7. CASE Iterate
    <2>1. CASE BeginDrain \/ Drain
      BY <2>1 DEF BeginDrain, Drain, EQNext
    <2>2. CASE FlushResized \/ FlushInput \/ FlushDrained
      BY <2>2 DEF FlushResized, FlushInput, FlushDrained, FlushFrame
    <2>3. CASE ClearWinch \/ HandleResize \/ ReadInput \/ ExternalReady
      BY <2>3 DEF ClearWinch, HandleResize, ReadInput, ExternalReady
    <2>4. CASE \/ LoopEnds \/ NoResizePending \/ ReadEnds \/ NoInput
               \/ ExternalDone \/ NotWoken \/ TickDone
      BY <2>4 DEF LoopEnds, NoResizePending, ReadEnds, NoInput, ExternalDone,
                  NotWoken, TickDone, Move
    <2> QED BY <1>7, <2>1, <2>2, <2>3, <2>4 DEF Iterate
  <1>8. CASE Teardown
    BY <1>8 DEF Teardown
  <1> QED BY <1>1, <1>2, <1>3, <1>4, <1>5, <1>6, <1>7, <1>8 DEF RTNext, Loop

\* Every step of the program is a step of the terminal or leaves it alone.
LEMMA StepOfModes == [RTNext]_vars => [TMNext]_termVars
  <1> SUFFICES ASSUME [RTNext]_vars PROVE [TMNext]_termVars
    OBVIOUS
  <1>1. CASE UNCHANGED vars
    BY <1>1 DEF vars
  <1>2. CASE Environment
    BY <1>2 DEF Environment, Resize, Interrupt, Signal, InputArrives, InputCloses,
                ExternalArrives, ThreadWakeup
  <1>3. CASE AppCalls \/ AppChangesModel \/ RunBegin
    BY <1>3 DEF AppCalls, AppChangesModel, RunBegin
  <1>4. CASE ProcessExit
    BY <1>4 DEF ProcessExit, TMNext
  <1>5. CASE Startup
    <2>1. CASE FirstFlush
      BY <2>1 DEF FirstFlush, FlushFrame, TMNext
    <2> QED BY <1>5, <2>1 DEF Startup, EnableRawMode, RawModeFails,
                              InstallHandlers, StartTerminal, TMNext
  <1>6. CASE Wait \/ SelectFails
    BY <1>6 DEF Wait, EnterSelect, SelectReturns, SelectInterrupted, SelectFails,
                Move
  <1>7. CASE Iterate
    <2>1. CASE BeginDrain \/ Drain
      BY <2>1 DEF BeginDrain, Drain
    <2>2. CASE FlushResized \/ FlushInput \/ FlushDrained
      BY <2>2 DEF FlushResized, FlushInput, FlushDrained, FlushFrame, TMNext
    <2>3. CASE ClearWinch \/ HandleResize \/ ReadInput \/ ExternalReady
      BY <2>3 DEF ClearWinch, HandleResize, ReadInput, ExternalReady
    <2>4. CASE \/ LoopEnds \/ NoResizePending \/ ReadEnds \/ NoInput
               \/ ExternalDone \/ NotWoken \/ TickDone
      BY <2>4 DEF LoopEnds, NoResizePending, ReadEnds, NoInput, ExternalDone,
                  NotWoken, TickDone, Move
    <2> QED BY <1>7, <2>1, <2>2, <2>3, <2>4 DEF Iterate
  <1>8. CASE Teardown
    BY <1>8 DEF Teardown, Stop, TMNext
  <1> QED BY <1>1, <1>2, <1>3, <1>4, <1>5, <1>6, <1>7, <1>8 DEF RTNext, Loop

\* The event loop uses the queues and the terminal only in the ways that
\* EventQueue and TerminalModes describe, whatever signals and callbacks do.
THEOREM LoopUsesItsParts == RTSpec => UsesItsParts
  <1>1. RTInit => EQInit /\ TMInit
    BY DEF RTInit
  <1> QED BY <1>1, StepOfQueues, StepOfModes, PTL
          DEF RTSpec, UsesItsParts, EQSpec, TMSpec

----------------------------------------------------------------------------
(* The inductive invariant of the loop                                     *)

\* Where the runtime has started the terminal, and where raw mode is off.
StartedPoints == LoopPoints \cup {"first_flush", "teardown"}
CookedPoints == {"outside", "first_size", "exited"}

\* Between a flush and the next update(): what changes here is not flushed.
FlushedPoints == {"check", "winch", "arm", "select", "stdin", "ext", "external",
                  "wakeup", "tick"}

\* Types; the input that has come and the input to come share one budget.
LoopTypes ==
  /\ pc \in Points
  /\ ready \subseteq {"stdin", "external", "wakeup"}
  /\ {s_sigwinch_received, s_sigint_received, handlers, interrupted,
      raw_mode_active, active, eof} \subseteq BOOLEAN
  /\ unseen \in {"none", "late", "due"}
  /\ winsize \in 0 .. MaxResizes /\ known_size \in 0 .. MaxResizes
  /\ input \in Nat /\ input_left \in Nat /\ input + input_left <= MaxInput
  /\ external \in Nat /\ external_left \in Nat
  /\ external + external_left <= MaxExternal

\* A drain is only under way inside the loop, or when a callback of it exited.
DrainByPoint == phase # "idle" => pc \in {"drain", "exited"}

\* What select() found on the external descriptor is still there when the
\* callback takes it: nothing else reads it.
ReadyIsReadable ==
  pc \in {"stdin", "input", "ext"} /\ "external" \in ready => external > 0

\* The terminal belongs to the program exactly between start and stop, and
\* only then can an exit() find a runtime to stop.
TerminalByPoint ==
  /\ pc \in StartedPoints => started
  /\ pc \in StartedPoints \cup {"start"} => active /\ handlers
  /\ pc \in StartedPoints \cup {"raw", "start"} => raw_mode_active = RawMode
  /\ pc \in Points \ StartedPoints => ~started /\ frame = NoFrame
  /\ pc \in {"outside", "first_size", "raw"} => ~active /\ ~handlers
  /\ pc \in CookedPoints => ~raw_mode_active

CleanByPoint == pc \in FlushedPoints => unseen # "due"

LoopInv ==
  /\ LoopTypes
  /\ DrainByPoint
  /\ ReadyIsReadable
  /\ TerminalByPoint
  /\ CleanByPoint

\* A process before its first tui_runtime_run.
LEMMA InitLoopInv == RTInit => LoopInv
  <1> SUFFICES ASSUME RTInit PROVE LoopInv
    OBVIOUS
  <1>1. LoopTypes
    <2>1. MaxResizes \in Nat /\ MaxInput \in Nat /\ MaxExternal \in Nat
      BY RuntimeAssumption
    <2>2. pc \in Points /\ ready \subseteq {"stdin", "external", "wakeup"}
      BY DEF RTInit, Points
    <2>3. /\ {s_sigwinch_received, s_sigint_received, handlers, interrupted,
              raw_mode_active, active, eof} \subseteq BOOLEAN
          /\ unseen = "none"
      BY DEF RTInit
    <2>5. winsize \in 0 .. MaxResizes /\ known_size \in 0 .. MaxResizes
      BY <2>1 DEF RTInit
    <2>4. /\ input \in Nat /\ input_left \in Nat /\ input + input_left <= MaxInput
          /\ external \in Nat /\ external_left \in Nat
          /\ external + external_left <= MaxExternal
      BY <2>1 DEF RTInit
    <2> QED BY <2>2, <2>3, <2>4, <2>5 DEF LoopTypes
  <1>2. DrainByPoint /\ ReadyIsReadable /\ CleanByPoint
    BY DEF RTInit, EQInit, DrainByPoint, ReadyIsReadable, CleanByPoint
  <1>3. TerminalByPoint
    BY DEF RTInit, TMInit, TerminalByPoint, StartedPoints, LoopPoints
  <1> QED BY <1>1, <1>2, <1>3 DEF LoopInv

\* Signals, arriving input and calls of application code leave the loop where
\* it is.
LEMMA SurroundingsKeepInv ==
  ASSUME LoopInv, Environment \/ AppCalls
  PROVE  LoopInv'
  <1>1. UNCHANGED <<pc, ready, termVars, handlers, raw_mode_active, active,
                    known_size, unseen, phase>>
    BY DEF Environment, Resize, Interrupt, Signal, InputArrives, InputCloses,
           ExternalArrives, ThreadWakeup, Wakeup, AppCalls, Application, Post,
           Schedule, Quit, ownVars, signalVars, ttyVars, modelVars, eqVars
  <1>2. /\ {s_sigwinch_received, s_sigint_received, handlers, interrupted,
            eof}' \subseteq BOOLEAN
        /\ winsize' \in 0 .. MaxResizes
        /\ input' \in Nat /\ input_left' \in Nat
        /\ input' + input_left' <= MaxInput
        /\ external' \in Nat /\ external_left' \in Nat
        /\ external' + external_left' <= MaxExternal
        /\ external' >= external
    <2> USE RuntimeAssumption DEF LoopInv, LoopTypes
    <2>1. CASE Resize
      BY <2>1 DEF Resize, Signal
    <2>2. CASE Interrupt
      BY <2>2 DEF Interrupt, Signal
    <2>3. CASE InputArrives
      BY <2>3 DEF InputArrives, signalVars
    <2>5. CASE InputCloses
      BY <2>5 DEF InputCloses, signalVars
    <2>6. CASE ExternalArrives
      BY <2>6 DEF ExternalArrives, signalVars
    <2>4. CASE ThreadWakeup \/ AppCalls
      BY <2>4 DEF ThreadWakeup, AppCalls, ownVars, signalVars, envVars
    <2> QED BY <2>1, <2>2, <2>3, <2>4, <2>5, <2>6 DEF Environment
  <1>3. LoopTypes'
    BY <1>1, <1>2 DEF LoopInv, LoopTypes
  <1>4. DrainByPoint' /\ TerminalByPoint' /\ CleanByPoint'
    BY <1>1 DEF LoopInv, DrainByPoint, TerminalByPoint, CleanByPoint, termVars
  <1>5. ReadyIsReadable'
    BY <1>1, <1>2 DEF LoopInv, LoopTypes, ReadyIsReadable
  <1> QED BY <1>3, <1>4, <1>5 DEF LoopInv

\* Application code changes the model: after a flush, a late change.
LEMMA ChangesKeepInv ==
  ASSUME LoopInv, AppChangesModel
  PROVE  LoopInv'
  <1> USE DEF AppChangesModel, LoopInv
  <1>1. UNCHANGED <<pc, ready, termVars, signalVars, ttyVars, known_size, envVars,
                    phase>>
    BY DEF eqVars
  <1>2. /\ unseen' \in {"none", "late", "due"}
        /\ pc \in Unflushed /\ unseen # "due" => unseen' # "due"
    BY DEF Change, LoopTypes
  <1>3. LoopTypes'
    BY <1>1, <1>2 DEF LoopTypes, signalVars, ttyVars, envVars
  <1>4. DrainByPoint' /\ TerminalByPoint' /\ ReadyIsReadable'
    BY <1>1 DEF DrainByPoint, TerminalByPoint, ReadyIsReadable, termVars, ttyVars,
                signalVars, envVars
  <1>5. CleanByPoint'
    <2>1. pc \in AppPoints /\ pc \in FlushedPoints => pc \in Unflushed
      BY DEF AppPoints, FlushedPoints, Unflushed
    <2> QED BY <1>1, <1>2, <2>1 DEF CleanByPoint
  <1> QED BY <1>3, <1>4, <1>5

\* exit() from application code stops the runtime if and only if it is started.
LEMMA ExitKeepsInv == LoopInv /\ ProcessExit => LoopInv'
  <1> SUFFICES ASSUME LoopInv, ProcessExit PROVE LoopInv'
    OBVIOUS
  <1> USE DEF ProcessExit
  <1>1. LoopTypes'
    BY DEF LoopInv, LoopTypes, Points, signalVars, modelVars, envVars
  <1>2. DrainByPoint' /\ ReadyIsReadable' /\ CleanByPoint'
    BY DEF DrainByPoint, ReadyIsReadable, CleanByPoint, FlushedPoints
  <1>3. ~started' /\ frame' = NoFrame /\ ~raw_mode_active'
    <2>1. CASE pc \in StartedPoints
      BY <2>1 DEF LoopInv, TerminalByPoint, StopStarted
    <2>2. CASE pc \in {"outside", "first_size"}
      BY <2>2 DEF LoopInv, TerminalByPoint, StartedPoints, LoopPoints, Points,
                  CookedPoints, termVars
    <2> QED BY <2>1, <2>2 DEF AppPoints, StartedPoints, LoopPoints
  <1>4. TerminalByPoint'
    BY <1>3 DEF TerminalByPoint, StartedPoints, LoopPoints
  <1> QED BY <1>1, <1>2, <1>4 DEF LoopInv

\* tui_runtime_run up to its loop.
LEMMA StartupKeepsInv ==
  ASSUME LoopInv, running \in BOOLEAN, RunBegin \/ Startup
  PROVE  LoopInv'
  <1> USE DEF LoopInv, LoopTypes, DrainByPoint, ReadyIsReadable, TerminalByPoint,
              CleanByPoint, StartedPoints, LoopPoints, CookedPoints,
              FlushedPoints, Points, Goto
  <1>1. CASE RunBegin
    BY <1>1 DEF RunBegin, SendSize, Update, Change, Unflushed, eqVars, termVars, signalVars, ttyVars,
                envVars
  <1>2. CASE EnableRawMode
    BY <1>2, RuntimeAssumption
    DEF EnableRawMode, eqVars, termVars, signalVars, modelVars, envVars
  <1>3. CASE RawModeFails
    BY <1>3 DEF RawModeFails, eqVars, termVars, signalVars, ttyVars, modelVars,
                envVars
  <1>4. CASE InstallHandlers
    BY <1>4 DEF InstallHandlers, eqVars, termVars, modelVars, envVars
  <1>5. CASE StartTerminal
    <2> USE <1>5 DEF StartTerminal, eqVars, signalVars, ttyVars, modelVars, envVars
    <2>1. pc = "start" /\ pc' = "first_flush" /\ started' /\ active'
      BY DEF Start
    <2>2. LoopTypes'
      OBVIOUS
    <2> QED BY <2>1, <2>2
  <1>6. CASE FirstFlush
    <2> USE <1>6 DEF FirstFlush, FlushFrame, eqVars, signalVars, ttyVars, envVars
    <2>1. pc = "first_flush" /\ pc' = "check" /\ started' /\ active' /\ unseen' = "none"
      BY DEF Flush
    <2>2. LoopTypes'
      OBVIOUS
    <2> QED BY <2>1, <2>2
  <1> QED BY <1>1, <1>2, <1>3, <1>4, <1>5, <1>6 DEF Startup

\* A step that only moves on does so between points of which the invariant
\* says the same.
LEMMA MoveKeepsInv ==
  ASSUME LoopInv, NEW from \in LoopPoints \ {"drain"},
         NEW to \in LoopPoints \cup {"teardown"}, Move(from, to),
         to \in FlushedPoints => from \in FlushedPoints,
         to \in {"stdin", "input", "ext"} => from \in {"stdin", "input", "ext"}
  PROVE  LoopInv'
  <1> USE DEF Move, Goto, LoopInv
  <1>1. LoopTypes'
    BY DEF LoopTypes, Points, signalVars, ttyVars, modelVars, envVars
  <1>2. DrainByPoint'
    BY DEF DrainByPoint, eqVars, LoopPoints
  <1>3. ReadyIsReadable'
    BY DEF ReadyIsReadable, envVars
  <1>4. TerminalByPoint'
    BY DEF TerminalByPoint, StartedPoints, LoopPoints, CookedPoints, Points,
           termVars, signalVars, ttyVars
  <1>5. CleanByPoint'
    BY DEF CleanByPoint, modelVars
  <1> QED BY <1>1, <1>2, <1>3, <1>4, <1>5

\* Waiting in select(): nothing is updated, painted or taken.
LEMMA WaitKeepsInv == LoopInv /\ (Wait \/ SelectFails) => LoopInv'
  <1> SUFFICES ASSUME LoopInv, Wait \/ SelectFails PROVE LoopInv'
    OBVIOUS
  <1>1. CASE EnterSelect \/ SelectFails
    BY <1>1, MoveKeepsInv DEF EnterSelect, SelectFails, LoopPoints, FlushedPoints
  <1> USE DEF LoopInv, LoopTypes, DrainByPoint, ReadyIsReadable, TerminalByPoint,
              CleanByPoint, StartedPoints, LoopPoints, CookedPoints,
              FlushedPoints, Points, Goto
  <1>2. CASE SelectReturns
    <2> USE <1>2 DEF SelectReturns, eqVars, termVars, ttyVars, modelVars, envVars
    <2>1. Readable \subseteq {"stdin", "external", "wakeup"}
      BY DEF Readable
    <2>2. "external" \in Readable => external > 0
      BY DEF Readable
    <2>3. LoopTypes'
      BY <2>1
    <2>4. DrainByPoint' /\ TerminalByPoint' /\ CleanByPoint'
      OBVIOUS
    <2>5. ReadyIsReadable'
      BY <2>2
    <2> QED BY <2>3, <2>4, <2>5
  <1>3. CASE SelectInterrupted
    BY <1>3 DEF SelectInterrupted, eqVars, termVars, ttyVars, modelVars, envVars
  <1> QED BY <1>1, <1>2, <1>3 DEF Wait

\* One iteration of the loop, from its head to select() and back.
LEMMA IterateKeepsInv ==
  ASSUME LoopInv, running \in BOOLEAN, Iterate
  PROVE  LoopInv'
  <1>1. CASE LoopEnds \/ NoResizePending \/ TickDone
    BY <1>1, MoveKeepsInv DEF LoopEnds, NoResizePending, TickDone, LoopPoints, FlushedPoints
  <1>2. CASE ReadEnds \/ NoInput \/ ExternalDone \/ NotWoken
    BY <1>2, MoveKeepsInv
    DEF ReadEnds, NoInput, ExternalDone, NotWoken, LoopPoints, FlushedPoints
  <1> USE DEF LoopInv, LoopTypes, DrainByPoint, ReadyIsReadable, TerminalByPoint,
              CleanByPoint, StartedPoints, LoopPoints, CookedPoints,
              FlushedPoints, Points, Goto
  <1>3. CASE ClearWinch
    BY <1>3 DEF ClearWinch, eqVars, termVars, ttyVars, modelVars, envVars
  <1>4. CASE HandleResize
    BY <1>4 DEF HandleResize, SendSize, Update, Change, Unflushed, eqVars, termVars, signalVars,
                ttyVars, envVars
  <1>5. CASE FlushResized \/ FlushInput \/ FlushDrained
    <2> USE <1>5 DEF FlushResized, FlushInput, FlushDrained, FlushFrame, eqVars,
                     signalVars, ttyVars, envVars
    <2>1. started' /\ active' /\ unseen' = "none"
      BY DEF Flush
    <2>2. LoopTypes'
      OBVIOUS
    <2>3. DrainByPoint' /\ ReadyIsReadable' /\ CleanByPoint'
      BY <2>1
    <2>4. TerminalByPoint'
      BY <2>1
    <2> QED BY <2>2, <2>3, <2>4
  <1>6. CASE ReadInput
    <2> USE <1>6 DEF ReadInput, Update, Change, Unflushed, eqVars, termVars, signalVars, ttyVars
    <2>3. /\ pc' = "input" /\ winsize' = winsize /\ known_size' = known_size
          /\ input' \in Nat /\ input' + input_left' <= MaxInput
      BY RuntimeAssumption
    <2>1. LoopTypes'
      BY <2>3
    <2>2. DrainByPoint' /\ ReadyIsReadable' /\ TerminalByPoint' /\ CleanByPoint'
      OBVIOUS
    <2> QED BY <2>1, <2>2
  <1>7. CASE ExternalReady
    <2> USE <1>7 DEF ExternalReady, eqVars, termVars, signalVars, ttyVars, modelVars
    <2>1. external' \in Nat /\ external' + external_left' <= MaxExternal
      BY RuntimeAssumption
    <2>2. LoopTypes'
      BY <2>1
    <2>3. DrainByPoint' /\ ReadyIsReadable' /\ TerminalByPoint' /\ CleanByPoint'
      OBVIOUS
    <2> QED BY <2>2, <2>3
  <1>8. CASE BeginDrain
    BY <1>8 DEF BeginDrain, DrainBegin, termVars, signalVars, ttyVars, modelVars,
                envVars
  <1>9. CASE Drain
    <2> USE <1>9 DEF Drain, Update, Change, Unflushed, termVars, signalVars, ttyVars, envVars
    <2>1. LoopTypes'
      OBVIOUS
    <2>2. DrainByPoint' /\ ReadyIsReadable' /\ TerminalByPoint' /\ CleanByPoint'
      OBVIOUS
    <2> QED BY <2>1, <2>2
  <1> QED BY <1>1, <1>2, <1>3, <1>4, <1>5, <1>6, <1>7, <1>8, <1>9 DEF Iterate

\* tui_runtime_stop and the return of tui_runtime_run.
LEMMA TeardownKeepsInv == LoopInv /\ Teardown => LoopInv'
  <1> SUFFICES ASSUME LoopInv, Teardown PROVE LoopInv'
    OBVIOUS
  <1> USE DEF LoopInv, LoopTypes, DrainByPoint, ReadyIsReadable, TerminalByPoint,
              CleanByPoint, StartedPoints, LoopPoints, CookedPoints,
              FlushedPoints, Points, Goto, Teardown
  <1>1. ~started' /\ frame' = NoFrame
    BY DEF Stop, StopStarted
  <1>2. LoopTypes'
    BY DEF modelVars, envVars
  <1>3. DrainByPoint' /\ ReadyIsReadable' /\ CleanByPoint'
    BY DEF eqVars
  <1>4. TerminalByPoint'
    BY <1>1
  <1> QED BY <1>2, <1>3, <1>4

LEMMA NextKeepsLoopInv ==
  ASSUME LoopInv, running \in BOOLEAN, [RTNext]_vars
  PROVE  LoopInv'
  <1>1. CASE UNCHANGED vars
    BY <1>1 DEF vars, ownVars, eqVars, termVars, signalVars, ttyVars, modelVars,
                envVars, LoopInv, LoopTypes, DrainByPoint, ReadyIsReadable,
                TerminalByPoint, CleanByPoint
  <1> QED BY <1>1, SurroundingsKeepInv, ChangesKeepInv, ExitKeepsInv, StartupKeepsInv,
             WaitKeepsInv, IterateKeepsInv, TeardownKeepsInv
          DEF RTNext, Loop

\* Control point, terminal, descriptors and frame agree in every reachable state.
THEOREM LoopInvariant == RTSpec => []LoopInv
  <1>1. RTSpec => []QueueInv
    BY LoopUsesItsParts, QueueInvariant, PTL DEF UsesItsParts
  <1>2. QueueInv => running \in BOOLEAN
    BY DEF QueueInv, TypeOK
  <1>3. QueueInv /\ LoopInv /\ [RTNext]_vars => LoopInv'
    BY <1>2, NextKeepsLoopInv
  <1> QED BY <1>1, <1>3, InitLoopInv, PTL DEF RTSpec

----------------------------------------------------------------------------
(* The properties that the runs check                                      *)

\* In the loop, terminal, signal handlers, raw mode and s_active_runtime are set
\* up together, and after it none is left; the loop never blocks in select()
\* with work queued that cannot wake it.
THEOREM LoopStaysConsistent == RTSpec => []LoopConsistent
  <1>1. LoopInv => RTTypeOK
    <2> SUFFICES ASSUME LoopInv PROVE RTTypeOK
      OBVIOUS
    <2>1. LoopTypes /\ DrainByPoint
      BY DEF LoopInv
    <2>2. input \in 0 .. MaxInput /\ external \in 0 .. MaxExternal
      BY <2>1, RuntimeAssumption DEF LoopTypes
    <2> QED BY <2>1, <2>2 DEF LoopTypes, DrainByPoint, RTTypeOK
  <1>2. QueueInv /\ LoopInv => WokenForWork
    <2> SUFFICES ASSUME QueueInv, LoopInv, pc = "select", PipeAvailable,
                        msg_queue # <<>> \/ cmd_queue # <<>>
                 PROVE  "wakeup" \in Readable
      BY DEF WokenForWork
    <2>1. phase = "idle"
      BY DEF LoopInv, DrainByPoint
    <2>2. wakeup_pipe > 0
      BY <2>1 DEF QueueInv, NoLostWakeup
    <2> QED BY <2>2 DEF Readable
  <1>3. RTSpec => []QueueInv
    BY LoopUsesItsParts, QueueInvariant, PTL DEF UsesItsParts
  <1>4. LoopInv => SetUpTogether
    BY DEF LoopInv, LoopTypes, TerminalByPoint, SetUpTogether, StartedPoints,
           LoopPoints, Points
  <1> QED BY <1>1, <1>2, <1>3, <1>4, LoopInvariant, PTL DEF LoopConsistent

\* select() never blocks on a frame older than what the loop's own messages, the
\* items of a drain and the callbacks before a flush have made of the model,
\* whichever of the four flushes of an iteration were skipped and whatever the
\* other callbacks change.
THEOREM FrameStaysFresh == RTSpec => []FrameIsFresh
  <1>1. LoopInv => FrameIsFresh
    BY DEF LoopInv, CleanByPoint, FlushedPoints, FrameIsFresh
  <1> QED BY <1>1, LoopInvariant, PTL

\* However tui_runtime_run ends, and wherever a callback calls exit(), the
\* modes and raw mode are as they were found.
THEOREM TerminalIsHandedBack ==
  ASSUME ~KbdStackPerScreen PROVE RTSpec => []TerminalHandedBack
  <1>1. LoopInv => (pc \in {"outside", "exited"} =>
                      frame = NoFrame /\ ~raw_mode_active)
    BY DEF LoopInv, TerminalByPoint, StartedPoints, LoopPoints, Points, CookedPoints
  <1>2. ModesConsistent /\ frame = NoFrame => Restored(term)
    BY DEF ModesConsistent, ModesFollowFrame
  <1>3. LoopInv /\ ModesConsistent => TerminalHandedBack
    BY <1>1, <1>2 DEF TerminalHandedBack
  <1> QED BY <1>3, LoopInvariant, LoopUsesItsParts, ModesAreRight, PTL
          DEF UsesItsParts

\* What EventQueue and TerminalModes promise of their own operations (capacity,
\* order, wakeups, commands first, the Mailbox; the record of the modes and what
\* a stop restores) holds of the program that interleaves them with signals,
\* input and callbacks.
THEOREM PartsKeepTheirPromises ==
  ASSUME ~KbdStackPerScreen
  PROVE  RTSpec => /\ [](QueuesConsistent /\ MessagesInOrder /\ CommandsInOrder)
                   /\ [](NoLostWakeup /\ CommandsBeforeMessages)
                   /\ DeliveredInOrder
                   /\ MailboxSpec
                   /\ []ModesConsistent
                   /\ StopRestoresTerminal
  BY LoopUsesItsParts, QueuesWithinCapacity, QueuesInOrder, WakeupNeverLost,
     CommandsComeFirst, DeliveryInOrder,
     QueueImplementsMailbox, ModesAreRight, StopAlwaysRestores, PTL
  DEF UsesItsParts
============================================================================
