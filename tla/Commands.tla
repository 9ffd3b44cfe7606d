------------------------------ MODULE Commands ------------------------------
(***************************************************************************)
(* Commands: who owns a TuiCmd, in which order execute_cmd (runtime.c)     *)
(* runs a tree of them, and what tui_cmd_free (cmd.c) frees.               *)
(*                                                                         *)
(* Commands are numbered in the order of their allocation, so that a batch *)
(* has a greater number than its children.  `stack' holds the activations  *)
(* of execute_cmd: a batch waits for each child, and a custom command for  *)
(* the command that update() returned to its result message.               *)
(***************************************************************************)
EXTENDS Naturals, Sequences, FiniteSets

CONSTANT Configs  \* the programs explored: records of whether the program
                  \* sets config.cmd_handler (cmd_handler), the kinds of
                  \* command it makes (leaf), a bound on their number
                  \* (max) and the sizes of their batches (batch)

ASSUME CommandsAssumption ==
  \A c \in Configs : /\ c.cmd_handler \in BOOLEAN
                    /\ c.leaf \subseteq {"quit", "custom", "clipboard", "delegated"}
                    /\ c.max \in Nat /\ c.batch \subseteq Nat

\* Where a command's pointer is.
Places == {"app", "batch", "runtime", "handler", "done"}

VARIABLES
  config,     \* chosen at the start
  cmds,       \* sequence of [type, children]
  place,      \* who holds each command
  frees,      \* how often each command has been passed to free()
  order,      \* the commands executed, in order
  stack,      \* activations [cmd, next] of execute_cmd, the innermost last
  result,     \* what the last activation to return returned
  running

cmdVars == <<config, cmds, place, frees, order, stack, result, running>>

Allocated == 1 .. Len(cmds)

CInit ==
  /\ config \in Configs
  /\ cmds = <<>> /\ place = <<>> /\ frees = <<>>
  /\ order = <<>> /\ stack = <<>>
  /\ result = TRUE
  /\ running = TRUE

----------------------------------------------------------------------------
(* Construction (cmd.c), by the application                                *)

AllocateCmd(type, children) ==
  /\ Len(cmds) < config.max
  /\ cmds' = Append(cmds, [type |-> type, children |-> children])
  /\ frees' = Append(frees, 0)

\* tui_cmd_quit, tui_cmd_custom, tui_cmd_clipboard_copy, tui_cmd_line_submit
\* and tui_cmd_tab_complete.
NewLeaf(type) ==
  /\ stack = <<>>
  /\ AllocateCmd(type, <<>>)
  /\ place' = Append(place, "app")
  /\ UNCHANGED <<config, order, stack, result, running>>

\* tui_cmd_batch and tui_cmd_batch2: the batch copies the pointers and so takes
\* the children over.  A NULL among them stands for nothing: execute_cmd
\* answers 1 to it, with which the loop goes on as it would without it.
NewBatch(children) ==
  /\ stack = <<>>
  /\ \A i \in 1 .. Len(children) : place[children[i]] = "app"
  /\ \A i, j \in 1 .. Len(children) : children[i] = children[j] => i = j
  /\ AllocateCmd("batch", children)
  /\ place' = Append([c \in Allocated |->
                        IF \E i \in 1 .. Len(children) : children[i] = c
                        THEN "batch" ELSE place[c]], "app")
  /\ UNCHANGED <<config, order, stack, result, running>>

\* What a batch may be made of; a batch of NULLs holds nothing.
Children == UNION {[1 .. n -> Allocated] : n \in config.batch}

----------------------------------------------------------------------------
(* tui_cmd_free                                                            *)

\* The commands that tui_cmd_free visits: a batch frees its children first.
Tree[c \in Allocated] ==
  {c} \cup UNION {Tree[cmds[c].children[i]] : i \in 1 .. Len(cmds[c].children)}

Freed(c) == [x \in Allocated |-> IF x \in Tree[c] THEN frees[x] + 1 ELSE frees[x]]

\* Everything below c is out of the program's hands.
Gone(c) == [x \in Allocated |-> IF x \in Tree[c] /\ place[x] # "handler"
                                THEN "done" ELSE place[x]]

----------------------------------------------------------------------------
(* execute_cmd                                                             *)

Call(c) == Append(stack, [cmd |-> c, next |-> 1])
Return == SubSeq(stack, 1, Len(stack) - 1)

\* A command reaches execute_cmd: returned by update(), scheduled and
\* drained, or passed to tui_runtime_exec.
Execute(c) ==
  /\ stack = <<>>
  /\ place[c] = "app"
  /\ place' = [place EXCEPT ![c] = "runtime"]
  /\ stack' = Call(c)
  /\ UNCHANGED <<config, cmds, frees, order, result, running>>

\* tui_runtime_free of a command that was still queued.
FreeQueued(c) ==
  /\ stack = <<>>
  /\ place[c] = "app"
  /\ frees' = Freed(c)
  /\ place' = Gone(c)
  /\ UNCHANGED <<config, cmds, order, stack, result, running>>

Top == stack[Len(stack)]
InCmd(type) == stack # <<>> /\ cmds[Top.cmd].type = type

\* The common end: tui_cmd_free(cmd); return runtime->running.
FreeAndReturn(run) ==
  /\ frees' = Freed(Top.cmd)
  /\ place' = Gone(Top.cmd)
  /\ stack' = Return
  /\ result' = run

ExecQuit ==
  /\ InCmd("quit")
  /\ running' = FALSE
  /\ order' = Append(order, Top.cmd)
  /\ FreeAndReturn(FALSE)
  /\ UNCHANGED <<config, cmds>>

\* The clipboard handler, or OSC 52 to the output.
ExecClipboard ==
  /\ InCmd("clipboard")
  /\ order' = Append(order, Top.cmd)
  /\ FreeAndReturn(running)
  /\ UNCHANGED <<config, cmds, running>>

\* A command for the application: the handler is given it to keep, and
\* execute_cmd returns without freeing it.
ExecDelegated ==
  /\ InCmd("delegated")
  /\ order' = Append(order, Top.cmd)
  /\ IF config.cmd_handler
     THEN /\ place' = [place EXCEPT ![Top.cmd] = "handler"]
          /\ stack' = Return
          /\ result' = running
          /\ UNCHANGED frees
     ELSE FreeAndReturn(running)
  /\ UNCHANGED <<config, cmds, running>>

\* The callback of a custom command, without a message for update() ...
ExecCustom ==
  /\ InCmd("custom") /\ Top.next = 1
  /\ order' = Append(order, Top.cmd)
  /\ FreeAndReturn(running)
  /\ UNCHANGED <<config, cmds, running>>

\* ... or with one, to which update() answers with command c.
ExecCustomResult(c) ==
  /\ InCmd("custom") /\ Top.next = 1
  /\ running
  /\ place[c] = "app"
  /\ order' = Append(order, Top.cmd)
  /\ place' = [place EXCEPT ![c] = "runtime"]
  /\ stack' = Append([stack EXCEPT ![Len(stack)].next = 2], [cmd |-> c, next |-> 1])
  /\ UNCHANGED <<config, cmds, frees, result, running>>

\* The command of the result message is over; its own result is dropped.
EndCustom ==
  /\ InCmd("custom") /\ Top.next = 2
  /\ FreeAndReturn(running)
  /\ UNCHANGED <<config, cmds, order, running>>

ChildrenOf(c) == cmds[c].children

\* Mutant of StoppedByChild: the results of the children are dropped.
StoppedNever == FALSE

\* The loop over a batch.  `result' is the last child's from the second on.
StoppedByChild == Top.next > 1 /\ ~result

\* Mutant of BatchNext: the children are started from the last one.
BatchNextFromLast ==
  LET child == ChildrenOf(Top.cmd)[Len(ChildrenOf(Top.cmd)) + 1 - Top.next] IN
  /\ InCmd("batch")
  /\ Top.next <= Len(ChildrenOf(Top.cmd))
  /\ ~StoppedByChild
  /\ stack' = Append([stack EXCEPT ![Len(stack)].next = @ + 1],
                     [cmd |-> child, next |-> 1])
  /\ place' = [place EXCEPT ![child] = "runtime"]
  /\ UNCHANGED <<config, cmds, frees, order, result, running>>

BatchNext ==
  /\ InCmd("batch")
  /\ Top.next <= Len(ChildrenOf(Top.cmd))
  /\ ~StoppedByChild
  /\ stack' = Append([stack EXCEPT ![Len(stack)].next = @ + 1],
                     [cmd |-> ChildrenOf(Top.cmd)[Top.next], next |-> 1])
  /\ place' = [place EXCEPT ![ChildrenOf(Top.cmd)[Top.next]] = "runtime"]
  /\ UNCHANGED <<config, cmds, frees, order, result, running>>

\* Mutant of BatchStopped: the batch is not freed on the early return.
BatchStoppedLeaks ==
  /\ InCmd("batch")
  /\ StoppedByChild
  /\ stack' = Return
  /\ result' = FALSE
  /\ UNCHANGED <<config, cmds, place, frees, order, running>>

BatchStopped ==
  /\ InCmd("batch")
  /\ StoppedByChild
  /\ FreeAndReturn(FALSE)
  /\ UNCHANGED <<config, cmds, order, running>>

BatchDone ==
  /\ InCmd("batch")
  /\ Top.next > Len(ChildrenOf(Top.cmd))
  /\ ~StoppedByChild
  /\ FreeAndReturn(running)
  /\ UNCHANGED <<config, cmds, order, running>>

----------------------------------------------------------------------------

Build == \/ \E type \in config.leaf : NewLeaf(type)
         \/ \E children \in Children : NewBatch(children)

Step == \/ ExecQuit \/ ExecClipboard \/ ExecDelegated
        \/ ExecCustom \/ EndCustom
        \/ \E c \in Allocated : ExecCustomResult(c)
        \/ BatchNext \/ BatchStopped \/ BatchDone

CNext == Build \/ (\E c \in Allocated : Execute(c) \/ FreeQueued(c)) \/ Step

CSpec == CInit /\ [][CNext]_cmdVars

----------------------------------------------------------------------------
(* Properties                                                              *)

\* Types; children were allocated before the batch that holds them.
CTypeOK ==
  /\ config \in Configs
  /\ Len(cmds) <= config.max
  /\ \A c \in Allocated : /\ cmds[c].type \in config.leaf \cup {"batch"}
                          /\ \A i \in 1 .. Len(cmds[c].children) :
                               cmds[c].children[i] \in 1 .. c - 1
  /\ place \in [Allocated -> Places]
  /\ frees \in [Allocated -> Nat]
  /\ \A k \in 1 .. Len(stack) : stack[k].cmd \in Allocated
  /\ result \in BOOLEAN /\ running \in BOOLEAN

Position(c) == CHOOSE i \in 1 .. Len(order) : order[i] = c
Executed == {order[i] : i \in 1 .. Len(order)}

\* No command is run twice, however deeply batches and results nest.
RunAtMostOnce == Cardinality(Executed) = Len(order)

\* A batch runs its children from left to right: nothing of a later child
\* runs before something of an earlier one.
BatchInOrder ==
  \A b \in Allocated : cmds[b].type = "batch" =>
    \A i, j \in 1 .. Len(cmds[b].children) : i < j =>
      \A x \in Tree[cmds[b].children[i]] \cap Executed :
        \A y \in Tree[cmds[b].children[j]] \cap Executed :
          Position(x) < Position(y)

\* Once the runtime has quit, a tree of commands unwinds: no batch starts
\* another child than its first.
QuitStopsBatches ==
  [][~running /\ Len(stack') > Len(stack) /\ stack # <<>>
       => InCmd("batch") /\ Top.next = 1]_cmdVars

\* When execute_cmd is back at the bottom, every command that was given to
\* the runtime has been freed or is the handler's, executed or not.
NothingLeaks ==
  stack = <<>> =>
    \A c \in Allocated : place[c] \notin {"app", "batch"} =>
      place[c] = "handler" \/ frees[c] >= 1

\* A command outside any batch is freed once, or given to the handler.
SingleFree ==
  \A c \in Allocated :
    (\A b \in Allocated : c \notin Tree[b] \ {b})
      => frees[c] + (IF place[c] = "handler" THEN 1 ELSE 0) <= 1

\* Each command has one owner: the application, one place in one batch, one
\* activation of execute_cmd, or the handler.  Until it is over nothing has
\* freed it, so that none is run, or put into a batch, after free().
OneOwner ==
  /\ \A b, d \in Allocated :
       \A i \in 1 .. Len(cmds[b].children), j \in 1 .. Len(cmds[d].children) :
         cmds[b].children[i] = cmds[d].children[j] => b = d /\ i = j
  /\ \A k, l \in 1 .. Len(stack) : stack[k].cmd = stack[l].cmd => k = l
  /\ \A c \in Allocated :
       /\ place[c] = "runtime" <=> \E k \in 1 .. Len(stack) : stack[k].cmd = c
       /\ place[c] \in {"app", "batch", "runtime"} => frees[c] = 0

\* Who holds which command, and how often each was freed.
Ownership == CTypeOK /\ OneOwner /\ RunAtMostOnce /\ SingleFree /\ NothingLeaks

\* tui_cmd_free is called once on each command.
NoDoubleFree == \A c \in Allocated : frees[c] <= 1

============================================================================
