------------------------------ MODULE Mailbox ------------------------------
(***************************************************************************)
(* What tui_runtime_post promises its callers: a mailbox that hands every  *)
(* accepted message to update() once, in the order of the posts, for as    *)
(* long as the runtime is running, and that throws the rest away once it   *)
(* has been told to quit.  Messages are numbered in the order of the       *)
(* posts; EventQueue implements this module with two buffers and a pipe.   *)
(***************************************************************************)
EXTENDS Naturals, Sequences

CONSTANT MaxMsgs        \* bound on the number of posts

VARIABLES
  pending,    \* numbers of the messages accepted and not yet taken
  accepted,   \* how many messages have been accepted
  delivered,  \* number of the last message given to update(), 0 at first
  open        \* FALSE once the runtime has been told to quit

vars == <<pending, accepted, delivered, open>>

Init ==
  /\ pending = <<>>
  /\ accepted = 0
  /\ delivered = 0
  /\ open = TRUE

Put ==
  /\ accepted < MaxMsgs
  /\ accepted' = accepted + 1
  /\ pending' = Append(pending, accepted + 1)
  /\ UNCHANGED <<delivered, open>>

Deliver ==
  /\ open
  /\ pending # <<>>
  /\ delivered' = Head(pending)
  /\ pending' = Tail(pending)
  /\ UNCHANGED <<accepted, open>>

Discard ==
  /\ ~open
  /\ pending # <<>>
  /\ pending' = Tail(pending)
  /\ UNCHANGED <<accepted, delivered, open>>

Close ==
  /\ open' = FALSE
  /\ UNCHANGED <<pending, accepted, delivered>>

Next == Put \/ Deliver \/ Discard \/ Close

Spec == Init /\ [][Next]_vars
============================================================================
