------------------------------ MODULE ByteBuffer -----------------------------
(***************************************************************************)
(* What dynamic_buffer.h promises: a buffer holds the bytes appended since *)
(* it was cleared, and an append that fails adds none of its bytes.        *)
(***************************************************************************)
EXTENDS Sequences

CONSTANT Strings   \* what is appended

VARIABLES
  text,     \* the bytes held
  result    \* what the last append returned: "ok" or "failed"

textVars == <<text, result>>

Init == text = <<>> /\ result = "ok"

Put(s)  == text' = text \o s /\ result' = "ok"
Refuse  == text' = text /\ result' = "failed"
Empty   == text' = <<>> /\ result' = result

Next == (\E s \in Strings : Put(s)) \/ Refuse \/ Empty

Spec == Init /\ [][Next]_textVars
=============================================================================
