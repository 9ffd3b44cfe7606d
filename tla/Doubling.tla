------------------------------- MODULE Doubling ------------------------------
(***************************************************************************)
(* How a buffer of the text view or of a paste grows: its capacity is      *)
(* doubled until it is enough.                                             *)
(***************************************************************************)
EXTENDS Integers

\* The capacity doubled until it holds n bytes.
Doubled(cap, n) ==
  LET grow[c \in Nat \ {0}] == IF c >= n THEN c ELSE grow[2 * c]
  IN  grow[cap]
=============================================================================
