------------------------------- MODULE TextView -------------------------------
(***************************************************************************)
(* The memory of the text view (textview.c): a text that is appended to or *)
(* cleared, in memory that doubles and whose realloc may fail.  Of the     *)
(* text only its length matters; the view copies all of it.                *)
(***************************************************************************)
EXTENDS Doubling

CONSTANTS
  Lengths,              \* of the texts appended
  TEXTVIEW_INITIAL_CAP,
  MaxText               \* bound on the text held

ASSUME TextViewAssumption ==
  /\ Lengths \subseteq Nat \ {0}
  /\ TEXTVIEW_INITIAL_CAP \in Nat \ {0}
  /\ MaxText \in Nat

VARIABLES
  content_len,   \* the bytes held
  content_cap,   \* the capacity on record
  allocated      \* ghost: the size of the memory behind content

tvVars == <<content_len, content_cap, allocated>>

TVInit ==
  /\ content_len = 0
  /\ content_cap = TEXTVIEW_INITIAL_CAP /\ allocated = TEXTVIEW_INITIAL_CAP

\* Mutant of TextNeeds: no room for the NUL.
TextNeedsBare(n) == content_len + n
TextNeeds(n) == content_len + n + 1

AppendText(n) ==
  /\ content_len + n <= MaxText
  /\ content_len' = content_len + n
  /\ \/ content_cap >= TextNeeds(n) /\ UNCHANGED <<content_cap, allocated>>
     \/ /\ content_cap < TextNeeds(n)
        /\ content_cap' = Doubled(content_cap, TextNeeds(n))
        /\ allocated' = content_cap'

\* realloc fails: nothing is appended.
AppendTextFails(n) == content_cap < TextNeeds(n) /\ UNCHANGED tvVars

ClearText == content_len' = 0 /\ UNCHANGED <<content_cap, allocated>>

TVNext == \/ \E n \in Lengths : AppendText(n) \/ AppendTextFails(n)
          \/ ClearText

TVSpec == TVInit /\ [][TVNext]_tvVars

-----------------------------------------------------------------------------
(* Properties *)

\* The bytes of the text and its NUL are inside the memory that was really
\* obtained, whatever was cleared and whatever reallocations failed before.
TVWithinMemory == content_len < allocated /\ content_cap <= allocated
=============================================================================
