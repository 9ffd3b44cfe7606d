----------------------------- MODULE MCCommands -----------------------------
(* Instances of Commands for TLC.                                            *)
EXTENDS Commands

\* Five commands are two nested batches of leaves.
Programs ==
  {[cmd_handler |-> TRUE, leaf |-> {"quit", "custom", "delegated"}, max |-> 5,
    batch |-> {2}],
   [cmd_handler |-> FALSE, max |-> 4, batch |-> 0 .. 3,
    leaf |-> {"quit", "custom", "clipboard", "delegated"}]}

SmallProgram == {[cmd_handler |-> FALSE, leaf |-> {"quit", "custom"}, max |-> 3,
                  batch |-> {2}]}
=============================================================================
