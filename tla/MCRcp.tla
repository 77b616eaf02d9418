------------------------------- MODULE MCRcp -------------------------------
(* Rcp with the data a program may use: a short and a long buffer, one of  *)
(* them ending on a boundary of 0x2000 bytes, and three blocks for the PIF *)
(* that set its channels up differently.                                   *)
EXTENDS Rcp

MCBuffers == {[length |-> 1, edge |-> TRUE], [length |-> 2, edge |-> FALSE]}

MCWrites ==
    {{"clear halt"}, {"set halt"}, {"clear broke"}, {"clear intr"},
     {"clear halt", "clear broke", "set intr break"}, {"clear intr break", "set intr"}}

MCBlocks ==
    {[flag |-> "setup", for |-> <<"command", "skip">>],
     [flag |-> "setup", for |-> <<"reset", "command">>],
     [flag |-> "cic", for |-> <<"command", "command">>]}
=============================================================================
