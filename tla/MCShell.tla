------------------------------- MODULE MCShell -------------------------------
(***************************************************************************)
(* ShellCommands for TLC, with three tasks of one profile.                  *)
(***************************************************************************)
EXTENDS ShellCommands, TLC

CONSTANTS t1, t2, t3

OfOneProfile   == (t1 :> 1) @@ (t2 :> 1) @@ (t3 :> 1)
NothingFollows == (t1 :> NoTask) @@ (t2 :> NoTask) @@ (t3 :> NoTask)
=============================================================================
