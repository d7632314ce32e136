------------------------------ MODULE MCDetails ------------------------------
(***************************************************************************)
(* DetailsDrawer for TLC, with one task that nothing follows.               *)
(***************************************************************************)
EXTENDS DetailsDrawer

NothingFollowsIt == [t \in Download |-> NoDownload]
=============================================================================
