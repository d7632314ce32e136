--------------------------- MODULE SessionLifecycle ---------------------------
(***************************************************************************)
(* What the coordinator promises the views about engine sessions, stated   *)
(* without its loop: every connection attempt has a generation of its own, *)
(* a generation goes online at most once, and what the store holds counts  *)
(* as fresh from the moment a session goes online until something failed.  *)
(* The generation is what views and commands are checked against           *)
(* (EngineSession, ensure_generation, stale_session_error).                *)
(***************************************************************************)
EXTENDS Naturals

VARIABLES
  online,  \* is the session announced as Connected
  gen,     \* the generation of the store
  stale,   \* is what the store holds marked stale
  open,    \* may this generation still go online
  over     \* has the coordinator ended

vars == <<online, gen, stale, open, over>>

Init == online = FALSE /\ gen = 0 /\ stale = FALSE /\ open = TRUE /\ over = FALSE

\* A new attempt: nothing of the old generation is fresh any more.
Attempt ==
  /\ ~online /\ ~open /\ ~over
  /\ gen' = gen + 1
  /\ open' = TRUE
  /\ stale' = TRUE
  /\ UNCHANGED <<online, over>>

GoOnline ==
  /\ ~online /\ open
  /\ online' = TRUE
  /\ open' = FALSE
  /\ stale' = FALSE
  /\ UNCHANGED <<gen, over>>

\* The attempt failed, or the session was lost.
Fail ==
  /\ online \/ open
  /\ online' = FALSE
  /\ open' = FALSE
  /\ stale' = TRUE
  /\ UNCHANGED <<gen, over>>

\* The coordinator stops for good: what was fresh is kept as the last view.
Stop ==
  /\ ~over
  /\ over' = TRUE
  /\ online' = FALSE
  /\ open' = FALSE
  /\ UNCHANGED <<gen, stale>>

Next == Attempt \/ GoOnline \/ Fail \/ Stop

Spec == Init /\ [][Next]_vars
=============================================================================
