----------------------------- MODULE StoreMachine -----------------------------
(***************************************************************************)
(* The DownloadStore under every sequence of legal calls, whatever order   *)
(* the answers of the engine arrive in: any live snapshot, any stopped     *)
(* page, any tellStatus answer, any set of history rows.  What holds here  *)
(* holds for each coordinator that drives the store, so the store's own    *)
(* consistency is stated, checked and proved in this module.               *)
(***************************************************************************)
EXTENDS DownloadStore

CONSTANTS
  PageSize,   \* stopped_page_size
  MaxTotal,   \* bound: the largest numStoppedTotal an engine reports
  MaxGen      \* bound: the number of reconnections

ASSUME StoreBounds == PageSize \in Nat \ {0} /\ MaxTotal \in Nat /\ MaxGen \in Nat

VARIABLE store

Totals == (0 .. MaxTotal) \cup {NoTotal}

Init == store = NewStore(0)

\* ensure_generation: a call made for another session returns an error.
CurrentGeneration(g) == g = store.gen

BeginSessionCall ==
  /\ store.gen < MaxGen
  /\ store' = BeginSession(store, store.gen + 1)

SetStaleCall(g) ==
  /\ CurrentGeneration(g)
  /\ \E b \in BOOLEAN : store' = SetStale(store, b)

\* tellActive answers active or seeding tasks, tellWaiting waiting ones.
ReconcileLiveCall(g) ==
  /\ CurrentGeneration(g)
  /\ \E A, W \in SUBSET Gid : \E S \in SUBSET A :
       /\ LiveIsUnique(A, W)
       /\ store' = ReconcileLive(store, A, W,
                     [x \in A \cup W |-> IF x \in S THEN "Seeding"
                                         ELSE IF x \in A THEN "Active" ELSE "Waiting"])

ApplyStoppedPageCall(g) ==
  /\ CurrentGeneration(g)
  /\ \E offset \in Offset, total \in Totals, P \in SUBSET Gid :
       /\ PageIsValid(offset, total)
       /\ Cardinality(P) <= PageSize
       /\ total # NoTotal => offset + Cardinality(P) <= total
       /\ \E st \in [P -> {"Complete", "Removed"}] :
            store' = ApplyStoppedPage(store, offset, total, P, st)

ApplyTaskSnapshotCall(g) ==
  /\ CurrentGeneration(g)
  /\ \E x \in Gid, status \in Entry \ {"Error"} :
       store' = ApplyTaskSnapshot(store, x, status)

SeedLocalHistoryCall(g) ==
  /\ CurrentGeneration(g)
  /\ \E H \in SUBSET Gid :
       store' = SeedLocalHistory(store, H, [x \in Gid |-> "Complete"])

RemoveHistoryOnlyCall(g) ==
  /\ CurrentGeneration(g)
  /\ \E S \in SUBSET Gid : store' = RemoveHistoryOnly(store, S)

Next ==
  \/ BeginSessionCall
  \/ \E g \in 0 .. MaxGen :
       \/ SetStaleCall(g)
       \/ ReconcileLiveCall(g)
       \/ ApplyStoppedPageCall(g)
       \/ ApplyTaskSnapshotCall(g)
       \/ SeedLocalHistoryCall(g)
       \/ RemoveHistoryOnlyCall(g)

Spec == Init /\ [][Next]_store

-----------------------------------------------------------------------------
(* Properties *)

\* The store has its type: every order, page and index ranges over the gids.
TypeOK == store \in Store

\* One owner per task, whatever order live polls, stopped pages and history
\* rows were applied in: reconcile_live takes live gids out of the pages,
\* apply_stopped_page takes page gids out of the live orders, upsert and
\* rebuild_stopped_order take both out of history.
OneOwner == HasOneOwner(store)

\* Every listed gid has a task entry: a row the counts and filters of view.rs
\* include can always be rendered, although entries are deleted in three
\* places and orders are edited in five.
ListedTasksAreKnown == Listed(store) \subseteq Known(store)

\* No operation edits a page, a task or history_only and forgets the order
\* that is derived from it.
DerivedStateIsFresh == HasFreshIndexes(store)

\* An entry whose data came from a history row is never listed as a live or
\* stopped task: a list the engine owns shows what the engine said.
EngineListsShowEngineData == EngineOwned(store) \cap store.fromHistory = {}

\* What the lists show of the store.
Visible(s) ==
  <<s.gen, s.stale, s.active, s.waiting, s.stopped, s.history,
    [x \in Listed(s) |-> s.tasks[x]]>>

\* No silent change: a call that changes what the lists show returns a
\* non-empty patch, so emit_patch tells the subscribers.
ChangesArePatched ==
  [][Visible(store') # Visible(store) => store'.patched]_store
=============================================================================
