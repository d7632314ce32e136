---------------------------- MODULE DownloadStore ----------------------------
(***************************************************************************)
(* The in-memory task store of one engine profile, the struct              *)
(* DownloadStore of crates/ariadeck-application/src/store.rs, as a record  *)
(* and one operator per method that changes it.  The coordinator           *)
(* (SyncCoordinator.tla) and the store's own state machine                 *)
(* (StoreMachine.tla) are both built from these operators.                 *)
(*                                                                         *)
(* Abstractions:                                                           *)
(*  - an order (Vec<Gid>) is the set of its members: what the properties   *)
(*    tell apart is which collection owns a task, not its row number;      *)
(*  - a DownloadTask is its status plus whether its data was read from     *)
(*    the engine or rebuilt from a history row (download_task_from_history *)
(*    leaves out the file count, so the two never compare equal);          *)
(*  - Paused behaves as Waiting and Verifying as Active in every guard of  *)
(*    the file, so the status domain keeps one of each;                    *)
(*  - a StorePatch is the one bit `patched`: was the patch that the last   *)
(*    call returned non-empty, which is what decides whether the           *)
(*    subscribers hear of the call (emit_patch, sync.rs 2114-2118).        *)
(***************************************************************************)
EXTENDS Naturals, FiniteSets, FiniteSetsExt

CONSTANTS
  Gid,        \* the task identifiers in play
  Offset,     \* the tellStopped offsets a page may be stored under
  NoTotal     \* stopped_total before the engine reported one (None)

ASSUME GidIsFinite == IsFiniteSet(Gid)
ASSUME OffsetsAreNaturals == Offset \subseteq Nat /\ 0 \in Offset
ASSUME OffsetsAreFinite == IsFiniteSet(Offset)  \* an offset is a usize
ASSUME NoTotalIsNoNumber == NoTotal \notin Nat

Status == {"Active", "Seeding", "Waiting", "Complete", "Error", "Removed"}

\* The statuses SQLite history keeps, and the only ones seeding accepts.
Recorded == {"Complete", "Error"}

Entry == Status \cup {"absent"}

Store == [
  gen:         Nat,                    \* session.generation
  tasks:       [Gid -> Entry],         \* tasks: HashMap<Gid, DownloadTask>
  fromHistory: SUBSET Gid,             \* entries built from a history row
  active:      SUBSET Gid,             \* active_order
  waiting:     SUBSET Gid,             \* waiting_order
  stopped:     SUBSET Gid,             \* stopped_order (a cache of the pages)
  history:     SUBSET Gid,             \* history_order
  historyOnly: SUBSET Gid,             \* history_only
  pages:       [Offset -> SUBSET Gid], \* stopped_pages, empty when not a key
  loaded:      SUBSET Offset,          \* the keys of stopped_pages
  total:       Nat \cup {NoTotal},     \* stopped_total
  seeding:     SUBSET Gid,             \* the keys of seeding_started_at
  stale:       BOOLEAN,
  patched:     BOOLEAN]

NewStore(g) == [
  gen |-> g, tasks |-> [x \in Gid |-> "absent"], fromHistory |-> {},
  active |-> {}, waiting |-> {}, stopped |-> {}, history |-> {},
  historyOnly |-> {}, pages |-> [o \in Offset |-> {}], loaded |-> {},
  total |-> NoTotal, seeding |-> {}, stale |-> FALSE, patched |-> FALSE]

\* The statuses an engine answer reports for the tasks of S.
Reports(S) == [S -> Status]

Known(s) == {x \in Gid : s.tasks[x] # "absent"}
Live(s)  == s.active \cup s.waiting
Paged(s) == UNION {s.pages[o] : o \in Offset}

-----------------------------------------------------------------------------
(* Private helpers of the store *)

\* upsert, for every gid of S with the status st gives it: insert or update
\* the entry, follow its seeding state, and take the gid away from history.
UpsertKeepingTheSource(s, S, st) ==
  [s EXCEPT
    !.tasks       = [x \in Gid |-> IF x \in S THEN st[x] ELSE @[x]],
    !.seeding     = (@ \ S) \cup {x \in S : st[x] = "Seeding"},
    !.historyOnly = @ \ S,
    !.history     = @ \ (S \cap s.historyOnly)]
UpsertKeepingHistoryOrder(s, S, st) ==
  [s EXCEPT
    !.tasks       = [x \in Gid |-> IF x \in S THEN st[x] ELSE @[x]],
    !.fromHistory = @ \ S,
    !.seeding     = (@ \ S) \cup {x \in S : st[x] = "Seeding"},
    !.historyOnly = @ \ S]
Upsert(s, S, st) ==
  [s EXCEPT
    !.tasks       = [x \in Gid |-> IF x \in S THEN st[x] ELSE @[x]],
    !.fromHistory = @ \ S,
    !.seeding     = (@ \ S) \cup {x \in S : st[x] = "Seeding"},
    !.historyOnly = @ \ S,
    !.history     = @ \ (S \cap s.historyOnly)]

\* What upsert writes into the patch: `inserted` or `updated` entries.
UpsertPatchesNewStatus(s, S, st) == \E x \in S : s.tasks[x] # st[x]
UpsertPatches(s, S, st) ==
  \E x \in S : s.tasks[x] # st[x] \/ x \in s.fromHistory

\* rebuild_stopped_order: the pages flattened, restricted to known tasks;
\* an engine page wins over history for the same gid.
RebuildStopped(s) ==
  LET stopped == Paged(s) \cap Known(s)
      only    == s.historyOnly \ stopped
  IN  [s EXCEPT
        !.stopped     = stopped,
        !.historyOnly = only,
        !.history     = IF s.historyOnly = {} THEN @ ELSE @ \cap only]

\* page.retain(..) over every page
CutNothing(s, S) == s
CutPages(s, S) == [s EXCEPT !.pages = [o \in Offset |-> @[o] \ S]]

\* tasks.remove and search_index.remove (seeding is not always cleared)
Forget(s, S) ==
  [s EXCEPT !.tasks = [x \in Gid |-> IF x \in S THEN "absent" ELSE @[x]],
            !.fromHistory = @ \ S]

-----------------------------------------------------------------------------
(* The operations *)

BeginSession(s, g) ==
  [s EXCEPT
    !.gen     = g,
    !.seeding = IF s.gen # g THEN {} ELSE @,
    !.stale   = TRUE,
    !.patched = s.gen # g \/ ~s.stale]

SetStale(s, b) == [s EXCEPT !.stale = b, !.patched = s.stale # b]

\* validate_unique over active and waiting: the caller reports DuplicateGid.
LiveIsUnique(A, W) == A \cap W = {}

ReconcileLive(s, A, W, st) ==
  LET live == A \cup W
      up   == Upsert(s, live, st)
      cut  == RebuildStopped(CutPages(up, live))
      gone == (Live(s) \ live) \ cut.stopped
  IN  [Forget(cut, gone) EXCEPT
        !.seeding = @ \ gone,
        !.active  = A,
        !.waiting = W,
        !.patched = \/ UpsertPatches(s, live, st)
                    \/ cut.stopped # s.stopped
                    \/ gone # {}
                    \/ A # s.active \/ W # s.waiting]

\* offset > total: the caller reports InvalidStoppedPage.
PageIsValid(offset, total) == total # NoTotal => offset <= total

\* The pages there are once a page is stored under offset: none may start at
\* or beyond a known total.
KeptPages(s, offset, total) ==
  IF total = NoTotal THEN s.loaded \cup {offset}
                     ELSE {o \in s.loaded \cup {offset} : o < total}

\* apply_stopped_page.  P is the page after the truncation to total - offset.
ApplyStoppedPage(s, offset, total, P, st) ==
  LET up   == Upsert(s, P, st)
      keep == KeptPages(s, offset, total)
      put  == [up EXCEPT
                !.active  = @ \ P,
                !.waiting = @ \ P,
                !.loaded  = keep,
                !.pages   = [o \in Offset |-> IF o \notin keep THEN {}
                                              ELSE IF o = offset THEN P ELSE @[o]],
                !.total   = IF total = NoTotal THEN @ ELSE total]
      cut  == RebuildStopped(put)
  IN  [cut EXCEPT
        !.patched = \/ UpsertPatches(s, P, st)
                    \/ cut.active # s.active \/ cut.waiting # s.waiting
                    \/ cut.stopped # s.stopped]

RemoveTasks(s, S) ==
  LET cut == RebuildStopped(
               [CutPages(Forget(s, S), S) EXCEPT
                 !.seeding     = @ \ (S \cap Known(s)),
                 !.historyOnly = @ \ S,
                 !.active      = @ \ S,
                 !.waiting     = @ \ S,
                 !.history     = @ \ S])
  IN  [cut EXCEPT
        !.patched = \/ S \cap Known(s) # {}
                    \/ cut.history # s.history \/ cut.active # s.active
                    \/ cut.waiting # s.waiting \/ cut.stopped # s.stopped]

\* apply_task_snapshot: a tellStatus answer for one gid; "absent" is None.
ApplyTaskSnapshot(s, x, status) ==
  IF status = "absent"
    THEN RemoveTasks(s, {x})
    ELSE LET st == [y \in {x} |-> status]
         IN  [Upsert(s, {x}, st) EXCEPT !.patched = UpsertPatches(s, {x}, st)]

\* refresh_targeted: one snapshot after the other, for the gids of S.  They
\* concern different tasks, so their order does not matter.
ApplyTaskSnapshots(s, S, status) ==
  LET absent == {x \in S : status[x] = "absent"}
      found  == S \ absent
  IN  Upsert(RemoveTasks(s, absent), found, [x \in found |-> status[x]])

\* The gids seed_local_history leaves to the engine.
EngineOwned(s) == Live(s) \cup s.stopped

\* seed_local_history.  H is the set of gids with a row, rec their statuses.
SeedUnknownOnly(s, H, rec) ==
  LET only == H \ Known(s)
  IN  [s EXCEPT
        !.tasks       = [x \in Gid |-> IF x \in only THEN rec[x] ELSE @[x]],
        !.fromHistory = @ \cup only,
        !.historyOnly = only,
        !.history     = only,
        !.patched     = only # {} \/ s.history # only]
SeedLocalHistory(s, H, rec) ==
  LET only == H \ EngineOwned(s)
      hint == (H \cap EngineOwned(s)) \ Known(s)
  IN  [s EXCEPT
        !.tasks       = [x \in Gid |-> IF x \in only \cup hint THEN rec[x] ELSE @[x]],
        !.fromHistory = @ \cup only \cup hint,
        !.historyOnly = only,
        !.history     = only,
        !.patched     = only # {} \/ hint # {} \/ s.history # only]

\* The entries remove_history_only deletes of the gids S.
AnyEntry(s, S) == S
HistoryEntries(s, S) == S \cap s.historyOnly

RemoveHistoryOnly(s, S) ==
  LET gone == HistoryEntries(s, S)
  IN  [Forget(s, gone) EXCEPT
        !.historyOnly = @ \ gone,
        !.history     = @ \ S,
        !.patched     = gone \cap Known(s) # {} \/ s.history \cap S # {}]

-----------------------------------------------------------------------------
(* What a consistent store is *)

\* A task has one owner: no gid is listed by two of the active, waiting,
\* stopped and history orders.
HasOneOwner(s) ==
  /\ s.active \cap s.waiting = {}
  /\ Live(s) \cap s.stopped = {}
  /\ EngineOwned(s) \cap s.history = {}

Listed(s) == EngineOwned(s) \cup s.history

\* Derived state agrees with what it is derived from: stopped_order is the
\* pages flattened, a page that is not stored is empty, and history_order
\* lists exactly history_only.
HasFreshIndexes(s) ==
  /\ s.stopped = Paged(s)
  /\ \A o \in Offset \ s.loaded : s.pages[o] = {}
  /\ s.history = s.historyOnly

Consistent(s) ==
  /\ HasOneOwner(s)
  /\ Listed(s) \subseteq Known(s)
  /\ HasFreshIndexes(s)
  /\ EngineOwned(s) \cap s.fromHistory = {}

-----------------------------------------------------------------------------
(* Stopped paging, as the coordinator and the list footer read it *)

\* The lengths of the pages of S, added up: the number of their entries.
PageLengths(s, S) == Cardinality({e \in S \X Gid : e[2] \in s.pages[e[1]]})

LengthBefore(s, o) == PageLengths(s, {p \in s.loaded : p < o})

\* The pages that start beyond everything the pages before them hold.
Gaps(s) == {o \in s.loaded : o > LengthBefore(s, o)}

\* next_stopped_offset: walk the pages in offset order, adding their lengths,
\* and stop in front of the first gap.
NextStoppedOffset(s) ==
  IF Gaps(s) = {} THEN PageLengths(s, s.loaded)
                  ELSE LengthBefore(s, Min(Gaps(s)))

CanLoadMoreStopped(s) ==
  IF s.total = NoTotal THEN s.loaded = {} ELSE NextStoppedOffset(s) < s.total
=============================================================================
