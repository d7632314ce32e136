--------------------------- MODULE SyncCoordinator ---------------------------
(***************************************************************************)
(* The synchronisation coordinator of application/src/sync.rs at work: the *)
(* connection loop, the store it owns, the refreshes and commands of       *)
(* run_connected, the SQLite history, and an engine that moves while the   *)
(* coordinator waits for its answers.                                      *)
(*                                                                         *)
(* run_connected is one task: while a refresh awaits an answer no other    *)
(* command, hint or tick is served.  A refresh of one answer is one action;*)
(* a refresh of several answers is a job, and the engine may move between  *)
(* them.  refresh_stopped_page is two requests (rpc/src/sync.rs 182-189):  *)
(* the total is read before the page.                                      *)
(*                                                                         *)
(* Left out: the global statistics (no property reads them), task details, *)
(* settings applied to the engine, categories and output names.            *)
(***************************************************************************)
EXTENDS Connection, Aria2Engine

CONSTANTS
  PageSize,  \* stopped_page_size
  Controls   \* the controls users send in a run

ASSUME PageSizeIsPositive == PageSize \in Nat \ {0}
ASSUME ControlsAreKnown == Controls \subseteq {"ForceRefresh", "LoadMore", "Remove", "Mutate"}

VARIABLES
  pending,  \* pending_tasks and pending_full of run_connected
  job,      \* the refresh in progress
  db,       \* the gids with a row in SQLite history
  answered  \* for the properties: the definite answer to Remove, per gid

serviceVars == <<pending, job, db, answered>>
vars == <<connectionVars, engineVars, serviceVars>>

Jobs == [
  kind:    {"none", "full", "poll", "more"}, \* refresh_all, stopped tick, Load more
  active:  SUBSET Gid,          \* the live lists refresh_all fetched first
  waiting: SUBSET Gid,
  offset:  Nat,
  through: Nat,                 \* loaded_through
  total:   Nat \cup {NoTotal}]  \* numStoppedTotal, once it was answered

NoJob == [kind |-> "none", active |-> {}, waiting |-> {},
          offset |-> 0, through |-> 0, total |-> NoTotal]

TypeOK ==
  /\ ConnectionTypeOK
  /\ EngineTypeOK
  /\ pending \in Hints
  /\ job \in Jobs
  /\ db \subseteq Gid
  /\ answered \in [Gid -> {"none", "removed", "refused"}]

Init ==
  /\ \E H \in SUBSET Gid : InitConnection(H) /\ InitEngine(H) /\ db = H
  /\ pending = NoHints
  /\ job = NoJob
  /\ answered = [x \in Gid |-> "none"]

-----------------------------------------------------------------------------
(* History *)

\* persist_terminal_snapshots: the rows of the tasks of S after the upserts.
PersistFailed(S) == db \cup {x \in S : eng[x] = "Error"}
PersistAll(S) == db \cup S
Persist(S) == db \cup {x \in S : eng[x] \in Recorded}

\* seed_history_into_store
Seed(s, H) == SeedLocalHistory(s, H, [x \in Gid |-> "Complete"])

-----------------------------------------------------------------------------
(* Answers, and what the coordinator does with them *)

Reported(S) == [x \in S |-> eng[x]]

ApplyLive(s, A, W) ==
  ReconcileLive(s, A, W, [x \in A \cup W |-> IF x \in A THEN "Active" ELSE "Waiting"])

\* apply_stopped_page cuts the page to the total - offset oldest results.
ApplyPage(s, offset, total) ==
  LET P == ResultsFrom(offset, Min({PageSize, total - offset}))
  IN  ApplyStoppedPage(s, offset, total, P, Reported(P))

\* The session is over: its hints and its unfinished refresh are dropped.
EndSession == job' = NoJob /\ pending' = NoHints /\ hints' = NoHints

LoseSession(retryable) ==
  /\ SessionLost(retryable)
  /\ EndSession
  /\ UNCHANGED <<eng, results, answered>>

\* initial_snapshot is one batch, applied by apply_initial_snapshot.
ApplyInitialSnapshot ==
  LET page == ResultsFrom(0, PageSize)
      s    == ApplyLive(ApplyPage(store, 0, Len(results)), EngineActive, EngineWaiting)
  IN  /\ db' = Persist(page)
      /\ SnapshotApplied(Seed(s, Persist(page)))
      /\ UNCHANGED <<engineVars, pending, job, answered>>

Idle == Awaiting("Connected") /\ job = NoJob

\* Events reach pending_tasks and pending_full.
ReceiveHints ==
  /\ Idle
  /\ hints # NoHints
  /\ pending' = [tasks |-> pending.tasks \cup hints.tasks,
                 full  |-> pending.full \/ hints.full]
  /\ hints' = NoHints
  /\ UNCHANGED <<connectionVars, eng, results, job, db, answered>>

\* Bound: pages are only requested under the offsets in Offset.
InBounds(offset) == offset \in Offset

LoadedThrough == Max({NextStoppedOffset(store), PageSize})

\* refresh_all: the live lists are fetched now and applied after the pages.
BeginRefreshAll ==
  job' = [NoJob EXCEPT !.kind = "full", !.through = LoadedThrough,
                       !.active = EngineActive, !.waiting = EngineWaiting]

ForceRefresh ==
  /\ "ForceRefresh" \in Controls
  /\ Idle
  /\ BeginRefreshAll
  /\ UNCHANGED <<connectionVars, engineVars, pending, db, answered>>

NotificationTickFull ==
  /\ Idle
  /\ pending.full
  /\ BeginRefreshAll
  /\ pending' = NoHints
  /\ UNCHANGED <<connectionVars, engineVars, db, answered>>

TargetedTickFirst ==
  /\ Idle
  /\ pending.tasks # {}
  /\ db' = Persist(pending.tasks)
  /\ store' = ApplyTaskSnapshots(store, pending.tasks, [x \in Gid |-> TellStatus(x)])
  /\ pending' = NoHints
  /\ UNCHANGED <<phase, state, attempt, first, cancelled, engineVars, job, answered>>
\* refresh_targeted: one batch of tellStatus, applied task after task.
NotificationTickTargeted ==
  /\ Idle
  /\ ~pending.full
  /\ pending.tasks # {}
  /\ db' = Persist(pending.tasks)
  /\ store' = ApplyTaskSnapshots(store, pending.tasks, [x \in Gid |-> TellStatus(x)])
  /\ pending' = NoHints
  /\ UNCHANGED <<phase, state, attempt, first, cancelled, engineVars, job, answered>>

LiveTick ==
  /\ Idle
  /\ store' = ApplyLive(store, EngineActive, EngineWaiting)
  /\ UNCHANGED <<phase, state, attempt, first, cancelled, engineVars, serviceVars>>

StoppedTickFromTheEnd ==
  /\ Idle
  /\ job' = [NoJob EXCEPT !.kind = "poll", !.offset = NextStoppedOffset(store),
                          !.through = LoadedThrough]
  /\ UNCHANGED <<connectionVars, engineVars, pending, db, answered>>
StoppedTick ==
  /\ Idle
  /\ job' = [NoJob EXCEPT !.kind = "poll", !.through = LoadedThrough]
  /\ UNCHANGED <<connectionVars, engineVars, pending, db, answered>>

LoadMoreStopped ==
  /\ "LoadMore" \in Controls
  /\ Idle
  /\ CanLoadMoreStopped(store)
  /\ InBounds(NextStoppedOffset(store))
  /\ job' = [NoJob EXCEPT !.kind = "more", !.offset = NextStoppedOffset(store)]
  /\ UNCHANGED <<connectionVars, engineVars, pending, db, answered>>

ReadTotalFromOffset ==
  /\ Awaiting("Connected")
  /\ job # NoJob
  /\ job.total = NoTotal
  /\ job' = [job EXCEPT !.total = Len(results) - job.offset]
  /\ UNCHANGED <<connectionVars, engineVars, pending, db, answered>>
\* refresh_stopped_page, first answer: getGlobalStat.
ReadTotal ==
  /\ Awaiting("Connected")
  /\ job # NoJob
  /\ job.total = NoTotal
  /\ job' = [job EXCEPT !.total = Len(results)]
  /\ UNCHANGED <<connectionVars, engineVars, pending, db, answered>>

\* The pages end where the loaded ones did, or where the results do.
PagesDone == job.kind = "more" \/ job.offset + PageSize >= Min({job.through, job.total})

PageArrived == Awaiting("Connected") /\ job # NoJob /\ job.total # NoTotal

\* Second answer, tellStopped: InvalidStoppedPage ends the session for good.
PageRejected ==
  /\ PageArrived
  /\ ~PageIsValid(job.offset, job.total)
  /\ db' = Persist(ResultsFrom(job.offset, PageSize))
  /\ LoseSession(FALSE)

PageApplied ==
  /\ PageArrived
  /\ PageIsValid(job.offset, job.total)
  /\ db' = Persist(ResultsFrom(job.offset, PageSize))
  /\ UNCHANGED <<phase, state, attempt, first, cancelled, engineVars, pending, answered>>

NextPage ==
  /\ PageApplied
  /\ ~PagesDone
  /\ InBounds(job.offset + PageSize)
  /\ store' = ApplyPage(store, job.offset, job.total)
  /\ job' = [job EXCEPT !.offset = @ + PageSize, !.total = NoTotal]

\* The last page: refresh_all now applies the live lists, and history is
\* seeded again; the stopped tick does neither.
LastPage ==
  /\ PageApplied
  /\ PagesDone
  /\ LET s == ApplyPage(store, job.offset, job.total)
     IN  store' = CASE job.kind = "full" -> Seed(ApplyLive(s, job.active, job.waiting), db')
                    [] job.kind = "more" -> Seed(s, db')
                    [] job.kind = "poll" -> s
  /\ job' = NoJob

\* Any request of the session fails, or the hint stream closes.
RequestFails(retryable) ==
  /\ MayFail
  /\ LoseSession(retryable)
  /\ UNCHANGED db

-----------------------------------------------------------------------------
(* Commands *)

\* The store knows x, so CommandService has a context to act on.  A terminal
\* status asks the engine to drop a result; any other to stop a live task, or
\* to drop its result if it became one meanwhile (client.rs 1053-1066).
Terminal == {"Complete", "Error", "Removed"}

CanRemove(x) ==
  \/ x \in ToSet(results)
  \/ x \in EngineLive /\ store.tasks[x] \notin Terminal

RemoveFromEngine(x) ==
  \/ /\ DropResult(x)
     /\ UNCHANGED hints
  \/ /\ store.tasks[x] \notin Terminal
     /\ StopLive(x)
     /\ hints' = FullHint

RemoveRequested(x) ==
  /\ "Remove" \in Controls
  /\ Idle
  /\ x \in Known(store)

AskForFullRefresh == pending' = [pending EXCEPT !.full = TRUE]

\* A confirmed removal stays confirmed when the user asks again.
Answer(x, a) == answered' = [answered EXCEPT ![x] = IF @ = "removed" THEN @ ELSE a]

\* A confirmed removal deletes the history row and its entry in the store.
RemoveSucceeds(x) ==
  /\ RemoveRequested(x)
  /\ RemoveFromEngine(x)
  /\ db' = db \ {x}
  /\ store' = RemoveHistoryOnly(store, {x})
  /\ AskForFullRefresh
  /\ Answer(x, "removed")
  /\ UNCHANGED <<phase, state, attempt, first, cancelled, job>>

\* The engine refuses, and the command reports a failure: nothing changes.
RemoveRefused(x) ==
  /\ RemoveRequested(x)
  /\ ~CanRemove(x)
  /\ Answer(x, "refused")
  /\ UNCHANGED <<connectionVars, engineVars, pending, job, db>>

\* The answer is lost (OutcomeUnknown): the engine may have acted, and the
\* coordinator only asks for the authoritative state.
RemoveUnknown(x) ==
  /\ RemoveRequested(x)
  /\ RemoveFromEngine(x) \/ UNCHANGED engineVars
  /\ AskForFullRefresh
  /\ UNCHANGED <<connectionVars, job, db, answered>>

\* Pause, resume, retry, options: a success or an unknown outcome asks for a
\* refresh; what the engine does about it is one of its own moves.
Mutate ==
  /\ "Mutate" \in Controls
  /\ Idle
  /\ \/ AskForFullRefresh
     \/ \E x \in Known(store) : pending' = [pending EXCEPT !.tasks = @ \cup {x}]
  /\ UNCHANGED <<connectionVars, engineVars, job, db, answered>>

-----------------------------------------------------------------------------
(* Composition *)

\* A step of the loop that leaves the engine and the session alone.
LoopStep(A) == A /\ UNCHANGED <<engineVars, serviceVars>>

\* What the engine announced before the new connection subscribed is not heard.
Connect ==
  /\ ConnectSucceeds
  /\ hints' = NoHints
  /\ UNCHANGED <<eng, results, serviceVars>>

\* Bound: nobody watches the engine once the coordinator has stopped.
EngineStep ==
  /\ phase # "Stopped"
  /\ EngineNext
  /\ UNCHANGED <<connectionVars, serviceVars>>

\* An engine that exits takes its session along first.
EngineRestart ==
  /\ phase \notin {"Snapshot", "Connected", "Stopped"}
  /\ Restart
  /\ UNCHANGED <<connectionVars, serviceVars>>

Command ==
  \/ Mutate
  \/ \E x \in Gid : RemoveSucceeds(x) \/ RemoveRefused(x) \/ RemoveUnknown(x)

NotificationTick == NotificationTickFull \/ NotificationTickTargeted
ReadPage == NextPage \/ LastPage \/ PageRejected

Refresh ==
  \/ ReceiveHints
  \/ NotificationTick \/ LiveTick \/ StoppedTick
  \/ ReadTotal \/ ReadPage

Next ==
  \/ LoopStep(BeginAttempt)
  \/ Connect
  \/ LoopStep(AttemptFails)
  \/ ApplyInitialSnapshot
  \/ LoopStep(RetryDelayEnds) \/ LoopStep(ManualRetry)
  \/ LoopStep(Cancel) \/ LoopStep(Stop)
  \/ Refresh
  \/ ForceRefresh
  \/ LoadMoreStopped
  \/ Command
  \/ \E retryable \in BOOLEAN : RequestFails(retryable)
  \/ EngineStep
  \/ EngineRestart

\* Fairness.  ENABLED would compute a store in every state, so for a step that
\* does the enabling condition G is written out, as the guards of A:
\* []<>~G \/ []<><<A>>_v is WF_v(A), and <>[]~G \/ []<><<A>>_v is SF_v(A).

\* The awaits of the loop end by themselves: requests have timeouts, delays
\* elapse, and cancellation wakes every select; only the manual retry is left
\* to the user.
SnapshotArrives == ApplyInitialSnapshot \/ LoopStep(AttemptFails)

LoopFairness ==
  /\ WF_vars(LoopStep(BeginAttempt))
  /\ WF_vars(Connect \/ LoopStep(AttemptFails))
  /\ []<>(~Awaiting("Snapshot")) \/ []<><<SnapshotArrives>>_vars
  /\ WF_vars(LoopStep(RetryDelayEnds))
  /\ WF_vars(LoopStep(Stop))

\* A request of a refresh is answered.
AnswerFairness ==
  /\ WF_vars(ReadTotal)
  /\ []<>(~PageArrived) \/ []<><<ReadPage>>_vars

\* The timers keep firing.  A tick waits for the refresh in progress, so it is
\* possible again and again rather than all the time.
LiveTickMatters == Idle /\ store # ApplyLive(store, EngineActive, EngineWaiting)
PollFairness ==
  /\ <>[](~LiveTickMatters) \/ []<><<LiveTick>>_vars
  /\ <>[](~Idle) \/ []<><<StoppedTick>>_vars

NotificationDue == Idle /\ pending # NoHints
NotificationFairness ==
  /\ SF_vars(ReceiveHints)
  /\ <>[](~NotificationDue) \/ []<><<NotificationTick>>_vars

Spec == Init /\ [][Next]_vars
LoopSpec == Spec /\ LoopFairness
SessionSpec == Spec /\ AnswerFairness /\ PollFairness /\ NotificationFairness

-----------------------------------------------------------------------------
(* Safety *)

\* Every completed or failed task that the store shows has its history row,
\* or was removed by the user: whichever refresh a terminal status arrives
\* through, it is persisted before it is shown.
TerminalTasksAreRecorded ==
  \A x \in Known(store) :
    store.tasks[x] \in Recorded => x \in db \/ answered[x] = "removed"

\* A task whose removal was confirmed does not come back into the history,
\* although the engine keeps a stopped task among its results and later
\* refreshes report it.
RemovalIsFinal == \A x \in Gid : answered[x] = "removed" => x \notin db

\* Automatic retries are limited: the delay before another attempt is only
\* entered when fewer than max_attempts have failed in a row.
AutomaticRetriesAreLimited ==
  phase = "RetryDelay" /\ MaxAttempts # Unlimited => attempt < MaxAttempts

\* "History survives aria2 restarts" (roadmap.md 110): when a session goes
\* online every row of the history is listed, whichever of its tasks the
\* engine still holds, has dropped, or lists differently than before.
HistorySurvivesReconnect ==
  [][phase # "Connected" /\ phase' = "Connected" => db' \subseteq Listed(store')]_vars

-----------------------------------------------------------------------------
(* Refinement: the lifecycle of sessions *)

Lifecycle == INSTANCE SessionLifecycle WITH
  online <- state = "Connected",
  gen    <- store.gen,
  stale  <- store.stale,
  open   <- phase \in {"Connecting", "Snapshot"} \/ (phase = "LoopHead" /\ first),
  over   <- phase = "Stopped"

RefinesLifecycle == Lifecycle!Spec

-----------------------------------------------------------------------------
(* Liveness *)

\* No attempt hangs: from wherever the loop stands it comes to a session, to
\* a failure that waits for the user, or to its end.
AttemptsEnd == (phase # "Stopped") ~> (phase \in {"Connected", "ManualRetry", "Stopped"})

\* Cancellation reaches the loop at every await, mid-refresh included.
CancellationStops == cancelled ~> phase = "Stopped"

\* "Unknown mutations - one authoritative refresh": whatever asked for a full
\* refresh gets one that begins later, unless the session ends first.
FullRefreshFollows ==
  pending.full ~> \/ job.kind = "full"
                  \/ phase # "Connected" \/ cancelled

\* The first page of results and the live lists, as the engine has them.
ShowsTheEngine ==
  /\ store.active = EngineActive
  /\ store.waiting = EngineWaiting
  /\ store.pages[0] = ResultsFrom(0, PageSize)
  /\ \A x \in EngineLive \cup store.pages[0] : store.tasks[x] = eng[x]

\* A session that lasts converges: whatever interleaving of ticks, hints,
\* commands and engine moves came before, and although refresh_all applies
\* live lists older than its pages, the store ends up showing the engine.
SessionConverges ==
  <>[](phase = "Connected" /\ ~cancelled) => <>[]ShowsTheEngine

-----------------------------------------------------------------------------
(* What the documents say and the code does not do *)

\* project-context.md 134: "User Remove deletes the matching history row."
RemoveDeletesHistoryRow == \A x \in Gid : answered[x] = "refused" => x \notin db
=============================================================================
