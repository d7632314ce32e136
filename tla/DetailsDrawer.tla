---------------------------- MODULE DetailsDrawer ----------------------------
(***************************************************************************)
(* The drawer that shows the details of one task                            *)
(* (crates/ariadeck-ui/src/shell): the row of the task carries a revision,  *)
(* which the store counts up with every change of the task; snapshots with  *)
(* a newer revision, with another session or with the task that follows the *)
(* one shown ask for new details, and the answers come in any order.        *)
(* Details refreshed because of a revision are asked for at most once in    *)
(* 500 ms.  The store forgets a task that left every list and counts from 1 *)
(* when it is listed again.  Not modelled: what the details say, the        *)
(* connection data cleared when a task stops, and a second profile.         *)
(***************************************************************************)
EXTENDS Naturals

CONSTANTS
  Download,     \* tasks
  FollowedBy,   \* the task that follows a task, or NoDownload
  NoDownload, NoDrawer, NoRow,
  MaxVersion,   \* bound: states of a task in aria2
  MaxAttempts,  \* bound: engine sessions
  MaxUnderWay   \* bound: requests without an answer

ASSUME DetailsAssumption ==
  /\ FollowedBy \in [Download -> Download \cup {NoDownload}]
  /\ NoDownload \notin Download
  /\ \A t \in Download : FollowedBy[t] \in Download => FollowedBy[FollowedBy[t]] = NoDownload
  /\ MaxVersion \in Nat \ {0} /\ MaxAttempts \in Nat \ {0} /\ MaxUnderWay \in Nat \ {0}

VARIABLES
  version,   \* the state of each task in aria2
  revision,  \* DownloadTask::revision in the store, 0 for no entry
  listed,    \* snapshot.tasks
  attempt,   \* snapshot.engine_session(), 0 for none
  online,    \* snapshot.commands_available()
  drawer,    \* details_drawer
  requests   \* requests the desktop has not answered, and what aria2 said to them

detailsVars == <<version, revision, listed, attempt, online, drawer, requests>>
engineRows  == <<version, revision>>
shownRows   == <<listed, attempt, online>>

Id      == 1 .. MaxUnderWay
State   == 1 .. MaxVersion
Attempt == 0 .. MaxAttempts
Row     == [revision : State, version : State]
Details == [task : Download, attempt : Attempt, version : 0 .. MaxVersion]
Request == [id : Id, task : Download, attempt : Attempt, version : 0 .. MaxVersion]
Drawer  == [task : Download, attempt : Attempt, overview : Row,
            state : {"Stale", "Loading", "Ready", "Failed"},
            shown : Details,           \* the details of "Ready"
            pending : 0 .. MaxUnderWay, source : 0 .. MaxVersion, \* pending and its revision
            coalesced : BOOLEAN,       \* refresh_coalesced
            recent : BOOLEAN,          \* last_ready_refresh_at is less than 500 ms ago
            restarted : BOOLEAN,       \* history: the row counts from 1 again since
            refused : BOOLEAN]         \* history: the last refresh failed, with a notice

DetailsTypeOK ==
  /\ version \in [Download -> State]
  /\ revision \in [Download -> 0 .. MaxVersion]
  /\ listed \in [Download -> Row \cup {NoRow}]
  /\ attempt \in Attempt /\ online \in BOOLEAN /\ (online => attempt # 0)
  /\ drawer \in Drawer \cup {NoDrawer}
  /\ requests \subseteq Request
  /\ \A c, d \in requests : c.id = d.id => c = d

DetailsInit ==
  /\ version = [t \in Download |-> 1] /\ revision = [t \in Download |-> 0]
  /\ listed = [t \in Download |-> NoRow] /\ attempt = 0 /\ online = FALSE
  /\ drawer = NoDrawer /\ requests = {}

-----------------------------------------------------------------------------
(***************************************************************************)
(* The store.  A change reaches it at once: details read later are newer    *)
(* than the row, never older.                                               *)
(***************************************************************************)
TaskChanges(t) ==
  /\ version[t] < MaxVersion
  /\ version' = [version EXCEPT ![t] = @ + 1]
  /\ revision' = [revision EXCEPT ![t] = IF @ = 0 THEN 0 ELSE @ + 1]
  /\ UNCHANGED <<shownRows, drawer, requests>>

\* A task that has stopped is in no live list any more, and not yet in a page of
\* the stopped ones (reconcile_live).
StoreForgets(t) ==
  /\ version[t] < MaxVersion
  /\ revision[t] # 0
  /\ version' = [version EXCEPT ![t] = @ + 1]
  /\ revision' = [revision EXCEPT ![t] = 0]
  /\ UNCHANGED <<shownRows, drawer, requests>>

\* upsert of a task without an entry
StoreLists(t) ==
  /\ revision[t] = 0
  /\ revision' = [revision EXCEPT ![t] = 1]
  /\ UNCHANGED <<version, shownRows, drawer, requests>>

-----------------------------------------------------------------------------
\* request_current_details, for the drawer d
NotAsked(d)  == d.pending = 0
TooSoon(d, limited) == limited /\ d.state = "Ready" /\ d.recent

Requested(d, id, s) ==
  [d EXCEPT !.attempt = s,
            !.state = IF @ = "Ready" THEN "Ready" ELSE "Loading",
            !.pending = id, !.source = d.overview.revision,
            !.recent = @ \/ d.state = "Ready",
            !.coalesced = FALSE, !.restarted = FALSE, !.refused = FALSE]

\* `others` are the requests under way apart from this one.
Ask(d, limited, s, ok, others) ==
  IF ~NotAsked(d) \/ ~ok
  THEN drawer' = d /\ requests' = others
  ELSE IF TooSoon(d, limited)
  THEN drawer' = [d EXCEPT !.coalesced = TRUE] /\ requests' = others
  ELSE \E id \in Id :
         /\ \A c \in others : c.id # id
         /\ \A i \in 1 .. id - 1 : \E c \in others : c.id = i
         /\ drawer' = Requested(d, id, s)
         /\ requests' = others \cup {[id |-> id, task |-> d.task, attempt |-> s, version |-> 0]}

\* What is not shown any more.
NotReady(d, s) ==
  [d EXCEPT !.state = s, !.pending = 0, !.source = 0,
            !.restarted = FALSE, !.refused = FALSE,
            !.shown = [task |-> d.task, attempt |-> d.attempt, version |-> 0]]

\* open_details_for
Fresh(t) ==
  [task |-> t, attempt |-> attempt, overview |-> listed[t], state |-> "Stale",
   shown |-> [task |-> t, attempt |-> attempt, version |-> 0],
   pending |-> 0, source |-> 0, coalesced |-> FALSE, recent |-> FALSE,
   restarted |-> FALSE, refused |-> FALSE]

OpenDetails(t) ==
  /\ listed[t] # NoRow
  /\ Ask(Fresh(t), FALSE, attempt, online, requests)
  /\ UNCHANGED <<engineRows, shownRows>>

\* close_task_details, the settings page, and a removal or retry of the task
CloseDetails ==
  /\ drawer # NoDrawer
  /\ drawer' = NoDrawer
  /\ UNCHANGED <<engineRows, shownRows, requests>>

\* the button of failed and of stale details
RetryDetails ==
  /\ drawer # NoDrawer /\ online
  /\ drawer.state \in {"Failed", "Stale"}
  /\ Ask(drawer, FALSE, attempt, online, requests)
  /\ UNCHANGED <<engineRows, shownRows>>

IntervalElapses ==
  /\ drawer # NoDrawer /\ drawer.recent
  /\ drawer' = [drawer EXCEPT !.recent = FALSE]
  /\ UNCHANGED <<engineRows, shownRows, requests>>

-----------------------------------------------------------------------------
(***************************************************************************)
(* set_snapshot.  Within a session what the light path takes over leaves    *)
(* the connection as it is: both ends of it change the store as well.       *)
(***************************************************************************)
FollowerIn(t, new) == FollowedBy[t] # NoDownload /\ new[FollowedBy[t]] # NoRow

OfSession(d, s) == IF s # attempt THEN NotReady([d EXCEPT !.attempt = s], "Stale") ELSE d

Follow(d, new) ==
  IF FollowerIn(d.task, new)
  THEN NotReady([d EXCEPT !.task = FollowedBy[d.task],
                          !.overview = new[FollowedBy[d.task]]], "Stale")
  ELSE d

StartsOver(d, row) == row # d.overview /\ row.revision <= d.overview.revision

TakeRow(d, new) ==
  IF new[d.task] # NoRow
  THEN [d EXCEPT !.overview = new[d.task],
                 !.restarted = @ \/ StartsOver(d, new[d.task])]
  ELSE d

KeepIf(ok, d) == IF ok THEN d ELSE NotReady(d, "Stale")

Seen(new, s, ok) == KeepIf(ok, TakeRow(Follow(OfSession(drawer, s), new), new))

Advances(new) ==
  new[drawer.task] # NoRow /\ new[drawer.task].revision > drawer.overview.revision

\* A force, unlike a newer revision, is not held back for 500 ms; `focus`: the
\* task that has the focus, perhaps another one, is followed in this snapshot.
Forces(new, s, focus) == focus \/ FollowerIn(drawer.task, new) \/ s # attempt \/ ~online

ShowSnapshot(visible, s, ok, focus) ==
  LET new == [t \in Download |->
                IF t \in visible /\ revision[t] # 0
                THEN [revision |-> revision[t], version |-> version[t]] ELSE NoRow]
  IN  /\ s \in attempt .. MaxAttempts
      /\ ok => s # 0
      /\ focus => \E t \in Download : FollowerIn(t, new)
      /\ listed' = new /\ attempt' = s /\ online' = ok
      /\ IF drawer = NoDrawer THEN UNCHANGED <<drawer, requests>>
         ELSE IF Forces(new, s, focus) \/ Advances(new)
         THEN Ask(Seen(new, s, ok), ~Forces(new, s, focus), s, ok, requests)
         ELSE drawer' = Seen(new, s, ok) /\ UNCHANGED requests
      /\ UNCHANGED engineRows

-----------------------------------------------------------------------------
\* execute_task_details: aria2 is asked, and the result travels back.
EngineReads(c) ==
  /\ c.version = 0
  /\ requests' = (requests \ {c}) \cup {[c EXCEPT !.version = version[c.task]]}
  /\ UNCHANGED <<engineRows, shownRows, drawer>>

\* As IsExpected, but any request for the task will do.
IsForTask(c) == drawer # NoDrawer /\ drawer.pending # 0 /\ drawer.task = c.task

IsExpected(c) ==
  drawer # NoDrawer /\ drawer.pending = c.id /\ drawer.attempt = c.attempt
  /\ drawer.task = c.task

Done(c) == [drawer EXCEPT !.pending = 0, !.source = 0]

\* The details a result leaves in the drawer; a failed refresh keeps the old.
Shows(c, good) ==
  IF good
  THEN [Done(c) EXCEPT !.state = "Ready", !.refused = FALSE,
          !.shown = [task |-> c.task, attempt |-> c.attempt, version |-> c.version]]
  ELSE [Done(c) EXCEPT !.state = IF @ = "Ready" THEN "Ready" ELSE "Failed",
                       !.refused = drawer.state = "Ready"]

\* The row has moved on since the request was made.
IsBehind == online /\ drawer.overview.revision > drawer.source

\* set_task_details_result
Answer(c, good) ==
  /\ good => c.version # 0
  /\ IsExpected(c)
  /\ IF IsBehind \/ (drawer.coalesced /\ (good \/ drawer.state # "Ready"))
     THEN Ask(Shows(c, good), ~IsBehind, attempt, online, requests \ {c})
     ELSE drawer' = Shows(c, good) /\ requests' = requests \ {c}
  /\ UNCHANGED <<engineRows, shownRows>>

IgnoreAnswer(c) ==
  /\ ~IsExpected(c)
  /\ requests' = requests \ {c}
  /\ UNCHANGED <<engineRows, shownRows, drawer>>

DetailsNext ==
  \/ \E t \in Download : TaskChanges(t) \/ StoreForgets(t) \/ StoreLists(t) \/ OpenDetails(t)
  \/ CloseDetails \/ RetryDetails \/ IntervalElapses
  \/ \E visible \in SUBSET Download, s \in Attempt, ok, focus \in BOOLEAN :
       ShowSnapshot(visible, s, ok, focus)
  \/ \E c \in requests :
       EngineReads(c) \/ IgnoreAnswer(c) \/ \E good \in BOOLEAN : Answer(c, good)

DetailsSpec == DetailsInit /\ [][DetailsNext]_detailsVars

\* The clock goes on, and every request is answered at last.
FairDetailsSpec ==
  /\ DetailsSpec
  /\ WF_detailsVars(IntervalElapses)
  /\ \A id \in Id :
       WF_detailsVars(\E c \in requests : c.id = id /\
         (IgnoreAnswer(c) \/ \E good \in BOOLEAN : Answer(c, good)))

-----------------------------------------------------------------------------
IsReady == drawer # NoDrawer /\ drawer.state = "Ready"

\* Details in the drawer are those of its task, read in its session; and when
\* nothing is under way they are as new as the row above them, unless their
\* refresh was put off or has failed, or the row counts from 1 again
\* (set_task_details_result, set_snapshot, request_current_details).
DetailsAreCurrent ==
  IsReady =>
    /\ drawer.shown.task = drawer.task
    /\ drawer.shown.attempt = drawer.attempt
    /\ online /\ drawer.pending = 0 =>
         \/ drawer.coalesced \/ drawer.refused \/ drawer.restarted
         \/ drawer.shown.version >= drawer.overview.version

\* "so the drawer can converge to the latest overview revision" (shell/mod.rs
\* 1945): details older than the row are refreshed in the end, or the refresh
\* fails with a notice.
IsOutdated ==
  IsReady /\ online /\ ~drawer.refused /\ drawer.shown.version < drawer.overview.version

DetailsConverge == IsOutdated ~> ~IsOutdated
=============================================================================
