---------------------------- MODULE ShellCommands ----------------------------
(***************************************************************************)
(* The selection of the task list and the commands the shell sends for it   *)
(* (crates/ariadeck-ui/src/shell): snapshots of the desktop show and hide   *)
(* rows, bring other sessions and other profiles, and replace a task by the *)
(* one that follows it (a magnet link by its download), while a dialog asks *)
(* whether to remove the selected tasks and while a command is under way.   *)
(* One command of any kind is awaited at a time.  Left open: the status of a*)
(* row (which decides the commands that are offered), the order of the rows *)
(* (hence those a range covers), and whether the details of a selected task *)
(* outside the list are open.  Not modelled: the wording of the dialog, its *)
(* choice about the files, and the dialogs for options of a task.           *)
(***************************************************************************)
EXTENDS FiniteSets, Naturals

CONSTANTS
  Task, Owner,  \* the tasks; the profile of each
  Follows,      \* the task that follows a task, or NoTask
  NoTask,
  MaxSessions, MaxCommands

ASSUME ShellAssumption ==
  /\ Follows \in [Task -> Task \cup {NoTask}]
  /\ NoTask \notin Task
  /\ \A t \in Task : Follows[t] # NoTask =>
       Follows[Follows[t]] = NoTask /\ Owner[Follows[t]] = Owner[t]
  /\ IsFiniteSet(Task)
  /\ MaxSessions \in Nat \ {0} /\ MaxCommands \in Nat

VARIABLES
  rows,     \* snapshot.tasks
  profile,  \* snapshot.profile_id
  session,  \* snapshot.engine_session(), 0 for none
  ready,    \* snapshot.commands_available()
  marked,   \* selected_tasks
  focused,  \* selected
  removing, \* remove_confirmation: its identities, {} for no dialog
  awaited,  \* pending_task_command, pending_batch_command and the global one: {} or {command}
  failures, \* batch_failure_details are shown
  sent,     \* requests the desktop has not answered
  issued    \* requests sent so far

shellVars ==
  <<rows, profile, session, ready, marked, focused, removing, awaited, failures, sent, issued>>

Profiles    == {Owner[t] : t \in Task}
CommandKind == {"remove", "retry", "other"}
Scope       == {"task", "batch", "all"}
Command     == [id : 1 .. MaxCommands, session : 1 .. MaxSessions, scope : Scope,
                tasks : SUBSET Task, kind : CommandKind]

ShellTypeOK ==
  /\ rows \subseteq Task /\ marked \subseteq Task
  /\ focused \in Task \cup {NoTask}
  /\ profile \in Profiles /\ session \in 0 .. MaxSessions /\ ready \in BOOLEAN
  /\ ready => session # 0
  /\ removing \subseteq Task
  /\ awaited \in [Scope -> SUBSET Command]
  /\ failures \in BOOLEAN
  /\ sent \subseteq Command /\ issued \in 0 .. MaxCommands

ShellInit ==
  /\ rows = {} /\ profile \in Profiles /\ session = 0 /\ ready = FALSE
  /\ marked = {} /\ focused = NoTask
  /\ removing = {}
  /\ awaited = [s \in Scope |-> {}]
  /\ failures = FALSE
  /\ sent = {} /\ issued = 0

-----------------------------------------------------------------------------
snapshot  == <<rows, profile, session, ready>>
selection == <<marked, focused>>
commands  == <<awaited, failures, sent, issued>>

InView == marked \cap rows

\* A snapshot with the same rows of the same session takes the light path.
LightSnapshot(ok) ==
  /\ ok # ready
  /\ ok => session # 0
  /\ ready' = ok
  /\ UNCHANGED <<rows, profile, session, selection, removing, commands>>

\* successor_task
Successor(t, new) == IF t # NoTask /\ Follows[t] \in new THEN Follows[t] ELSE t

\* The selection of another profile is forgotten; only the focused task tells.
Forgets(p)        == focused # NoTask /\ Owner[focused] # p
MarkedIn(p, new)  == IF Forgets(p) THEN {} ELSE {Successor(t, new) : t \in marked}
FocusedIn(p, new) == IF Forgets(p) THEN NoTask ELSE Successor(focused, new)

\* Commands of an older session are given up, except the global one.
GivesUpAlways(s) == [x \in Scope |-> IF x # "all" THEN {} ELSE awaited[x]]
GivesUpOlder(s) ==
  [x \in Scope |-> IF x # "all" /\ s # session THEN {} ELSE awaited[x]]

SetSnapshot(p, new, s, ok) ==
  /\ \A t \in new : Owner[t] = p
  /\ s \in session .. MaxSessions
  /\ s = session => p = profile
  /\ ok => s # 0
  /\ rows' = new /\ profile' = p /\ session' = s /\ ready' = ok
  /\ marked' = MarkedIn(p, new)
  /\ LET shown == MarkedIn(p, new) \cap new
         f == FocusedIn(p, new)
     IN  focused' \in IF f \notin new /\ shown # {} THEN shown ELSE {f}
  /\ awaited' = GivesUpOlder(s)
  /\ failures' = (failures /\ ~Forgets(p))
  /\ UNCHANGED <<removing, sent, issued>>

-----------------------------------------------------------------------------
\* The list is out of reach behind a dialog.
ListInReach == removing = {} /\ ~failures

Marks(m, f) ==
  /\ ListInReach
  /\ marked' = m /\ focused' = f
  /\ UNCHANGED <<snapshot, removing, commands>>

Click(t)  == t \in rows /\ Marks({t}, t)
MarkRange(t, r) == t \in r /\ r \subseteq rows /\ Marks(r, t)
Toggle(t) ==
  t \in rows /\ Marks(IF t \in marked THEN marked \ {t} ELSE marked \cup {t}, t)
\* A right click on a marked row keeps the others.
OpenContextMenu(t) == t \in rows /\ Marks(IF t \in marked THEN marked ELSE {t}, t)
SelectAll == \E f \in rows :
  /\ focused \in rows => f = focused
  /\ Marks(marked \cup rows, f)
\* The box in the header: unmarks the rows in view when all of them are marked.
ToggleAll == \E f \in rows \cup {focused} :
  /\ rows # {}
  /\ rows \subseteq marked \/ focused # NoTask => f = focused
  /\ Marks(IF rows \subseteq marked THEN marked \ rows ELSE marked \cup rows, f)
\* Escape, or another filter, category or search.
ClearMarks == Marks({}, focused)

-----------------------------------------------------------------------------
\* command_target_task_view
Target ==
  IF Cardinality(InView) = 1 THEN InView
  ELSE IF InView = {} /\ marked # {} THEN {} ELSE {focused} \ {NoTask}

MayBegin == ready /\ ~failures /\ \A s \in Scope : awaited[s] = {}
CanBegin(scope) ==
  /\ MayBegin
  /\ scope = "task" => Target # {}
  /\ scope = "batch" => Cardinality(InView) > 1
Names(scope) == [task |-> Target, batch |-> InView, all |-> {}][scope]

\* begin_task_command, begin_batch_task_command, begin_global_task_command
Issue(scope, kind) ==
  LET command == [id |-> issued + 1, session |-> session, scope |-> scope,
                  tasks |-> Names(scope), kind |-> kind]
  IN  /\ issued < MaxCommands
      /\ issued' = issued + 1
      /\ awaited' = [awaited EXCEPT ![scope] = {command}]
      /\ sent' = sent \cup {command}
      /\ UNCHANGED <<snapshot, selection, failures>>

Begin(scope, kind) ==
  /\ ListInReach
  /\ kind # "remove" /\ (scope = "all" => kind = "other")
  /\ CanBegin(scope)
  /\ Issue(scope, kind)
  /\ UNCHANGED removing

\* confirm_remove_selected
Asked == IF Cardinality(InView) > 1 THEN InView ELSE Target
ConfirmRemove ==
  /\ ListInReach
  /\ awaited["task"] = {} /\ awaited["batch"] = {}
  /\ ready /\ Asked # {}
  /\ removing' = Asked
  /\ UNCHANGED <<snapshot, selection, commands>>

CloseConfirmation ==
  /\ removing # {}
  /\ removing' = {}
  /\ UNCHANGED <<snapshot, selection, commands>>

AreAllMarked == removing \subseteq marked
SelectionMatches ==
  IF Cardinality(removing) > 1 THEN removing \subseteq marked ELSE focused \in removing
\* Its status, or closed details, may refuse one task.
RemovalScope == IF Cardinality(removing) > 1 THEN "batch" ELSE "task"

SubmitConfirmation ==
  /\ removing # {}
  /\ removing' = {}
  /\ \/ SelectionMatches /\ CanBegin(RemovalScope) /\ Issue(RemovalScope, "remove")
     \/ /\ SelectionMatches /\ CanBegin(RemovalScope) => RemovalScope = "task"
        /\ UNCHANGED <<snapshot, selection, commands>>

-----------------------------------------------------------------------------
\* The desktop answers each request, in any order.
Answers(c) == c \in sent /\ sent' = sent \ {c}
IsAwaited(c) == awaited[c.scope] = {c}
Settles(c) == awaited' = [awaited EXCEPT ![c.scope] = {}]

\* An answer nothing waits for, of a session that is gone, is dropped.
DropAnswer(c) ==
  /\ Answers(c) /\ ~IsAwaited(c)
  /\ UNCHANGED <<snapshot, selection, removing, awaited, failures, issued>>

\* set_global_task_command_result, and the other two for a failure and for
\* commands that leave the task in the list
AnswerKeepsSelection(c) ==
  /\ Answers(c) /\ IsAwaited(c)
  /\ c.scope # "batch"
  /\ Settles(c)
  /\ UNCHANGED <<snapshot, selection, removing, failures, issued>>

TaskRemoved(c) ==
  /\ Answers(c) /\ IsAwaited(c)
  /\ c.scope = "task" /\ c.kind = "remove"
  /\ Settles(c)
  /\ marked' = marked \ c.tasks /\ focused' = NoTask
  /\ UNCHANGED <<snapshot, removing, failures, issued>>

TaskRetried(c, t) ==
  /\ Answers(c) /\ IsAwaited(c)
  /\ c.scope = "task" /\ c.kind = "retry"
  /\ Settles(c)
  /\ marked' = (marked \ c.tasks) \cup {t} /\ focused' = t
  /\ UNCHANGED <<snapshot, removing, failures, issued>>

\* apply_batch_selection_result: `failed` stay marked, `new` replace those retried;
\* a failure of the batch as a whole names no task
Unmarked(c, failed, whole) == IF whole THEN marked ELSE marked \ (c.tasks \ failed)

BatchAnswered(c, failed, whole, new) ==
  /\ Answers(c) /\ IsAwaited(c)
  /\ c.scope = "batch"
  /\ failed \subseteq c.tasks
  /\ c.kind # "retry" => new = {}
  /\ Settles(c)
  /\ marked' = Unmarked(c, failed, whole) \cup new
  /\ IF c.kind \in {"remove", "retry"} /\ focused \in c.tasks \ failed
     THEN focused' \in IF marked' = {} THEN {NoTask} ELSE marked'
     ELSE UNCHANGED focused
  /\ failures' = (whole \/ failed # {})
  /\ UNCHANGED <<snapshot, removing, issued>>

CloseFailures ==
  /\ failures
  /\ failures' = FALSE
  /\ UNCHANGED <<snapshot, selection, removing, awaited, sent, issued>>

ShellNext ==
  \/ \E ok \in BOOLEAN : LightSnapshot(ok)
  \/ \E p \in Profiles, new \in SUBSET Task, s \in 0 .. MaxSessions, ok \in BOOLEAN :
       SetSnapshot(p, new, s, ok)
  \/ \E t \in Task : \/ Click(t) \/ Toggle(t) \/ OpenContextMenu(t)
                     \/ \E r \in SUBSET Task : MarkRange(t, r)
  \/ SelectAll \/ ToggleAll \/ ClearMarks
  \/ \E scope \in Scope, kind \in CommandKind : Begin(scope, kind)
  \/ ConfirmRemove \/ CloseConfirmation \/ SubmitConfirmation
  \/ \E c \in sent :
       \/ DropAnswer(c) \/ AnswerKeepsSelection(c) \/ TaskRemoved(c)
       \/ \E t \in Task : TaskRetried(c, t)
       \/ \E failed, new \in SUBSET Task, whole \in BOOLEAN :
             BatchAnswered(c, failed, whole, new)
  \/ CloseFailures

ShellSpec == ShellInit /\ [][ShellNext]_shellVars

-----------------------------------------------------------------------------
\* The dialog that asks about one task removes that one and no other, however
\* the rows, the marks and the focus moved while it was open
\* (submit_remove_confirmation, command_target_task_view).
OneTaskIsRemovedAsAsked ==
  [][\A c \in sent' \ sent :
       c.kind = "remove" /\ c.scope = "task" => c.tasks = removing]_shellVars

\* No task is removed that the dialog did not ask about (shell/tests.rs:2371,
\* task_removal_requires_the_matching_internal_confirmation).
RemovalIsConfirmed ==
  [][\A c \in sent' \ sent : c.kind = "remove" => c.tasks \subseteq removing]_shellVars

\* The shell never has two commands under way in one session: what is awaited
\* is forgotten only with the session it was sent in.
OneCommandPerSession ==
  \A c, d \in sent : c.session = d.session => c = d
=============================================================================
