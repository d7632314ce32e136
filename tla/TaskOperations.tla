---------------------------- MODULE TaskOperations ----------------------------
(***************************************************************************)
(* One command of the user on a set of tasks: execute_task_command and      *)
(* execute_batch_task_command of the desktop (workspace/mapping.rs), the    *)
(* item loop of CommandService (application/src/commands.rs), the gateway   *)
(* of rpc/src/client.rs, and the reconciliation of unknown outcomes         *)
(* (workspace/ops.rs), against an aria2 that serves the requests of a       *)
(* connection in order.  Of a request without an answer RpcCalls promises   *)
(* nothing: it may have been executed, be executed later, or never.         *)
(*                                                                          *)
(* Bounds: one command; aria2 is not restarted; downloads are added before  *)
(* the first refresh or by the command, and nobody else drops the results   *)
(* of the latter.  Waiting is merged with Active, the forced variants of an *)
(* operation with the ordinary ones, and Change stands for changePosition   *)
(* and every use of changeOption.                                           *)
(***************************************************************************)
EXTENDS Naturals, Sequences, SequencesExt

CONSTANTS
  Task,       \* gids
  Existing,   \* those of downloads there may be before the command
  Sourcings,  \* the assignments of sources (URI or info hash) to gids tried
  Loaded,     \* how many results the loaded stopped pages hold
  Operations  \* the commands tried

ASSUME ExistingAreTasks == Existing \subseteq Task
ASSUME TasksAreFinite == IsFiniteSet(Task)
ASSUME LoadedIsNatural == Loaded \in Nat
ASSUME OperationsAreCommands ==
  Operations \subseteq {"Pause", "Resume", "Change", "Remove", "Retry", "RemoveWithFiles"}

VARIABLES
  source,   \* the assignment of this behaviour
  eng,      \* aria2's status of each gid
  results,  \* its result list, oldest first
  online,   \* the session is connected and the store not stale
  same,     \* it is still the session the command was given in
  view,     \* the store's tasks
  wire,     \* requests of this connection aria2 has not served
  late,     \* requests left on connections that are gone
  answer,   \* aria2's answer to the awaited request
  files,    \* the local files of each task
  cmd,      \* the command in progress
  done      \* history: tasks aria2 has carried out the command for

opVars == <<source, eng, results, online, same, view, wire, late, answer, files, cmd, done>>

Live       == {"Active", "Paused"}
TerminalSt == {"Complete", "Error", "Removed"}
EngStatus  == Live \cup TerminalSt \cup {"new", "absent"}  \* gids are not reused
Kind       == {"pause", "unpause", "change", "remove", "removeResult", "query", "add"}
Mutations  == Kind \ {"query"}
Removals   == {"Remove", "RemoveWithFiles"}
Outcome    == {"none", "ok", "rejected", "failed", "unknown", "notObserved", "filesystem"}
Phase      == {"idle", "preflight", "trashFirst", "execute", "next", "awaiting",
               "refreshing", "reconcile", "executed", "trashAfter", "reported"}
Requests   == [kind : Kind, task : Task]

NoTask   == "no task"
NoAnswer == "no answer"

ASSUME TasksAreNoAnswers == Task \cap {NoTask, NoAnswer, "ok", "refused"} = {}

Commands ==
  [phase : Phase, op : Operations \cup {"none"}, targets : SUBSET Task, todo : SUBSET Task,
   item : Task \cup {NoTask}, rpc : Kind \cup {"none"}, baseline : BOOLEAN,
   original : [Task -> EngStatus], context : [Task -> EngStatus],
   outcome : [Task -> Outcome], gids : SUBSET Task]

OpTypeOK ==
  /\ source \in Sourcings
  /\ eng \in [Task -> EngStatus]
  /\ results \in Seq(Task)
  /\ online \in BOOLEAN
  /\ same \in BOOLEAN
  /\ view \in [Task -> EngStatus]
  /\ wire \in Seq(Requests)
  /\ late \subseteq Requests
  /\ answer \in {NoAnswer, "ok", "refused"} \cup Task
  /\ files \in [Task -> {"present", "trashed"}]
  /\ done \subseteq Task
  /\ cmd \in Commands
  /\ cmd.todo \subseteq cmd.targets

AbsentAll == [x \in Task |-> "absent"]

NoCommand == [phase |-> "idle", op |-> "none", targets |-> {}, todo |-> {},
              item |-> NoTask, rpc |-> "none", baseline |-> FALSE,
              original |-> AbsentAll, context |-> AbsentAll,
              outcome |-> [x \in Task |-> "none"], gids |-> {}]

OpInit ==
  /\ source \in Sourcings
  /\ eng = [x \in Task |-> "new"]
  /\ results = <<>>
  /\ online = TRUE
  /\ same = TRUE
  /\ view = AbsentAll
  /\ wire = <<>>
  /\ late = {}
  /\ answer = NoAnswer
  /\ files = [x \in Task |-> "present"]
  /\ cmd = NoCommand
  /\ done = {}

-----------------------------------------------------------------------------
\* aria2 and its other clients.
engVars  == <<eng, results>>
linkVars == <<online, same>>
cmdVars  == <<source, files>>

Become(x, s) == eng' = [eng EXCEPT ![x] = s]
Stop(x, s)   == Become(x, s) /\ results' = Append(results, x)
Forget(x)    == /\ Become(x, "absent")
                /\ \E i \in DOMAIN results : results[i] = x /\ results' = RemoveAt(results, i)

\* The report of the command is the end of the behaviour.
Going == cmd.phase # "reported"
EngineAlone == Going /\ UNCHANGED <<source, linkVars, view, wire, late, answer, files, cmd, done>>

EngineMoves(x) ==
  /\ \/ x \in Existing /\ eng[x] = "new" /\ cmd.phase = "idle" /\ view = AbsentAll
        /\ Become(x, "Active") /\ UNCHANGED results
     \/ eng[x] = "Active" /\ \E s \in {"Complete", "Error"} : Stop(x, s)
     \/ x \in Existing /\ Forget(x)
  /\ EngineAlone

\* What a refresh finds: every live task, and the results on the loaded pages.
Snapshot ==
  [x \in Task |-> IF \/ eng[x] \in Live
                     \/ \E i \in DOMAIN results : i <= Loaded /\ results[i] = x
                  THEN eng[x] ELSE "absent"]

\* One request carried out: the answer, the effect, the new gid of an add.
Refuse(a) == a = "refused" /\ UNCHANGED engVars
Applies(q, a) ==
  LET x == q.task IN
  CASE q.kind = "pause"   -> IF eng[x] = "Active"
                             THEN a = "ok" /\ Become(x, "Paused") /\ UNCHANGED results
                             ELSE Refuse(a)
    [] q.kind = "unpause" -> IF eng[x] = "Paused"
                             THEN a = "ok" /\ Become(x, "Active") /\ UNCHANGED results
                             ELSE Refuse(a)
    [] q.kind = "change"  -> /\ a = IF eng[x] \in Live THEN "ok" ELSE "refused"
                             /\ UNCHANGED engVars
    [] q.kind = "remove"  -> IF eng[x] \in Live
                             THEN a = "ok" /\ Stop(x, "Removed") ELSE Refuse(a)
    [] q.kind = "removeResult" -> IF x \in ToSet(results)
                                  THEN a = "ok" /\ Forget(x) ELSE Refuse(a)
    [] q.kind = "query"   -> /\ a = IF eng[x] \in Live \cup TerminalSt THEN "ok" ELSE "refused"
                             /\ UNCHANGED engVars
    [] q.kind = "add"     -> \/ Refuse(a)
                             \/ /\ a \in {y \in Task \ Existing :
                                             eng[y] = "new" /\ source[y] = source[x]}
                                /\ Become(a, "Active") /\ UNCHANGED results

Carried(q, a) ==
  done' = IF a # "refused" /\ q.kind \in Mutations THEN done \cup {q.task} ELSE done

\* The only request of this connection still awaited is the last one sent.
EngineServes ==
  /\ Going /\ wire # <<>>
  /\ \E a \in {"ok", "refused"} \cup Task :
       /\ Applies(Head(wire), a)
       /\ Carried(Head(wire), a)
       /\ answer' = IF Len(wire) = 1 /\ cmd.phase = "awaiting" THEN a ELSE NoAnswer
  /\ wire' = Tail(wire)
  /\ UNCHANGED <<cmdVars, linkVars, view, late, cmd>>

ServeLate ==
  \E q \in late :
    /\ Going
    /\ \E a \in {"ok", "refused"} \cup Task : Applies(q, a) /\ Carried(q, a)
    /\ late' = late \ {q}
    /\ UNCHANGED <<cmdVars, linkVars, view, wire, answer, cmd>>

LoseLate ==
  \E q \in late :
    /\ Going
    /\ late' = late \ {q}
    /\ UNCHANGED <<cmdVars, engVars, linkVars, view, wire, answer, cmd, done>>

\* The connection breaks; the coordinator marks the store stale.
Disconnect ==
  /\ Going /\ online
  /\ online' = FALSE
  /\ same' = FALSE
  /\ late' = late \cup ToSet(wire)
  /\ wire' = <<>>
  /\ answer' = NoAnswer
  /\ UNCHANGED <<cmdVars, engVars, view, cmd, done>>

\* The coordinator executes one command at a time and polls in between; a
\* poll is answered after the requests before it.  Once the items are done
\* only the forced refresh puts something into the store that is read.
CoordinatorIsFree == cmd.phase \in {"idle", "preflight", "trashFirst", "execute"}

Reconnect ==
  /\ ~online /\ CoordinatorIsFree
  /\ online' = TRUE
  /\ view' = Snapshot
  /\ UNCHANGED <<cmdVars, engVars, same, wire, late, answer, cmd, done>>

Poll ==
  /\ online /\ CoordinatorIsFree /\ wire = <<>>
  /\ view' = Snapshot
  /\ UNCHANGED <<cmdVars, engVars, linkVars, wire, late, answer, cmd, done>>

-----------------------------------------------------------------------------
\* The command.
envVars == <<source, eng, results, online, same, late>>

\* capture_retry_baseline, capture_remove_baseline: none of a stale store.
Reconciled(op) == online /\ op \in Removals \cup {"Retry"}
Begin(op, S) ==
  /\ cmd.phase = "idle"
  /\ S \subseteq {x \in Task : view[x] # "absent"}
  /\ op = "RemoveWithFiles" => \E x \in S : S = {x}
  /\ cmd' = [NoCommand EXCEPT
       !.phase = IF op = "RemoveWithFiles" THEN "preflight" ELSE "execute",
       !.op = op, !.targets = S, !.todo = S,
       !.baseline = Reconciled(op),
       !.original = IF Reconciled(op) THEN view ELSE AbsentAll]
  /\ same' = online
  /\ UNCHANGED <<source, eng, results, online, late, view, wire, answer, files, done>>

Original(x)   == cmd.original[x]
FailAll(S, o) == [x \in Task |-> IF x \in S THEN o ELSE cmd.outcome[x]]
CmdStep       == UNCHANGED <<envVars, view, wire, answer, files, done>>

\* execute_remove_with_files: baseline, task_details and preflight may fail.
PreflightFails ==
  /\ cmd.phase = "preflight"
  /\ cmd' = [cmd EXCEPT !.phase = "reported", !.outcome = FailAll(cmd.targets, "failed")]
  /\ CmdStep

PreflightPasses ==
  /\ cmd.phase = "preflight"
  /\ cmd.baseline /\ same /\ online /\ wire = <<>>
  /\ \A x \in cmd.targets : eng[x] \in Live \cup TerminalSt
  /\ cmd' = [cmd EXCEPT !.phase = IF \A x \in cmd.targets : Original(x) \in TerminalSt
                                  THEN "trashFirst" ELSE "execute"]
  /\ CmdStep

\* move_task_files_to_trash, before or after the removal; it may fail.
Trash ==
  /\ cmd.phase \in {"trashFirst", "trashAfter"}
  /\ \/ /\ files' = [x \in Task |-> IF x \in cmd.targets THEN "trashed" ELSE files[x]]
        /\ cmd' = [cmd EXCEPT !.phase = IF @ = "trashFirst" THEN "execute" ELSE "reported"]
     \/ /\ cmd' = [cmd EXCEPT !.phase = "reported",
                              !.outcome = FailAll(cmd.targets, "filesystem")]
        /\ UNCHANGED files
  /\ UNCHANGED <<envVars, view, wire, answer, done>>

\* Control::Execute: a command of another session is refused whole; otherwise
\* its contexts are the store's tasks of now.
Execute ==
  /\ cmd.phase = "execute"
  /\ cmd' = IF online /\ same
            THEN [cmd EXCEPT !.phase = "next", !.context = view]
            ELSE [cmd EXCEPT !.phase = "reported", !.outcome = FailAll(cmd.targets, "failed")]
  /\ CmdStep

Allowed(x) ==
  LET s == cmd.context[x] IN
  CASE cmd.op = "Pause"  -> s = "Active"
    [] cmd.op = "Resume" -> s = "Paused"
    [] cmd.op = "Change" -> s \in Live
    [] cmd.op \in Removals -> s # "absent"
    [] cmd.op = "Retry"  -> s = "Error"

FirstRequest(x) ==
  CASE cmd.op = "Pause"  -> "pause"
    [] cmd.op = "Resume" -> "unpause"
    [] cmd.op = "Change" -> "change"
    [] cmd.op \in Removals -> IF cmd.context[x] \in TerminalSt THEN "removeResult" ELSE "remove"
    [] cmd.op = "Retry"  -> "query"

Settle(x, o) == [cmd EXCEPT !.phase = "next", !.todo = @ \ {x}, !.item = NoTask,
                            !.rpc = "none", !.outcome[x] = o]

\* map_mutation_error and map_query_error of a request without an answer.
Unanswered(kind) == IF kind \in Mutations THEN "unknown" ELSE "failed"

\* Not in the context, in a status that does not allow it, without a source to
\* replay, or not supported by the engine: nothing is sent.
SkipItem(x) ==
  /\ cmd.phase = "next" /\ x \in cmd.todo
  /\ cmd' = Settle(x, "rejected")
  /\ CmdStep

SendItem(x) ==
  /\ cmd.phase = "next" /\ x \in cmd.todo
  /\ Allowed(x)
  /\ LET k == FirstRequest(x) IN
       IF online
       THEN /\ wire' = Append(wire, [kind |-> k, task |-> x])
            /\ cmd' = [cmd EXCEPT !.phase = "awaiting", !.item = x, !.rpc = k]
       ELSE /\ cmd' = Settle(x, Unanswered(k))
            /\ UNCHANGED wire
  /\ UNCHANGED <<envVars, view, answer, files, done>>

Answered == cmd.phase = "awaiting" /\ answer # NoAnswer

\* retry_uri goes on from the queries to addUri; remove falls back to
\* removeDownloadResult when the live task has stopped.
Continues == \/ cmd.rpc = "query" /\ answer = "ok"
             \/ cmd.rpc = "remove" /\ answer = "refused"
NextRequest == IF cmd.rpc = "query" THEN "add" ELSE "removeResult"

NextRequestFollows ==
  /\ Answered /\ Continues
  /\ cmd' = [cmd EXCEPT !.rpc = NextRequest]
  /\ wire' = Append(wire, [kind |-> NextRequest, task |-> cmd.item])
  /\ answer' = NoAnswer
  /\ UNCHANGED <<envVars, view, files, done>>

ItemSettles ==
  /\ Answered /\ ~Continues
  /\ cmd' = [Settle(cmd.item, IF answer = "refused" THEN "rejected" ELSE "ok")
               EXCEPT !.gids = IF answer \in Task THEN @ \cup {answer} ELSE @]
  /\ answer' = NoAnswer
  /\ UNCHANGED <<envVars, view, wire, files, done>>

\* Timeout, a malformed or incomplete answer, or a closed connection.
RequestFails ==
  /\ cmd.phase = "awaiting"
  /\ cmd' = Settle(cmd.item, Unanswered(cmd.rpc))
  /\ answer' = NoAnswer
  /\ UNCHANGED <<envVars, view, wire, files, done>>

UnknownItems == {x \in cmd.targets : cmd.outcome[x] = "unknown"}

ItemsDone ==
  /\ cmd.phase = "next" /\ cmd.todo = {}
  /\ cmd' = [cmd EXCEPT !.phase = IF UnknownItems # {} /\ cmd.baseline
                                  THEN "refreshing" ELSE "executed",
                          !.context = AbsentAll]
  /\ CmdStep

\* force_refresh and the snapshot after it.  The desktop asks at once and the
\* coordinator serves its mailbox first, so that a lost session is seen as a
\* stale snapshot, which reconciles nothing.
ForcedRefresh ==
  /\ cmd.phase = "refreshing"
  /\ IF online /\ same
     THEN /\ wire = <<>>
          /\ view' = Snapshot
          /\ cmd' = [cmd EXCEPT !.phase = "reconcile"]
     ELSE /\ cmd' = [cmd EXCEPT !.phase = "executed"]
          /\ UNCHANGED view
  /\ UNCHANGED <<envVars, wire, answer, files, done>>

\* reconcile_remove_outcome
RemovalObserved(x) ==
  IF Original(x) \in TerminalSt THEN view[x] = "absent"
                                ELSE view[x] \in {"absent", "Removed"}
ReconcileRemovals ==
  /\ cmd.phase = "reconcile" /\ cmd.op \in Removals
  /\ cmd' = [cmd EXCEPT !.phase = "executed",
       !.outcome = [x \in Task |->
          IF x \notin UnknownItems \/ Original(x) = "absent" THEN @[x]
          ELSE IF RemovalObserved(x) THEN "ok" ELSE "notObserved"]]
  /\ CmdStep

\* reconcile_retry_outcome: each unknown item takes a candidate that was not in
\* the baseline, is no other item's, and has its source.
IgnoreReserved(x) == {y \in Task : view[y] # "absent" /\ source[y] = source[x]}
Candidates(x) ==
  {y \in Task : /\ view[y] # "absent" /\ source[y] = source[x]
                /\ Original(y) = "absent" /\ y \notin cmd.gids}
Matchings ==
  {m \in [UnknownItems -> Task \cup {NoTask}] :
     \A x \in UnknownItems :
       /\ m[x] # NoTask => m[x] \in Candidates(x)
       /\ \A y \in UnknownItems \ {x} : m[x] = m[y] => m[x] = NoTask
       /\ m[x] = NoTask => Candidates(x) \subseteq {m[y] : y \in UnknownItems}}
ReconcileRetries ==
  /\ cmd.phase = "reconcile" /\ cmd.op = "Retry"
  /\ \E m \in Matchings :
       cmd' = [cmd EXCEPT !.phase = "executed",
         !.outcome = [x \in Task |->
            IF x \notin UnknownItems THEN @[x]
            ELSE IF m[x] # NoTask THEN "ok" ELSE "notObserved"],
         !.gids = @ \cup ({m[x] : x \in UnknownItems} \ {NoTask})]
  /\ CmdStep

\* The files of a live task go once it is removed.
ReportUnlessRefused ==
  /\ cmd.phase = "executed"
  /\ cmd' = [cmd EXCEPT !.phase =
       IF cmd.op = "RemoveWithFiles" /\ \E x \in cmd.targets :
            cmd.outcome[x] \in {"ok", "unknown"} /\ Original(x) \notin TerminalSt
       THEN "trashAfter" ELSE "reported"]
  /\ CmdStep
Report ==
  /\ cmd.phase = "executed"
  /\ cmd' = [cmd EXCEPT !.phase =
       IF cmd.op = "RemoveWithFiles" /\ \E x \in cmd.targets :
            cmd.outcome[x] = "ok" /\ Original(x) \notin TerminalSt
       THEN "trashAfter" ELSE "reported"]
  /\ CmdStep

CommandStep ==
  \/ PreflightFails \/ PreflightPasses \/ Trash \/ Execute
  \/ \E x \in Task : SkipItem(x) \/ SendItem(x)
  \/ NextRequestFollows \/ ItemSettles \/ RequestFails \/ ItemsDone
  \/ ForcedRefresh \/ ReconcileRemovals \/ ReconcileRetries \/ Report

OpNext ==
  \/ \E x \in Task : EngineMoves(x)
  \/ \E op \in Operations, S \in (SUBSET Task) \ {{}} : Begin(op, S)
  \/ CommandStep
  \/ EngineServes \/ ServeLate \/ LoseLate
  \/ Disconnect \/ Reconnect \/ Poll

OpSpec == OpInit /\ [][OpNext]_opVars

-----------------------------------------------------------------------------
Reported == cmd.phase = "reported"

\* The items whose fate reconciliation cannot tell apart.
Twins(x) == IF cmd.op = "Retry" THEN {y \in cmd.targets : source[y] = source[x]} ELSE {x}
Settled(x, O) == {y \in Twins(x) : cmd.outcome[y] \in O}
HasHappened(x) == IF cmd.op \in Removals THEN eng[x] \notin Live ELSE x \in done

Definite == {"rejected", "failed", "notObserved"}
OnTheWire(x) == \E q \in late \cup ToSet(wire) : q.task = x /\ q.kind \in Mutations

\* What the user is told is so.  A success has happened (a removed task is at
\* least not live); a failure that does not say "unknown", the two of the
\* reconciliation among them, has not happened and never will, so that asking
\* again does nothing twice.  Retries of one source are only counted: a
\* replacement does not say which of them it replaces.
OutcomesAreTruthful ==
  Reported => \A x \in cmd.targets :
    /\ Cardinality(Settled(x, {"ok"})) <= Cardinality({y \in Twins(x) : HasHappened(y)})
    /\ cmd.outcome[x] \in Definite =>
         /\ Cardinality(Twins(x) \cap done) <= Cardinality(Settled(x, {"ok", "unknown"}))
         /\ ~OnTheWire(x)

\* The files of a download aria2 still works on are not in the trash.
NoLiveTaskLosesItsFiles == \A x \in Task : files[x] = "trashed" => eng[x] \notin Live
=============================================================================
