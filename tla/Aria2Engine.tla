----------------------------- MODULE Aria2Engine -----------------------------
(***************************************************************************)
(* aria2 as the coordinator sees it through crates/ariadeck-rpc: the tasks *)
(* it holds, the result list tellStopped pages through (oldest first), and *)
(* the notifications that notification_hint (rpc/src/sync.rs 257-269) turns*)
(* into refresh hints.  aria2 is not part of the repository; this is what  *)
(* client.rs and sync.rs rely on.                                          *)
(***************************************************************************)
EXTENDS DownloadStore, SequencesExt

CONSTANT EngineMoves  \* the moves of aria2 that a run lets happen besides
                      \* adding, starting and finishing downloads

ASSUME EngineMovesAreKnown == EngineMoves \subseteq {"Pause", "Purge", "Restart"}

VARIABLES
  eng,      \* what aria2 knows of each gid
  results,  \* its finished downloads, least recently stopped first
  hints     \* hints on their way to the coordinator: tasks, or everything

engineVars == <<eng, results, hints>>

EngineStatus == {"new", "Waiting", "Active", "Complete", "Removed", "gone"}

Hints == [tasks : SUBSET Gid, full : BOOLEAN]
NoHints == [tasks |-> {}, full |-> FALSE]

EngineTypeOK ==
  /\ eng \in [Gid -> EngineStatus]
  /\ results \in Seq(Gid)
  /\ hints \in Hints

\* The gids of H are downloads that earlier runs of the engine finished.
InitEngine(H) ==
  /\ eng = [x \in Gid |-> IF x \in H THEN "gone" ELSE "new"]
  /\ results = <<>>
  /\ hints = NoHints

EngineActive  == {x \in Gid : eng[x] = "Active"}
EngineWaiting == {x \in Gid : eng[x] = "Waiting"}
EngineLive    == EngineActive \cup EngineWaiting

\* tellStopped(offset, count)
ResultsFrom(offset, count) ==
  {results[i] : i \in (offset + 1) .. Min({offset + count, Len(results)})}

\* tellStatus: None for a gid aria2 does not hold.
TellStatus(x) == IF eng[x] \in Status THEN eng[x] ELSE "absent"

\* notification_hint: started and paused name a task, the others ask for all.
TaskHint(x) == [hints EXCEPT !.tasks = @ \cup {x}]
FullHint    == [hints EXCEPT !.full = TRUE]

Become(x, status) == eng' = [eng EXCEPT ![x] = status]

Add(x) ==
  /\ eng[x] = "new"
  /\ Become(x, "Waiting")
  /\ UNCHANGED <<results, hints>>

Start(x) ==
  /\ eng[x] = "Waiting"
  /\ Become(x, "Active")
  /\ hints' = TaskHint(x)
  /\ UNCHANGED results

Pause(x) ==
  /\ "Pause" \in EngineMoves
  /\ eng[x] = "Active"
  /\ Become(x, "Waiting")
  /\ hints' = TaskHint(x)
  /\ UNCHANGED results

Finish(x) ==
  /\ eng[x] = "Active"
  /\ Become(x, "Complete")
  /\ results' = Append(results, x)
  /\ hints' = FullHint

\* removeDownloadResult, purgeDownloadResult or max-download-result: a result
\* leaves aria2's memory, and no notification says so.
DropResult(x) ==
  \E i \in DOMAIN results :
    /\ results[i] = x
    /\ Become(x, "gone")
    /\ results' = RemoveAt(results, i)

Purge(x) ==
  /\ "Purge" \in EngineMoves
  /\ DropResult(x)
  /\ UNCHANGED hints

\* aria2.remove: the live task ends up among the results.
StopLive(x) ==
  /\ x \in EngineLive
  /\ Become(x, "Removed")
  /\ results' = Append(results, x)

\* A restarted engine reloads its live tasks from the session file, paused
\* or queued, and has lost its results.
Restart ==
  /\ "Restart" \in EngineMoves
  /\ eng' = [x \in Gid |-> CASE x \in EngineLive -> "Waiting"
                             [] eng[x] = "new"   -> "new"
                             [] OTHER            -> "gone"]
  /\ results' = <<>>
  /\ UNCHANGED hints

EngineNext ==
  \E x \in Gid : Add(x) \/ Start(x) \/ Pause(x) \/ Finish(x) \/ Purge(x)
=============================================================================
