------------------------ MODULE SyncCoordinatorProofs ------------------------
(***************************************************************************)
(* Proofs about the coordinator, for any gids, page size, attempt limit    *)
(* and any of the controls and engine moves.  The inductive invariant is   *)
(* IInv, the conjunction of the parts below: what the engine holds, the    *)
(* refresh in progress, the connection loop, the store (with the lemmas    *)
(* of DownloadStoreProofs), the history, and the removals.                 *)
(***************************************************************************)
EXTENDS SyncCoordinator, DownloadStoreProofs, SequenceTheorems

-----------------------------------------------------------------------------
(* The parts of the inductive invariant *)

\* A gid is in the result list at most once, and only when it stopped.
ResultsOK ==
  /\ eng \in [Gid -> EngineStatus]
  /\ results \in Seq(Gid)
  /\ \A i \in DOMAIN results : eng[results[i]] \in {"Complete", "Removed"}
  /\ \A i, j \in DOMAIN results : results[i] = results[j] => i = j

\* A refresh asks for pages under known offsets, and what it fetched first is
\* two lists that are apart.
JobOK ==
  /\ job \in [kind: {"none", "full", "poll", "more"},
              active: SUBSET Gid, waiting: SUBSET Gid,
              offset: Offset, through: Nat, total: Nat \cup {NoTotal}]
  /\ job.active \cap job.waiting = {}
  /\ job.kind = "none" => job = NoJob

HintsOK == hints \in Hints /\ pending \in Hints

LoopOK ==
  /\ phase \in Phase
  /\ state \in ConnectionState
  /\ attempt \in Nat
  /\ first \in BOOLEAN
  /\ cancelled \in BOOLEAN
  /\ phase = "Connected" <=> state = "Connected"
  /\ first => phase \in {"LoopHead", "Stopped"}

StoreOK == store \in Store /\ Consistent(store)

HistoryOK ==
  /\ db \subseteq Gid
  /\ answered \in [Gid -> {"none", "removed", "refused"}]

\* What was removed has no row and never gets one: the engine holds it as
\* Removed, which is not recorded, or not at all.
RemovedOK ==
  \A x \in Gid : answered[x] = "removed" => x \notin db /\ eng[x] \in {"Removed", "gone"}

IInv ==
  /\ ResultsOK /\ JobOK /\ HintsOK /\ LoopOK /\ StoreOK /\ HistoryOK
  /\ RemovedOK /\ TerminalTasksAreRecorded /\ AutomaticRetriesAreLimited

-----------------------------------------------------------------------------
(* The engine *)

\* The minimum of two integers is one of them and not above either.
LEMMA MinOfTwo ==
  ASSUME NEW a \in Int, NEW b \in Int
  PROVE  Min({a, b}) \in {a, b} /\ Min({a, b}) <= a /\ Min({a, b}) <= b
<1>1. \E m \in {a, b} : \A y \in {a, b} : m <= y
  <2>1. CASE a <= b
    BY <2>1
  <2>2. CASE b <= a
    BY <2>2
  <2>3. QED
    BY <2>1, <2>2
<1>2. QED
  BY <1>1 DEF Min

\* The maximum of two integers is one of them.
LEMMA MaxOfTwo ==
  ASSUME NEW a \in Int, NEW b \in Int
  PROVE  Max({a, b}) \in {a, b}
<1>1. \E m \in {a, b} : \A y \in {a, b} : m >= y
  <2>1. CASE a >= b
    BY <2>1
  <2>2. CASE b >= a
    BY <2>2
  <2>3. QED
    BY <2>1, <2>2
<1>2. QED
  BY <1>1 DEF Max

\* A page of results holds gids of the engine that stopped.
LEMMA PageOfResults ==
  ASSUME ResultsOK, NEW offset \in Nat, NEW count \in Int
  PROVE  /\ ResultsFrom(offset, count) \in SUBSET Gid
         /\ \A x \in ResultsFrom(offset, count) : eng[x] \in {"Complete", "Removed"}
         /\ count <= 0 => ResultsFrom(offset, count) = {}
         /\ \A c \in Int : count <= c => ResultsFrom(offset, count) \subseteq ResultsFrom(offset, c)
<1> DEFINE last(c) == Min({offset + c, Len(results)})
<1>1. Len(results) \in Nat /\ DOMAIN results = 1 .. Len(results)
  BY DEF ResultsOK
<1>2. ASSUME NEW c \in Int
      PROVE  /\ last(c) \in {offset + c, Len(results)} /\ last(c) \in Int
             /\ last(c) <= offset + c /\ last(c) <= Len(results)
  <2>1. offset + c \in Int /\ Len(results) \in Int
    BY <1>1
  <2>2. /\ last(c) \in {offset + c, Len(results)}
        /\ last(c) <= offset + c /\ last(c) <= Len(results)
    BY <2>1, MinOfTwo
  <2>3. QED
    BY <2>1, <2>2
<1>4. ResultsFrom(offset, count) = {results[i] : i \in (offset + 1) .. last(count)}
  BY DEF ResultsFrom
<1>5. \A c \in Int : ResultsFrom(offset, c) = {results[i] : i \in (offset + 1) .. last(c)}
  BY DEF ResultsFrom
<1> HIDE DEF last
<1>6. (offset + 1) .. last(count) \subseteq DOMAIN results
  <2>1. last(count) \in Int /\ last(count) <= Len(results)
    BY <1>2
  <2>2. QED
    BY <1>1, <2>1
<1>7. ASSUME NEW c \in Int, count <= c
      PROVE  (offset + 1) .. last(count) \subseteq (offset + 1) .. last(c)
  <2>1. last(count) <= offset + c /\ last(count) <= Len(results)
    <3>1. offset + count <= offset + c
      BY <1>7
    <3>2. last(count) \in Int /\ last(count) <= offset + count /\ last(count) <= Len(results)
      BY <1>2
    <3>3. QED
      BY <3>1, <3>2
  <2>2. last(c) \in {offset + c, Len(results)} /\ last(c) \in Int
    BY <1>2
  <2>3. last(count) <= last(c)
    BY <2>1, <2>2
  <2>4. QED
    BY <1>2, <2>2, <2>3
<1>8. count <= 0 => (offset + 1) .. last(count) = {}
  BY <1>2
<1>9. ResultsFrom(offset, count) \in SUBSET Gid
  BY <1>4, <1>6 DEF ResultsOK
<1>10. \A x \in ResultsFrom(offset, count) : eng[x] \in {"Complete", "Removed"}
  BY <1>4, <1>6 DEF ResultsOK
<1>11. ASSUME NEW c \in Int, count <= c
       PROVE  ResultsFrom(offset, count) \subseteq ResultsFrom(offset, c)
  BY <1>4, <1>5, <1>7, <1>11
<1>12. QED
  BY <1>4, <1>8, <1>9, <1>10, <1>11

\* What the engine's moves preserve: its result list, and that a removed or
\* forgotten task stays so.
EngineKept ==
  /\ ResultsOK'
  /\ \A x \in Gid : eng[x] \in {"Removed", "gone"} => eng'[x] \in {"Removed", "gone"}

\* A live task that stops is appended to the results.
LEMMA StoppingKeepsResults ==
  ASSUME ResultsOK, NEW x \in Gid, x \in EngineLive, NEW status \in {"Complete", "Removed"},
         Become(x, status), results' = Append(results, x)
  PROVE  EngineKept
<1>1. eng[x] \in {"Active", "Waiting"}
  BY DEF EngineLive, EngineActive, EngineWaiting
<1>2. eng' = [eng EXCEPT ![x] = status] /\ eng' \in [Gid -> EngineStatus]
  BY DEF Become, ResultsOK, EngineStatus
<1>3. /\ results' \in Seq(Gid)
      /\ DOMAIN results' = 1 .. (Len(results) + 1)
      /\ DOMAIN results = 1 .. Len(results)
      /\ \A i \in 1 .. Len(results) : results'[i] = results[i]
      /\ results'[Len(results) + 1] = x
      /\ Len(results) \in Nat
  BY DEF ResultsOK
<1>4. \A i \in DOMAIN results : results[i] # x /\ results[i] \in Gid
  BY <1>1 DEF ResultsOK
<1>5. \A i \in DOMAIN results' : eng'[results'[i]] \in {"Complete", "Removed"}
  BY <1>2, <1>3, <1>4 DEF ResultsOK
<1>6. \A i, j \in DOMAIN results' : results'[i] = results'[j] => i = j
  BY <1>3, <1>4 DEF ResultsOK
<1>7. \A y \in Gid : eng[y] \in {"Removed", "gone"} => eng'[y] \in {"Removed", "gone"}
  BY <1>1, <1>2 DEF ResultsOK
<1>8. QED
  BY <1>2, <1>3, <1>5, <1>6, <1>7 DEF EngineKept, ResultsOK

\* A result that is dropped leaves the order of the others alone.
LEMMA DroppingKeepsResults ==
  ASSUME ResultsOK, NEW x \in Gid, DropResult(x)
  PROVE  EngineKept /\ eng' = [eng EXCEPT ![x] = "gone"]
<1>1. PICK k \in DOMAIN results : results[k] = x /\ Become(x, "gone") /\ results' = RemoveAt(results, k)
  BY DEF DropResult
<1>2. eng' = [eng EXCEPT ![x] = "gone"] /\ eng' \in [Gid -> EngineStatus]
  BY <1>1 DEF Become, ResultsOK, EngineStatus
<1>3. DOMAIN results = 1 .. Len(results) /\ Len(results) \in Nat /\ k \in 1 .. Len(results)
  BY DEF ResultsOK
<1>4. results' = SubSeq(results, 1, k - 1) \o SubSeq(results, k + 1, Len(results))
  BY <1>1 DEF RemoveAt
<1>5. /\ results' \in Seq(Gid)
      /\ Len(results') = Len(results) - 1
      /\ \A i \in 1 .. (Len(results) - 1) : results'[i] = IF i < k THEN results[i] ELSE results[i + 1]
  <2> DEFINE before == SubSeq(results, 1, k - 1)
             after  == SubSeq(results, k + 1, Len(results))
  <2>0. results \in Seq(Gid)
    BY DEF ResultsOK
  <2>1. /\ before \in Seq(Gid) /\ Len(before) = k - 1
        /\ \A i \in 1 .. (k - 1) : before[i] = results[i]
    BY <1>3, <2>0
  <2>2. /\ after \in Seq(Gid) /\ Len(after) = Len(results) - k
        /\ \A i \in 1 .. (Len(results) - k) : after[i] = results[k + i]
    BY <1>3, <2>0
  <2>3. results' = before \o after
    BY <1>4
  <2> HIDE DEF before, after
  <2>4. /\ results' \in Seq(Gid) /\ Len(results') = Len(results) - 1
    <3>1. /\ before \o after \in Seq(Gid)
          /\ Len(before \o after) = Len(before) + Len(after)
      BY ONLY <2>1, <2>2, ConcatProperties
    <3>2. QED
      BY <1>3, <2>1, <2>2, <2>3, <3>1
  <2>5. ASSUME NEW i \in 1 .. (Len(results) - 1)
        PROVE  results'[i] = IF i < k THEN results[i] ELSE results[i + 1]
    <3>1. CASE i < k
      BY <1>3, <2>1, <2>2, <2>3, <3>1
    <3>2. CASE i >= k
      <4>1. i - (k - 1) \in 1 .. (Len(results) - k) /\ k + (i - (k - 1)) = i + 1
        BY <1>3, <3>2
      <4>2. results'[i] = after[i - (k - 1)]
        BY <1>3, <2>1, <2>2, <2>3, <3>2
      <4>3. QED
        BY <1>3, <2>2, <3>2, <4>1, <4>2
    <3>3. QED
      BY <1>3, <3>1, <3>2
  <2>6. QED
    BY <2>4, <2>5
<1>6. DOMAIN results' = 1 .. (Len(results) - 1)
  BY <1>5
<1>7. \A i \in DOMAIN results : i # k => results[i] # x /\ results[i] \in Gid
  BY <1>1 DEF ResultsOK
<1> DEFINE old(i) == IF i < k THEN i ELSE i + 1
<1>7a. ASSUME NEW i \in DOMAIN results'
       PROVE  old(i) \in DOMAIN results /\ old(i) # k /\ results'[i] = results[old(i)]
  BY <1>3, <1>5, <1>6
<1>7b. ASSUME NEW i \in DOMAIN results', NEW j \in DOMAIN results', old(i) = old(j)
       PROVE  i = j
  BY <1>3, <1>6, <1>7b
<1> HIDE DEF old
<1>8. \A i \in DOMAIN results' : eng'[results'[i]] \in {"Complete", "Removed"}
  BY <1>2, <1>7, <1>7a DEF ResultsOK
<1>9. \A i, j \in DOMAIN results' : results'[i] = results'[j] => i = j
  BY <1>7a, <1>7b DEF ResultsOK
<1>10. \A y \in Gid : eng[y] \in {"Removed", "gone"} => eng'[y] \in {"Removed", "gone"}
  BY <1>2 DEF ResultsOK
<1>11. QED
  BY <1>2, <1>5, <1>8, <1>9, <1>10 DEF EngineKept, ResultsOK

\* A task that starts, pauses or is added was in no result list.
LEMMA LiveMovesKeepResults ==
  ASSUME ResultsOK, NEW x \in Gid, eng[x] \in {"new", "Waiting", "Active"},
         NEW status \in {"Waiting", "Active"}, Become(x, status), UNCHANGED results
  PROVE  EngineKept
<1>1. eng' = [eng EXCEPT ![x] = status] /\ eng' \in [Gid -> EngineStatus]
  BY DEF Become, ResultsOK, EngineStatus
<1>2. \A i \in DOMAIN results : results[i] # x /\ results[i] \in Gid
  BY DEF ResultsOK
<1>3. \A i \in DOMAIN results' : eng'[results'[i]] \in {"Complete", "Removed"}
  BY <1>1, <1>2 DEF ResultsOK
<1>4. QED
  BY <1>1, <1>3 DEF EngineKept, ResultsOK

\* Every move of the engine, and every removal, keeps what ResultsOK says.
LEMMA EngineMovesKeepResults ==
  ASSUME ResultsOK, HintsOK, EngineNext \/ Restart
  PROVE  EngineKept /\ hints' \in Hints
<1>1. ASSUME NEW x \in Gid, Add(x) \/ Start(x) \/ Pause(x)
      PROVE  EngineKept /\ hints' \in Hints
  BY <1>1, LiveMovesKeepResults DEF Add, Start, Pause, TaskHint, HintsOK, Hints
<1>2. ASSUME NEW x \in Gid, Finish(x)
      PROVE  EngineKept /\ hints' \in Hints
  <2>1. x \in EngineLive
    BY <1>2 DEF Finish, EngineLive, EngineActive
  <2>2. hints' \in Hints
    BY <1>2 DEF Finish, FullHint, HintsOK, Hints
  <2>3. QED
    BY <1>2, <2>1, <2>2, StoppingKeepsResults DEF Finish
<1>3. ASSUME NEW x \in Gid, Purge(x)
      PROVE  EngineKept /\ hints' \in Hints
  BY <1>3, DroppingKeepsResults DEF Purge, HintsOK
<1>4. CASE Restart
  <2>1. eng' \in [Gid -> EngineStatus] /\ results' = <<>>
    BY <1>4 DEF Restart, EngineStatus
  <2>2. \A y \in Gid : eng[y] \in {"Removed", "gone"} => eng'[y] \in {"Removed", "gone"}
    BY <1>4 DEF Restart, EngineLive, EngineActive, EngineWaiting
  <2>3. QED
    BY <1>4, <2>1, <2>2 DEF EngineKept, ResultsOK, Restart, HintsOK
<1>5. QED
  BY <1>1, <1>2, <1>3, <1>4 DEF EngineNext

LEMMA RemovalKeepsResults ==
  ASSUME ResultsOK, HintsOK, NEW x \in Gid, RemoveFromEngine(x)
  PROVE  EngineKept /\ hints' \in Hints /\ eng'[x] \in {"Removed", "gone"}
<1>1. CASE DropResult(x) /\ UNCHANGED hints
  BY <1>1, DroppingKeepsResults DEF HintsOK, ResultsOK
<1>2. CASE StopLive(x) /\ hints' = FullHint
  <2>1. EngineKept
    BY <1>2, StoppingKeepsResults DEF StopLive
  <2>2. eng'[x] = "Removed"
    BY <1>2 DEF StopLive, Become, ResultsOK
  <2>3. QED
    BY <1>2, <2>1, <2>2 DEF FullHint, HintsOK, Hints
<1>3. QED
  BY <1>1, <1>2 DEF RemoveFromEngine

-----------------------------------------------------------------------------
(* Answers applied to the store *)

\* What any answer may do: keep the store consistent and in its session, and
\* write only statuses of S, those of st.
AnswerOK(s, S, st, u) ==
  /\ u \in Store /\ Consistent(u)
  /\ SameSession(s, u)
  /\ TasksFrom(s, S, st, u)

LEMMA StoreHasFields ==
  ASSUME NEW s \in Store
  PROVE  HasSession(s) /\ HasTasks(s)
  BY DEF Store, HasSession, HasTasks

LiveStatus(A, W) == [x \in A \cup W |-> IF x \in A THEN "Active" ELSE "Waiting"]

LEMMA ApplyLiveOK ==
  ASSUME NEW s \in Store, Consistent(s),
         NEW A \in SUBSET Gid, NEW W \in SUBSET Gid, A \cap W = {}
  PROVE  AnswerOK(s, A \cup W, LiveStatus(A, W), ApplyLive(s, A, W))
<1>1. LiveStatus(A, W) \in Reports(A \cup W)
  BY DEF LiveStatus, Reports, Status
<1>2. ApplyLive(s, A, W) = ReconcileLive(s, A, W, LiveStatus(A, W))
  BY DEF ApplyLive, LiveStatus
<1>3. LiveIsUnique(A, W)
  BY DEF LiveIsUnique
<1> HIDE DEF LiveStatus
<1>4. QED
  BY <1>1, <1>2, <1>3, ReconcileLiveConsistent, OperationsKeepSession,
     OperationsWriteTasks, StoreHasFields DEF AnswerOK

LEMMA ApplyPageOK ==
  ASSUME ResultsOK, NEW s \in Store, Consistent(s),
         NEW offset \in Offset, NEW total \in Nat, offset <= total
  PROVE  \E P \in SUBSET Gid :
           /\ P \subseteq ResultsFrom(offset, PageSize)
           /\ AnswerOK(s, P, Reported(P), ApplyPage(s, offset, total))
<1> DEFINE count == Min({PageSize, total - offset})
           P     == ResultsFrom(offset, count)
<1>1. offset \in Nat /\ PageSize \in Nat \ {0} /\ total - offset \in Int
  BY OffsetsAreNaturals, PageSizeIsPositive
<1>2. count \in Int /\ count <= PageSize /\ count <= total - offset
  BY <1>1, MinOfTwo
<1> HIDE DEF count
<1>3. /\ P \in SUBSET Gid /\ P \subseteq ResultsFrom(offset, PageSize)
      /\ \A x \in P : eng[x] \in {"Complete", "Removed"}
      /\ count <= 0 => P = {}
  BY <1>1, <1>2, PageOfResults
<1>4. offset < total \/ P = {}
  BY <1>1, <1>2, <1>3
<1>5. ApplyPage(s, offset, total) = ApplyStoppedPage(s, offset, total, P, Reported(P))
  BY DEF ApplyPage, count
<1> HIDE DEF P
<1>6. Reported(P) \in Reports(P)
  BY <1>3 DEF Reported, Reports, Status
<1>7. AnswerOK(s, P, Reported(P), ApplyPage(s, offset, total))
  BY <1>3, <1>4, <1>5, <1>6, ApplyStoppedPageConsistent, OperationsKeepSession,
     OperationsWriteTasks, StoreHasFields DEF AnswerOK
<1>8. QED
  BY <1>3, <1>7

LEMMA SeedOK ==
  ASSUME NEW s \in Store, Consistent(s), NEW H \in SUBSET Gid
  PROVE  AnswerOK(s, H, [x \in Gid |-> "Complete"], Seed(s, H))
<1> DEFINE rec == [x \in Gid |-> "Complete"]
<1>1. rec \in [Gid -> Status]
  BY DEF Status
<1>2. Seed(s, H) = SeedLocalHistory(s, H, rec)
  BY DEF Seed
<1> HIDE DEF rec
<1>3. AnswerOK(s, H, rec, Seed(s, H))
  BY <1>1, <1>2, SeedLocalHistoryConsistent, OperationsKeepSession,
     OperationsWriteTasks, StoreHasFields DEF AnswerOK
<1>4. QED
  BY <1>3 DEF rec

LEMMA TargetedOK ==
  ASSUME NEW s \in Store, Consistent(s), NEW S \in SUBSET Gid, NEW st \in [Gid -> Entry]
  PROVE  AnswerOK(s, S, st, ApplyTaskSnapshots(s, S, st))
<1> DEFINE absent == {x \in S : st[x] = "absent"}
           found  == S \ absent
           rep    == [x \in found |-> st[x]]
           cut    == RemoveTasks(s, absent)
           up     == Upsert(cut, found, rep)
<1>1. ApplyTaskSnapshots(s, S, st) = up
  BY DEF ApplyTaskSnapshots
<1>2. absent \in SUBSET Gid /\ found \in SUBSET Gid /\ rep \in Reports(found)
  BY DEF Reports, Entry
<1>3. \A x \in found : x \in S /\ rep[x] = st[x]
  OBVIOUS
<1> HIDE DEF absent, found, rep
<1>4. cut \in Store /\ Consistent(cut) /\ SameSession(s, cut) /\ TasksFrom(s, {}, st, cut)
  BY <1>2, RemoveTasksConsistent, OperationsKeepSession, OperationsWriteTasks, StoreHasFields
<1> HIDE DEF cut
<1>5. up \in Store /\ SameSession(cut, up) /\ TasksFrom(cut, found, rep, up)
  BY <1>2, <1>4, UpsertFacts, HelpersKeepSession, UpsertWritesTasks, StoreHasFields
<1>6. Consistent(up)
  <2>1. up.patched \in BOOLEAN /\ [up EXCEPT !.patched = up.patched] = up
    BY <1>5 DEF Store
  <2>2. Consistent([up EXCEPT !.patched = up.patched])
    BY <1>2, <1>4, <2>1, UpsertConsistent
  <2>3. QED
    BY <2>1, <2>2
<1> HIDE DEF up
<1>7. SameSession(s, up)
  BY <1>4, <1>5 DEF SameSession
<1>8. TasksFrom(s, S, st, up)
  BY <1>3, <1>4, <1>5 DEF TasksFrom
<1>9. QED
  BY <1>1, <1>5, <1>6, <1>7, <1>8 DEF AnswerOK

LEMMA RemoveHistoryOnlyOK ==
  ASSUME NEW s \in Store, Consistent(s), NEW S \in SUBSET Gid
  PROVE  AnswerOK(s, {}, <<>>, RemoveHistoryOnly(s, S))
  BY RemoveHistoryOnlyConsistent, OperationsKeepSession, OperationsWriteTasks,
     StoreHasFields DEF AnswerOK

-----------------------------------------------------------------------------
(* Facts the steps share *)

RecordedIn(s, d, a) ==
  \A x \in Gid : s.tasks[x] \in Recorded => x \in d \/ a[x] = "removed"

LEMMA RecordedForm ==
  TerminalTasksAreRecorded <=> RecordedIn(store, db, answered)
  BY DEF TerminalTasksAreRecorded, RecordedIn, Known, Recorded

\* An answer brings no terminal status that was not persisted.
LEMMA AnswerRecorded ==
  ASSUME NEW s, NEW S, NEW st, NEW u, AnswerOK(s, S, st, u),
         NEW d, NEW e, NEW a, RecordedIn(s, d, a), d \subseteq e,
         \A x \in S : st[x] \in Recorded => x \in e
  PROVE  RecordedIn(u, e, a)
  BY DEF AnswerOK, TasksFrom, RecordedIn, Recorded

\* Persisting records what completed, keeps the other rows, and never brings
\* back a row of a removed task.
LEMMA PersistFacts ==
  ASSUME HistoryOK, RemovedOK, NEW S \in SUBSET Gid
  PROVE  /\ Persist(S) \subseteq Gid /\ db \subseteq Persist(S)
         /\ \A x \in S : eng[x] \in Recorded => x \in Persist(S)
         /\ \A x \in Gid : answered[x] = "removed" => x \notin Persist(S)
  BY DEF Persist, HistoryOK, RemovedOK, Recorded

LEMMA NoJobOK == ASSUME job' = NoJob PROVE JobOK'
<1>1. 0 \in Offset
  BY OffsetsAreNaturals
<1>2. QED
  BY <1>1 DEF JobOK, NoJob

\* The parts of the invariant that a step keeps by leaving them alone.
LEMMA UntouchedParts ==
  ASSUME IInv
  PROVE  /\ UNCHANGED <<eng, results>> => ResultsOK'
         /\ UNCHANGED job => JobOK'
         /\ UNCHANGED connectionVars => LoopOK' /\ StoreOK' /\ AutomaticRetriesAreLimited'
         /\ UNCHANGED <<phase, state, attempt, first, cancelled>>
              => LoopOK' /\ AutomaticRetriesAreLimited'
         /\ UNCHANGED <<db, answered>> => HistoryOK'
         /\ UNCHANGED <<db, answered, eng>> => RemovedOK'
         /\ UNCHANGED <<db, answered, store>> => TerminalTasksAreRecorded'
<1>1. UNCHANGED <<eng, results>> => ResultsOK'
  BY DEF IInv, ResultsOK
<1>2. UNCHANGED job => JobOK'
  BY DEF IInv, JobOK
<1>3. UNCHANGED connectionVars => LoopOK' /\ StoreOK' /\ AutomaticRetriesAreLimited'
  BY DEF IInv, LoopOK, StoreOK, AutomaticRetriesAreLimited, connectionVars
<1>4. UNCHANGED <<phase, state, attempt, first, cancelled>>
              => LoopOK' /\ AutomaticRetriesAreLimited'
  BY DEF IInv, LoopOK, AutomaticRetriesAreLimited
<1>5. UNCHANGED <<db, answered>> => HistoryOK'
  BY DEF IInv, HistoryOK
<1>6. UNCHANGED <<db, answered, eng>> => RemovedOK'
  BY DEF IInv, RemovedOK
<1>7. UNCHANGED <<db, answered, store>> => TerminalTasksAreRecorded'
  BY DEF IInv, TerminalTasksAreRecorded, Known
<1>8. QED
  BY <1>1, <1>2, <1>3, <1>4, <1>5, <1>6, <1>7

\* A failure marks the store stale and leaves its tasks alone.
LEMMA FailureOK ==
  ASSUME LoopOK, StoreOK, ~first, NEW n \in Nat, NEW retryable, FailAfter(n, retryable)
  PROVE  /\ LoopOK' /\ StoreOK' /\ AutomaticRetriesAreLimited'
         /\ store'.tasks = store.tasks
<1>1. store' = SetStale(store, TRUE)
  BY DEF FailAfter, MarkStale
<1>2. StoreOK'
  <2>1. 0 \in Nat /\ TRUE \in BOOLEAN
    OBVIOUS
  <2>2. QED
    BY <1>1, <2>1, SessionCallsConsistent DEF StoreOK
<1>3. store'.tasks = store.tasks
  BY <1>1 DEF SetStale, StoreOK, Store
<1>4. LoopOK'
  BY DEF FailAfter, LoopOK, Phase, ConnectionState
<1>5. AutomaticRetriesAreLimited'
  <2>1. phase' = "RetryDelay" => ~LimitReached(n + 1) /\ attempt' = n + 1
    BY DEF FailAfter
  <2>2. SUFFICES ASSUME phase' = "RetryDelay", MaxAttempts # Unlimited
                 PROVE  attempt' < MaxAttempts
    BY DEF AutomaticRetriesAreLimited
  <2>3. ~(n + 1 >= MaxAttempts) /\ attempt' = n + 1 /\ MaxAttempts \in Nat
    BY <2>1, <2>2, MaxAttemptsIsOptional DEF LimitReached
  <2>4. QED
    BY <2>3
<1>6. QED
  BY <1>2, <1>3, <1>4, <1>5

\* The end of a session keeps the invariant, whatever was recorded before.
LEMMA LoseSessionOK ==
  ASSUME IInv, NEW retryable, LoseSession(retryable),
         db \subseteq db', db' \subseteq Gid,
         \A x \in Gid : answered[x] = "removed" => x \notin db'
  PROVE  IInv'
<1>1. PICK n \in Nat : FailAfter(n, retryable)
  BY DEF LoseSession, SessionLost, IInv, LoopOK
<1>2. ~first
  BY DEF LoseSession, SessionLost, Awaiting, IInv, LoopOK
<1>3. /\ LoopOK' /\ StoreOK' /\ AutomaticRetriesAreLimited' /\ store'.tasks = store.tasks
  BY <1>1, <1>2, FailureOK DEF IInv
<1>4. JobOK' /\ HintsOK'
  BY NoJobOK DEF LoseSession, EndSession, HintsOK, NoHints, Hints
<1>5. ResultsOK'
  BY UntouchedParts DEF LoseSession
<1>6. HistoryOK' /\ RemovedOK'
  BY DEF IInv, LoseSession, HistoryOK, RemovedOK
<1>7. RecordedIn(store', db', answered')
  BY <1>3, RecordedForm DEF IInv, RecordedIn, LoseSession
<1>8. TerminalTasksAreRecorded'
  BY <1>7 DEF TerminalTasksAreRecorded, RecordedIn, Known, Recorded
<1>9. QED
  BY <1>3, <1>4, <1>5, <1>6, <1>8 DEF IInv

-----------------------------------------------------------------------------
(* Answers, one after another *)

\* A store that answers of this session have led to, while the history is d.
Good(s, d) ==
  /\ s \in Store /\ Consistent(s)
  /\ SameSession(store, s)
  /\ RecordedIn(s, d, answered)

\* A history that grew by terminal tasks which nobody removed.
HistoryGrew(d) ==
  /\ db \subseteq d /\ d \subseteq Gid
  /\ \A x \in Gid : answered[x] = "removed" => x \notin d

LEMMA PersistGrows ==
  ASSUME IInv, NEW S \in SUBSET Gid
  PROVE  HistoryGrew(Persist(S)) /\ HistoryGrew(db)
<1>1. HistoryGrew(Persist(S))
  BY PersistFacts DEF IInv, HistoryGrew
<1>2. HistoryGrew(db)
  BY DEF IInv, HistoryOK, RemovedOK, HistoryGrew
<1>3. QED
  BY <1>1, <1>2

LEMMA GoodAtFirst ==
  ASSUME IInv, NEW d, HistoryGrew(d)
  PROVE  Good(store, d)
<1>1. store \in Store /\ Consistent(store)
  BY DEF IInv, StoreOK
<1>2. SameSession(store, store)
  BY <1>1, StoreHasFields DEF SameSession
<1>3. RecordedIn(store, d, answered)
  BY RecordedForm DEF IInv, RecordedIn, HistoryGrew
<1>4. QED
  BY <1>1, <1>2, <1>3 DEF Good

LEMMA GoodAfterAnswer ==
  ASSUME NEW s, NEW d, Good(s, d), NEW S, NEW st, NEW u, AnswerOK(s, S, st, u),
         \A x \in S : st[x] \in Recorded => x \in d
  PROVE  Good(u, d)
<1>1. u \in Store /\ Consistent(u) /\ SameSession(s, u)
  BY DEF AnswerOK
<1>2. SameSession(store, u)
  BY <1>1 DEF Good, SameSession
<1>3. RecordedIn(u, d, answered)
  BY AnswerRecorded DEF Good
<1>4. QED
  BY <1>1, <1>2, <1>3 DEF Good

LEMMA GoodAfterLive ==
  ASSUME NEW s, NEW d, Good(s, d),
         NEW A \in SUBSET Gid, NEW W \in SUBSET Gid, A \cap W = {}
  PROVE  Good(ApplyLive(s, A, W), d)
<1>1. AnswerOK(s, A \cup W, LiveStatus(A, W), ApplyLive(s, A, W))
  BY ApplyLiveOK DEF Good
<1>2. \A x \in A \cup W : LiveStatus(A, W)[x] \notin Recorded
  BY DEF LiveStatus, Recorded
<1>3. QED
  BY <1>1, <1>2, GoodAfterAnswer

LEMMA GoodAfterPage ==
  ASSUME ResultsOK, NEW s, NEW d, Good(s, d), NEW offset \in Offset, NEW total \in Nat,
         offset <= total, Persist(ResultsFrom(offset, PageSize)) \subseteq d
  PROVE  Good(ApplyPage(s, offset, total), d)
<1>1. PICK P \in SUBSET Gid :
        /\ P \subseteq ResultsFrom(offset, PageSize)
        /\ AnswerOK(s, P, Reported(P), ApplyPage(s, offset, total))
  BY ApplyPageOK DEF Good
<1>2. \A x \in P : Reported(P)[x] \in Recorded => x \in d
  BY <1>1 DEF Reported, Persist
<1>3. QED
  BY <1>1, <1>2, GoodAfterAnswer

LEMMA GoodAfterSeed ==
  ASSUME NEW s, NEW d \in SUBSET Gid, Good(s, d)
  PROVE  Good(Seed(s, d), d)
<1>1. AnswerOK(s, d, [x \in Gid |-> "Complete"], Seed(s, d))
  BY SeedOK DEF Good
<1>2. QED
  BY <1>1, GoodAfterAnswer

\* A good store makes a good state.
LEMMA GoodIsKept ==
  ASSUME IInv, Good(store', db'), HistoryGrew(db'), UNCHANGED <<eng, answered>>
  PROVE  StoreOK' /\ HistoryOK' /\ RemovedOK' /\ TerminalTasksAreRecorded'
<1>1. StoreOK'
  BY DEF Good, StoreOK
<1>2. HistoryOK' /\ RemovedOK'
  BY DEF IInv, HistoryGrew, HistoryOK, RemovedOK
<1>3. TerminalTasksAreRecorded'
  BY DEF Good, RecordedIn, TerminalTasksAreRecorded, Known
<1>4. QED
  BY <1>1, <1>2, <1>3

-----------------------------------------------------------------------------
(* The steps of a session *)

\* The loop stays where it is, and the session what it was.
SameLoop ==
  /\ UNCHANGED <<phase, state, attempt, first, cancelled>>
  /\ SameSession(store, store')

LEMMA LiveListsAreApart ==
  EngineActive \in SUBSET Gid /\ EngineWaiting \in SUBSET Gid
    /\ EngineActive \cap EngineWaiting = {}
  BY DEF EngineActive, EngineWaiting

\* A step of the session that touches neither the store nor the history.
LEMMA QuietStep ==
  ASSUME IInv, UNCHANGED <<connectionVars, db, answered>>,
         UNCHANGED engineVars \/ (UNCHANGED <<eng, results>> /\ hints' \in Hints),
         JobOK', pending' \in Hints
  PROVE  IInv' /\ SameLoop
<1>1. UNCHANGED <<eng, results>> /\ HintsOK'
  BY DEF engineVars, IInv, HintsOK
<1>2. UNCHANGED <<phase, state, attempt, first, cancelled, store>>
  BY DEF connectionVars
<1>3. SameSession(store, store')
  BY <1>2, StoreHasFields DEF IInv, StoreOK, SameSession
<1>4. ResultsOK' /\ LoopOK' /\ StoreOK' /\ HistoryOK' /\ RemovedOK'
      /\ TerminalTasksAreRecorded' /\ AutomaticRetriesAreLimited'
  BY <1>1, <1>2, UntouchedParts
<1>5. QED
  BY <1>1, <1>2, <1>3, <1>4 DEF IInv, SameLoop

LEMMA LoadedThroughIsNatural == ASSUME StoreOK PROVE LoadedThrough \in Nat
<1>1. NextStoppedOffset(store) \in Nat
  BY NextStoppedOffsetIsNatural DEF StoreOK
<1>2. PageSize \in Nat
  BY PageSizeIsPositive
<1>3. Max({NextStoppedOffset(store), PageSize}) \in {NextStoppedOffset(store), PageSize}
  BY <1>1, <1>2, MaxOfTwo
<1>4. QED
  BY <1>1, <1>2, <1>3 DEF LoadedThrough

LEMMA BeginRefreshAllOK == ASSUME StoreOK, BeginRefreshAll PROVE JobOK'
<1>1. 0 \in Offset /\ LoadedThrough \in Nat
  BY OffsetsAreNaturals, LoadedThroughIsNatural
<1>2. QED
  BY <1>1, LiveListsAreApart DEF BeginRefreshAll, NoJob, JobOK

\* An answer applied in one step.
LEMMA AnswerStep ==
  ASSUME IInv, Good(store', db'), HistoryGrew(db'),
         UNCHANGED <<phase, state, attempt, first, cancelled, engineVars, answered>>,
         JobOK', pending' \in Hints
  PROVE  IInv' /\ SameLoop
<1>1. UNCHANGED <<eng, results, hints>>
  BY DEF engineVars
<1>2. StoreOK' /\ HistoryOK' /\ RemovedOK' /\ TerminalTasksAreRecorded'
  BY <1>1, GoodIsKept
<1>3. ResultsOK' /\ LoopOK' /\ AutomaticRetriesAreLimited'
  BY <1>1, UntouchedParts
<1>4. HintsOK'
  BY <1>1 DEF IInv, HintsOK
<1>5. SameLoop
  BY DEF SameLoop, Good
<1>6. QED
  BY <1>2, <1>3, <1>4, <1>5 DEF IInv

\* Hints, ticks and commands that only change what is pending or begin a job.
LEMMA RequestsOK ==
  ASSUME IInv,
         \/ ReceiveHints \/ ForceRefresh \/ NotificationTickFull \/ StoppedTick
         \/ LoadMoreStopped \/ ReadTotal \/ Mutate
  PROVE  IInv' /\ SameLoop
<1>1. pending \in Hints /\ hints \in Hints /\ NoHints \in Hints
  BY DEF IInv, HintsOK, Hints, NoHints
<1>2. JobOK /\ results \in Seq(Gid) /\ 0 \in Offset /\ LoadedThrough \in Nat
  BY OffsetsAreNaturals, LoadedThroughIsNatural DEF IInv, ResultsOK
<1>3. CASE ReceiveHints
  <2>1. UNCHANGED <<connectionVars, eng, results, job, db, answered>>
    BY <1>3 DEF ReceiveHints
  <2>2. pending' \in Hints /\ hints' \in Hints
    BY <1>1, <1>3 DEF ReceiveHints, Hints
  <2>3. JobOK'
    BY <2>1, UntouchedParts
  <2>4. QED
    BY <2>1, <2>2, <2>3, QuietStep
<1>4. CASE ForceRefresh \/ NotificationTickFull
  <2>1. UNCHANGED <<connectionVars, engineVars, db, answered>> /\ BeginRefreshAll
    BY <1>4 DEF ForceRefresh, NotificationTickFull
  <2>2. pending' \in Hints
    BY <1>1, <1>4 DEF ForceRefresh, NotificationTickFull
  <2>3. QED
    BY <2>1, <2>2, BeginRefreshAllOK, QuietStep DEF IInv
<1>5. CASE StoppedTick
  <2>1. UNCHANGED <<connectionVars, engineVars, pending, db, answered>>
    BY <1>5 DEF StoppedTick
  <2>2. JobOK'
    BY <1>2, <1>5 DEF StoppedTick, NoJob, JobOK
  <2>3. QED
    BY <1>1, <2>1, <2>2, QuietStep
<1>6. CASE LoadMoreStopped
  <2>1. UNCHANGED <<connectionVars, engineVars, pending, db, answered>>
    BY <1>6 DEF LoadMoreStopped
  <2>2. JobOK'
    BY <1>6 DEF LoadMoreStopped, InBounds, NoJob, JobOK
  <2>3. QED
    BY <1>1, <2>1, <2>2, QuietStep
<1>7. CASE ReadTotal
  <2>1. UNCHANGED <<connectionVars, engineVars, pending, db, answered>>
    BY <1>7 DEF ReadTotal
  <2>2. Len(results) \in Nat
    BY <1>2
  <2>3. JobOK'
    BY <1>2, <1>7, <2>2 DEF ReadTotal, JobOK
  <2>4. QED
    BY <1>1, <2>1, <2>3, QuietStep
<1>8. CASE Mutate
  <2>1. UNCHANGED <<connectionVars, engineVars, job, db, answered>>
    BY <1>8 DEF Mutate
  <2>2. pending' \in Hints
    <3>1. CASE AskForFullRefresh
      BY <1>1, <3>1 DEF AskForFullRefresh, Hints
    <3>2. CASE \E x \in Known(store) : pending' = [pending EXCEPT !.tasks = @ \cup {x}]
      BY <1>1, <3>2 DEF Known, Hints
    <3>3. QED
      BY <1>8, <3>1, <3>2 DEF Mutate
  <2>3. JobOK'
    BY <2>1, UntouchedParts
  <2>4. QED
    BY <2>1, <2>2, <2>3, QuietStep
<1>9. QED
  BY <1>3, <1>4, <1>5, <1>6, <1>7, <1>8

\* refresh_targeted: what it applies is what the engine answered.
LEMMA TargetedStep ==
  ASSUME IInv, NotificationTickTargeted
  PROVE  IInv' /\ SameLoop
<1> DEFINE st == [x \in Gid |-> TellStatus(x)]
<1>1. pending.tasks \in SUBSET Gid /\ NoHints \in Hints
  BY DEF IInv, HintsOK, Hints, NoHints
<1>2. st \in [Gid -> Entry]
  BY DEF TellStatus, Entry
<1>3. db' = Persist(pending.tasks) /\ HistoryGrew(db')
  BY <1>1, PersistGrows DEF NotificationTickTargeted
<1>4. \A x \in pending.tasks : st[x] \in Recorded => x \in db'
  BY <1>1, <1>3 DEF TellStatus, Persist, Recorded
<1>5. store' = ApplyTaskSnapshots(store, pending.tasks, st)
  BY DEF NotificationTickTargeted
<1> HIDE DEF st
<1>6. Good(store, db')
  BY <1>3, GoodAtFirst
<1>7. AnswerOK(store, pending.tasks, st, store')
  BY <1>1, <1>2, <1>5, <1>6, TargetedOK DEF Good
<1>8. Good(store', db')
  BY <1>4, <1>6, <1>7, GoodAfterAnswer
<1>9. UNCHANGED <<phase, state, attempt, first, cancelled, engineVars, job, answered>>
      /\ pending' = NoHints
  BY DEF NotificationTickTargeted
<1>10. JobOK'
  BY <1>9, UntouchedParts
<1>11. QED
  BY <1>1, <1>3, <1>8, <1>9, <1>10, AnswerStep

LEMMA LiveTickStep ==
  ASSUME IInv, LiveTick
  PROVE  IInv' /\ SameLoop
<1>1. UNCHANGED <<phase, state, attempt, first, cancelled, engineVars, pending, job, db, answered>>
  BY DEF LiveTick, serviceVars
<1>2. HistoryGrew(db') /\ Good(store, db')
  BY <1>1, PersistGrows, GoodAtFirst
<1>3. store' = ApplyLive(store, EngineActive, EngineWaiting)
  BY DEF LiveTick
<1>4. Good(store', db')
  BY <1>2, <1>3, GoodAfterLive, LiveListsAreApart
<1>5. JobOK' /\ pending' \in Hints
  BY <1>1, UntouchedParts DEF IInv, HintsOK
<1>6. QED
  BY <1>1, <1>2, <1>4, <1>5, AnswerStep

\* A page that arrives is persisted before it is shown.
LEMMA PageFacts ==
  ASSUME IInv, PageArrived
  PROVE  /\ job.offset \in Offset /\ job.offset \in Nat /\ job.total \in Nat
         /\ job.active \in SUBSET Gid /\ job.waiting \in SUBSET Gid
         /\ job.active \cap job.waiting = {}
         /\ HistoryGrew(Persist(ResultsFrom(job.offset, PageSize)))
<1>1. /\ job.offset \in Offset /\ job.total \in Nat \cup {NoTotal}
      /\ job.active \in SUBSET Gid /\ job.waiting \in SUBSET Gid
      /\ job.active \cap job.waiting = {}
  BY DEF IInv, JobOK
<1>2. job.total \in Nat /\ job.offset \in Nat
  BY <1>1, OffsetsAreNaturals DEF PageArrived
<1>3. ResultsFrom(job.offset, PageSize) \in SUBSET Gid
  BY <1>2, PageSizeIsPositive, PageOfResults DEF IInv
<1>4. QED
  BY <1>1, <1>2, <1>3, PersistGrows

LEMMA PageStep ==
  ASSUME IInv, PageApplied
  PROVE  /\ HistoryGrew(db')
         /\ Good(ApplyPage(store, job.offset, job.total), db')
<1>1. PageArrived /\ PageIsValid(job.offset, job.total)
      /\ db' = Persist(ResultsFrom(job.offset, PageSize))
  BY DEF PageApplied
<1>2. /\ job.offset \in Offset /\ job.total \in Nat
      /\ HistoryGrew(db')
  BY <1>1, PageFacts
<1>3. job.offset <= job.total
  BY <1>1, <1>2, NoTotalIsNoNumber DEF PageIsValid
<1>4. Good(store, db')
  BY <1>2, GoodAtFirst
<1>5. Persist(ResultsFrom(job.offset, PageSize)) \subseteq db'
  BY <1>1
<1>6. ResultsOK
  BY DEF IInv
<1>7. Good(ApplyPage(store, job.offset, job.total), db')
  BY <1>2, <1>3, <1>4, <1>5, <1>6, GoodAfterPage
<1>8. QED
  BY <1>2, <1>7

LEMMA NextPageStep ==
  ASSUME IInv, NextPage
  PROVE  IInv' /\ SameLoop
<1>1. PageApplied /\ store' = ApplyPage(store, job.offset, job.total)
      /\ InBounds(job.offset + PageSize)
      /\ job' = [job EXCEPT !.offset = @ + PageSize, !.total = NoTotal]
  BY DEF NextPage
<1>2. HistoryGrew(db') /\ Good(store', db')
  BY <1>1, PageStep
<1>2a. job # NoJob
  BY <1>1 DEF PageApplied, PageArrived
<1>3. JobOK'
  BY <1>1, <1>2a DEF IInv, JobOK, InBounds
<1>4. UNCHANGED <<phase, state, attempt, first, cancelled, engineVars, pending, answered>>
  BY <1>1 DEF PageApplied
<1>5. pending' \in Hints
  BY <1>4 DEF IInv, HintsOK
<1>6. QED
  BY <1>2, <1>3, <1>4, <1>5, AnswerStep

LEMMA LastPageStep ==
  ASSUME IInv, LastPage
  PROVE  IInv' /\ SameLoop
<1> DEFINE s == ApplyPage(store, job.offset, job.total)
<1>1. PageApplied /\ job' = NoJob
  BY DEF LastPage
<1>2. HistoryGrew(db') /\ Good(s, db') /\ db' \in SUBSET Gid
  BY <1>1, PageStep DEF HistoryGrew
<1>3. /\ job.kind \in {"full", "poll", "more"}
      /\ job.active \in SUBSET Gid /\ job.waiting \in SUBSET Gid
      /\ job.active \cap job.waiting = {}
  <2>1. PageArrived
    BY <1>1 DEF PageApplied
  <2>2. QED
    BY <2>1, PageFacts DEF PageArrived, IInv, JobOK
<1>4. store' = CASE job.kind = "full" -> Seed(ApplyLive(s, job.active, job.waiting), db')
                 [] job.kind = "more" -> Seed(s, db')
                 [] job.kind = "poll" -> s
  BY DEF LastPage
<1> HIDE DEF s
<1>5. Good(store', db')
  <2>1. CASE job.kind = "full"
    <3>1. Good(ApplyLive(s, job.active, job.waiting), db')
      BY <1>2, <1>3, GoodAfterLive
    <3>2. store' = Seed(ApplyLive(s, job.active, job.waiting), db')
      BY <1>4, <2>1
    <3>3. QED
      BY <1>2, <3>1, <3>2, GoodAfterSeed
  <2>2. CASE job.kind = "more"
    <3>1. store' = Seed(s, db')
      BY <1>4, <2>2
    <3>2. QED
      BY <1>2, <3>1, GoodAfterSeed
  <2>3. CASE job.kind = "poll"
    BY <1>2, <1>4, <2>3
  <2>4. QED
    BY <1>3, <2>1, <2>2, <2>3
<1>6. UNCHANGED <<phase, state, attempt, first, cancelled, engineVars, pending, answered>>
  BY <1>1 DEF PageApplied
<1>7. JobOK' /\ pending' \in Hints
  BY <1>1, <1>6, NoJobOK DEF IInv, HintsOK
<1>8. QED
  BY <1>2, <1>5, <1>6, <1>7, AnswerStep

-----------------------------------------------------------------------------
(* Removals, and the engine on its own *)

\* The engine moves, and nobody has been told yet.
LEMMA EngineMoveOK ==
  ASSUME IInv, EngineKept, hints' \in Hints, pending' \in Hints,
         UNCHANGED <<connectionVars, job, db, answered>>
  PROVE  IInv' /\ SameLoop
<1>1. ResultsOK' /\ HintsOK'
  BY DEF EngineKept, HintsOK
<1>2. JobOK' /\ LoopOK' /\ StoreOK' /\ HistoryOK' /\ AutomaticRetriesAreLimited'
  BY UntouchedParts
<1>3. RemovedOK'
  BY DEF IInv, RemovedOK, EngineKept
<1>4. UNCHANGED <<phase, state, attempt, first, cancelled, store>>
  BY DEF connectionVars
<1>5. TerminalTasksAreRecorded'
  BY <1>4, UntouchedParts
<1>6. SameLoop
  BY <1>4, StoreHasFields DEF IInv, StoreOK, SameSession, SameLoop
<1>7. QED
  BY <1>1, <1>2, <1>3, <1>5, <1>6 DEF IInv

LEMMA EngineSteps ==
  ASSUME IInv, EngineStep \/ EngineRestart
  PROVE  IInv' /\ SameLoop
<1>1. EngineNext \/ Restart
  BY DEF EngineStep, EngineRestart
<1>2. EngineKept /\ hints' \in Hints
  BY <1>1, EngineMovesKeepResults DEF IInv
<1>3. UNCHANGED <<connectionVars, pending, job, db, answered>>
  BY DEF EngineStep, EngineRestart, serviceVars
<1>4. pending' \in Hints
  BY <1>3 DEF IInv, HintsOK
<1>5. QED
  BY <1>2, <1>3, <1>4, EngineMoveOK

LEMMA FullRefreshAsked == ASSUME IInv, AskForFullRefresh PROVE pending' \in Hints
  BY DEF IInv, HintsOK, AskForFullRefresh, Hints

LEMMA RemoveUnknownStep ==
  ASSUME IInv, NEW x \in Gid, RemoveUnknown(x)
  PROVE  IInv' /\ SameLoop
<1>1. pending' \in Hints /\ UNCHANGED <<connectionVars, job, db, answered>>
  BY FullRefreshAsked DEF RemoveUnknown
<1>2. EngineKept /\ hints' \in Hints
  <2>1. CASE RemoveFromEngine(x)
    BY <2>1, RemovalKeepsResults DEF IInv
  <2>2. CASE UNCHANGED engineVars
    BY <2>2, UntouchedParts DEF engineVars, EngineKept, IInv, HintsOK
  <2>3. QED
    BY <2>1, <2>2 DEF RemoveUnknown
<1>3. QED
  BY <1>1, <1>2, EngineMoveOK

LEMMA RemoveRefusedStep ==
  ASSUME IInv, NEW x \in Gid, RemoveRefused(x)
  PROVE  IInv' /\ SameLoop
<1>1. /\ UNCHANGED <<connectionVars, engineVars, pending, job, db>>
      /\ answered' = [answered EXCEPT ![x] = IF @ = "removed" THEN @ ELSE "refused"]
  BY DEF RemoveRefused, Answer
<1>2. UNCHANGED <<eng, results, hints>>
  BY <1>1 DEF engineVars
<1>3. ResultsOK' /\ JobOK' /\ LoopOK' /\ StoreOK' /\ AutomaticRetriesAreLimited'
  BY <1>1, <1>2, UntouchedParts
<1>4. HistoryOK'
  BY <1>1 DEF IInv, HistoryOK
<1>5. \A y \in Gid : answered'[y] = "removed" <=> answered[y] = "removed"
  BY <1>1 DEF IInv, HistoryOK
<1>6. RemovedOK'
  BY <1>1, <1>2, <1>5 DEF IInv, RemovedOK
<1>7. UNCHANGED <<phase, state, attempt, first, cancelled, store>>
  BY <1>1 DEF connectionVars
<1>8. TerminalTasksAreRecorded'
  BY <1>1, <1>5, <1>7 DEF IInv, TerminalTasksAreRecorded, Known
<1>9. HintsOK'
  BY <1>1, <1>2 DEF IInv, HintsOK
<1>10. SameLoop
  BY <1>7, StoreHasFields DEF IInv, StoreOK, SameSession, SameLoop
<1>11. QED
  BY <1>3, <1>4, <1>6, <1>8, <1>9, <1>10 DEF IInv

\* A confirmed removal takes the row away, and the engine no longer holds the
\* task in a status that any later answer would have recorded again.
LEMMA RemoveSucceedsStep ==
  ASSUME IInv, NEW x \in Gid, RemoveSucceeds(x)
  PROVE  IInv' /\ SameLoop
<1>1. EngineKept /\ hints' \in Hints /\ eng'[x] \in {"Removed", "gone"}
  BY RemovalKeepsResults DEF RemoveSucceeds, IInv
<1>2. /\ db' = db \ {x}
      /\ store' = RemoveHistoryOnly(store, {x})
      /\ answered' = [answered EXCEPT ![x] = "removed"]
      /\ UNCHANGED <<phase, state, attempt, first, cancelled, job>>
  BY DEF RemoveSucceeds, Answer
<1>3. pending' \in Hints
  BY FullRefreshAsked DEF RemoveSucceeds
<1>4. ResultsOK' /\ HintsOK'
  BY <1>1, <1>3 DEF EngineKept, HintsOK
<1>5. JobOK' /\ LoopOK' /\ AutomaticRetriesAreLimited'
  BY <1>2, UntouchedParts
<1>6. HistoryOK'
  BY <1>2 DEF IInv, HistoryOK
<1>7. RemovedOK'
  BY <1>1, <1>2 DEF IInv, RemovedOK, HistoryOK, EngineKept
<1>8. AnswerOK(store, {}, <<>>, store')
  BY <1>2, RemoveHistoryOnlyOK DEF IInv, StoreOK
<1>9. RecordedIn(store, db', answered')
  BY <1>2, RecordedForm DEF IInv, HistoryOK, RecordedIn
<1>10. RecordedIn(store', db', answered')
  BY <1>8, <1>9, AnswerRecorded
<1>11. StoreOK' /\ TerminalTasksAreRecorded' /\ SameLoop
  BY <1>2, <1>8, <1>10 DEF AnswerOK, StoreOK, RecordedIn, TerminalTasksAreRecorded, Known, SameLoop
<1>12. QED
  BY <1>4, <1>5, <1>6, <1>7, <1>11 DEF IInv

-----------------------------------------------------------------------------
(* The steps of the loop *)

\* The session ends, with or without a page that was persisted first.
LEMMA LostSteps ==
  ASSUME IInv, PageRejected \/ \E retryable \in BOOLEAN : RequestFails(retryable)
  PROVE  IInv'
<1>1. CASE PageRejected
  <2>1. HistoryGrew(db')
    BY <1>1, PageFacts DEF PageRejected
  <2>2. LoseSession(FALSE)
    BY <1>1 DEF PageRejected
  <2>3. QED
    BY <2>1, <2>2, LoseSessionOK DEF HistoryGrew
<1>2. ASSUME NEW retryable \in BOOLEAN, RequestFails(retryable)
      PROVE  IInv'
  <2>1. LoseSession(retryable) /\ UNCHANGED db
    BY <1>2 DEF RequestFails
  <2>2. HistoryGrew(db)
    BY PersistGrows
  <2>3. QED
    BY <2>1, <2>2, LoseSessionOK DEF HistoryGrew
<1>3. QED
  BY <1>1, <1>2

\* Steps of the loop that leave the engine and the session alone.
LEMMA LoopPartsOK ==
  ASSUME IInv, UNCHANGED <<eng, results, pending, job, db, answered>>, hints' \in Hints,
         LoopOK', StoreOK', AutomaticRetriesAreLimited', store'.tasks = store.tasks
  PROVE  IInv'
<1>1. ResultsOK' /\ JobOK' /\ HistoryOK' /\ RemovedOK'
  BY UntouchedParts
<1>2. HintsOK'
  BY DEF IInv, HintsOK
<1>3. TerminalTasksAreRecorded'
  BY DEF IInv, TerminalTasksAreRecorded, Known
<1>4. QED
  BY <1>1, <1>2, <1>3 DEF IInv

LEMMA SameService ==
  ASSUME IInv, UNCHANGED <<engineVars, serviceVars>>
  PROVE  UNCHANGED <<eng, results, pending, job, db, answered>> /\ hints' \in Hints
  BY DEF engineVars, serviceVars, IInv, HintsOK

LEMMA BeginAttemptStep ==
  ASSUME IInv, LoopStep(BeginAttempt)
  PROVE  IInv'
<1>1. UNCHANGED <<eng, results, pending, job, db, answered>> /\ hints' \in Hints
  BY SameService DEF LoopStep
<1>2. LoopOK' /\ AutomaticRetriesAreLimited'
  BY DEF LoopStep, BeginAttempt, Awaiting, IInv, LoopOK, Phase, ConnectionState,
         AutomaticRetriesAreLimited
<1>3. store' = IF first THEN store ELSE BeginSession(store, store.gen + 1)
  BY DEF LoopStep, BeginAttempt
<1>4. StoreOK' /\ store'.tasks = store.tasks
  <2>1. store.gen + 1 \in Nat /\ FALSE \in BOOLEAN
    BY DEF IInv, StoreOK, Store
  <2>2. BeginSession(store, store.gen + 1) \in Store /\ Consistent(BeginSession(store, store.gen + 1))
    BY <2>1, SessionCallsConsistent DEF IInv, StoreOK
  <2>3. BeginSession(store, store.gen + 1).tasks = store.tasks
    BY DEF BeginSession, IInv, StoreOK, Store
  <2>4. QED
    BY <1>3, <2>2, <2>3 DEF IInv, StoreOK
<1>5. QED
  BY <1>1, <1>2, <1>4, LoopPartsOK

LEMMA AttemptFailsStep ==
  ASSUME IInv, LoopStep(AttemptFails)
  PROVE  IInv'
<1>1. UNCHANGED <<eng, results, pending, job, db, answered>> /\ hints' \in Hints
  BY SameService DEF LoopStep
<1>2. PICK retryable \in BOOLEAN : FailAfter(attempt, retryable)
  BY DEF LoopStep, AttemptFails
<1>3. ~first /\ attempt \in Nat
  BY DEF LoopStep, AttemptFails, Awaiting, IInv, LoopOK
<1>4. LoopOK' /\ StoreOK' /\ AutomaticRetriesAreLimited' /\ store'.tasks = store.tasks
  BY <1>2, <1>3, FailureOK DEF IInv
<1>5. QED
  BY <1>1, <1>4, LoopPartsOK

\* The other steps of the loop do not touch the store.
LEMMA WaitingSteps ==
  ASSUME IInv, \/ LoopStep(RetryDelayEnds) \/ LoopStep(ManualRetry)
               \/ LoopStep(Cancel) \/ LoopStep(Stop) \/ Connect
  PROVE  IInv'
<1>1. UNCHANGED <<eng, results, pending, job, db, answered>> /\ hints' \in Hints
  <2>1. CASE Connect
    BY <2>1 DEF Connect, serviceVars, NoHints, Hints
  <2>2. CASE ~Connect
    BY <2>2, SameService DEF LoopStep
  <2>3. QED
    BY <2>1, <2>2
<1>2. UNCHANGED store
  BY DEF LoopStep, RetryDelayEnds, ManualRetry, Cancel, Stop, Connect, ConnectSucceeds
<1>3. LoopOK' /\ AutomaticRetriesAreLimited'
  <2> USE DEF IInv, LoopOK, AutomaticRetriesAreLimited, LoopStep, Awaiting, Phase, ConnectionState
  <2>1. CASE LoopStep(RetryDelayEnds)
    BY <2>1 DEF RetryDelayEnds
  <2>2. CASE LoopStep(ManualRetry)
    BY <2>2 DEF ManualRetry
  <2>3. CASE LoopStep(Cancel)
    BY <2>3 DEF Cancel
  <2>4. CASE LoopStep(Stop)
    BY <2>4 DEF Stop
  <2>5. CASE Connect
    BY <2>5 DEF Connect, ConnectSucceeds
  <2>6. QED
    BY <2>1, <2>2, <2>3, <2>4, <2>5
<1>4. QED
  BY <1>1, <1>2, <1>3, LoopPartsOK DEF IInv, StoreOK

\* Seeding leaves no row of the history unlisted: what the engine does not
\* list, history does.
LEMMA SeedListsHistory ==
  ASSUME NEW s \in Store, NEW H \in SUBSET Gid
  PROVE  H \subseteq Listed(Seed(s, H))
<1> DEFINE rec  == [x \in Gid |-> "Complete"]
           only == H \ EngineOwned(s)
           hint == (H \cap EngineOwned(s)) \ Known(s)
           tasks == [x \in Gid |-> IF x \in only \cup hint THEN rec[x] ELSE s.tasks[x]]
           from == s.fromHistory \cup only \cup hint
           told == only # {} \/ hint # {} \/ s.history # only
           r == [s EXCEPT !.tasks = tasks, !.fromHistory = from, !.historyOnly = only,
                          !.history = only, !.patched = told]
<1>1. Seed(s, H) = r
  BY DEF Seed, SeedLocalHistory
<1>2. H \subseteq EngineOwned(s) \cup only
  OBVIOUS
<1> HIDE DEF only, tasks, from, told
<1>3. /\ r.active = s.active /\ r.waiting = s.waiting /\ r.stopped = s.stopped
      /\ r.history = only
  BY DEF Store
<1> HIDE DEF r
<1>4. Listed(r) = EngineOwned(s) \cup only
  BY <1>3 DEF Listed, EngineOwned, Live
<1>5. QED
  BY <1>1, <1>2, <1>4

LEMMA SetStaleKeepsLists ==
  ASSUME NEW s \in Store, NEW b \in BOOLEAN
  PROVE  Listed(SetStale(s, b)) = Listed(s)
  BY DEF SetStale, Store, Listed, EngineOwned, Live

\* The first page is persisted, shown under the live lists, and history is
\* seeded around both.
LEMMA SnapshotStep ==
  ASSUME IInv, ApplyInitialSnapshot
  PROVE  /\ IInv' /\ store'.gen = store.gen /\ store'.stale = FALSE
         /\ db' \subseteq Listed(store')
<1> DEFINE page  == ResultsFrom(0, PageSize)
           paged == ApplyPage(store, 0, Len(results))
           live  == ApplyLive(paged, EngineActive, EngineWaiting)
           seed  == Seed(live, Persist(page))
<1>1. db' = Persist(page) /\ SnapshotApplied(seed)
      /\ UNCHANGED <<engineVars, pending, job, answered>>
  BY DEF ApplyInitialSnapshot
<1>2. 0 \in Offset /\ 0 \in Nat /\ Len(results) \in Nat /\ ResultsOK
  BY OffsetsAreNaturals DEF IInv, ResultsOK
<1>3. HistoryGrew(db') /\ db' \in SUBSET Gid
  <2>1. page \in SUBSET Gid
    BY <1>2, PageOfResults, PageSizeIsPositive
  <2>2. QED
    BY <1>1, <2>1, PersistGrows DEF HistoryGrew
<1>4. Good(paged, db')
  <2>1. Good(store, db')
    BY <1>3, GoodAtFirst
  <2>2. Persist(page) \subseteq db' /\ 0 <= Len(results)
    BY <1>1, <1>2
  <2>3. QED
    BY <1>2, <2>1, <2>2, GoodAfterPage
<1> HIDE DEF paged
<1>5. Good(live, db')
  BY <1>4, GoodAfterLive, LiveListsAreApart
<1> HIDE DEF live
<1>6. Good(seed, db')
  BY <1>1, <1>3, <1>5, GoodAfterSeed
<1>6a. db' \subseteq Listed(seed)
  BY <1>1, <1>3, <1>5, SeedListsHistory DEF Good
<1> HIDE DEF seed
<1>7. /\ store' = SetStale(seed, FALSE) /\ phase' = "Connected" /\ state' = "Connected"
      /\ UNCHANGED <<attempt, first, cancelled>> /\ ~first
  BY <1>1 DEF SnapshotApplied, Awaiting, IInv, LoopOK
<1>8. StoreOK'
  <2>1. 0 \in Nat /\ FALSE \in BOOLEAN
    OBVIOUS
  <2>2. QED
    BY <1>6, <1>7, <2>1, SessionCallsConsistent DEF Good, StoreOK
<1>9. store'.tasks = seed.tasks /\ store'.gen = seed.gen /\ store'.stale = FALSE
  BY <1>6, <1>7 DEF Good, Store, SetStale
<1>10. TerminalTasksAreRecorded'
  BY <1>1, <1>6, <1>9 DEF Good, RecordedIn, TerminalTasksAreRecorded, Known
<1>11. LoopOK' /\ AutomaticRetriesAreLimited'
  BY <1>7 DEF IInv, LoopOK, AutomaticRetriesAreLimited, Phase, ConnectionState
<1>12. UNCHANGED <<eng, results, hints>>
  BY <1>1 DEF engineVars
<1>13. ResultsOK' /\ JobOK' /\ HintsOK'
  BY <1>1, <1>12, UntouchedParts DEF IInv, HintsOK
<1>14. HistoryOK' /\ RemovedOK'
  BY <1>1, <1>3, <1>12 DEF IInv, HistoryOK, RemovedOK, HistoryGrew
<1>15. store'.gen = store.gen
  BY <1>6, <1>9 DEF Good, SameSession
<1>16. db' \subseteq Listed(store')
  BY <1>6, <1>6a, <1>7, SetStaleKeepsLists DEF Good
<1>17. QED
  BY <1>8, <1>9, <1>10, <1>11, <1>13, <1>14, <1>15, <1>16 DEF IInv

-----------------------------------------------------------------------------
(* The inductive invariant *)

\* History rows are all the tasks a new coordinator knows.
LEMMA InitOK ==
  ASSUME Init
  PROVE  /\ IInv
         /\ store.gen = 0 /\ store.stale = FALSE
<1>1. PICK H \in SUBSET Gid : InitConnection(H) /\ InitEngine(H) /\ db = H
  BY DEF Init
<1> DEFINE rec == [x \in Gid |-> "Complete"]
<1>2. store = Seed(NewStore(0), H)
  BY <1>1 DEF InitConnection, Seed
<1>3. /\ NewStore(0) \in Store /\ Consistent(NewStore(0))
      /\ NewStore(0).gen = 0 /\ NewStore(0).stale = FALSE
  BY NewStoreConsistent DEF NewStore
<1>4. AnswerOK(NewStore(0), H, rec, store)
  BY <1>2, <1>3, SeedOK
<1>5. StoreOK /\ store.gen = 0 /\ store.stale = FALSE
  BY <1>3, <1>4 DEF AnswerOK, StoreOK, SameSession
<1>6. TerminalTasksAreRecorded
  <2>1. RecordedIn(NewStore(0), db, answered)
    BY DEF NewStore, RecordedIn, Recorded
  <2>2. RecordedIn(store, db, answered)
    BY <1>1, <1>4, <2>1, AnswerRecorded
  <2>3. QED
    BY <2>2 DEF RecordedIn, TerminalTasksAreRecorded, Known
<1>7. ResultsOK
  BY <1>1 DEF InitEngine, ResultsOK, EngineStatus
<1>8. JobOK
  BY OffsetsAreNaturals DEF Init, JobOK, NoJob
<1>9. HintsOK
  BY <1>1 DEF Init, InitEngine, HintsOK, Hints, NoHints
<1>10. LoopOK /\ AutomaticRetriesAreLimited
  BY <1>1 DEF InitConnection, LoopOK, Phase, ConnectionState, AutomaticRetriesAreLimited
<1>11. HistoryOK /\ RemovedOK
  BY <1>1 DEF Init, HistoryOK, RemovedOK
<1>12. QED
  BY <1>5, <1>6, <1>7, <1>8, <1>9, <1>10, <1>11 DEF IInv

\* What a session does while it lasts.
Work ==
  \/ ReceiveHints \/ NotificationTick \/ LiveTick \/ StoppedTick
  \/ ReadTotal \/ NextPage \/ LastPage
  \/ ForceRefresh \/ LoadMoreStopped \/ Command \/ EngineStep \/ EngineRestart

LEMMA WorkOK ==
  ASSUME IInv, Work
  PROVE  IInv' /\ SameLoop
<1>1. ASSUME NEW x \in Gid, RemoveSucceeds(x) \/ RemoveRefused(x) \/ RemoveUnknown(x)
      PROVE  IInv' /\ SameLoop
  BY <1>1, RemoveSucceedsStep, RemoveRefusedStep, RemoveUnknownStep
<1>2. QED
  BY <1>1, RequestsOK, TargetedStep, LiveTickStep, NextPageStep, LastPageStep, EngineSteps
     DEF Work, NotificationTick, Command

\* Every step is work of a session or one of the loop's.
LEMMA NextCases ==
  Next <=> \/ Work
           \/ LoopStep(BeginAttempt) \/ Connect \/ LoopStep(AttemptFails)
           \/ ApplyInitialSnapshot
           \/ LoopStep(RetryDelayEnds) \/ LoopStep(ManualRetry)
           \/ LoopStep(Cancel) \/ LoopStep(Stop)
           \/ PageRejected \/ \E retryable \in BOOLEAN : RequestFails(retryable)
  BY DEF Next, Work, Refresh, ReadPage

LEMMA NextOK ==
  ASSUME IInv, [Next]_vars
  PROVE  IInv'
<1>1. CASE Next
  BY <1>1, NextCases, WorkOK, BeginAttemptStep, AttemptFailsStep, SnapshotStep,
     WaitingSteps, LostSteps
<1>2. CASE UNCHANGED vars
  <2>1. UNCHANGED <<connectionVars, eng, results, hints, pending, job, db, answered>>
    BY <1>2 DEF vars, engineVars, serviceVars
  <2>2. pending' \in Hints /\ hints' \in Hints
    BY <2>1 DEF IInv, HintsOK
  <2>3. JobOK'
    BY <2>1, UntouchedParts
  <2>4. QED
    BY <2>1, <2>2, <2>3, QuietStep
<1>3. QED
  BY <1>1, <1>2

LEMMA CoordinatorInvariant == Spec => []IInv
<1>1. Init => IInv
  BY InitOK
<1>2. IInv /\ [Next]_vars => IInv'
  BY NextOK
<1>3. QED
  BY <1>1, <1>2, PTL DEF Spec

-----------------------------------------------------------------------------
(* Theorems *)

\* Whatever answers, hints, commands and failures the coordinator has met, the
\* loop, the engine, the store, the refresh in progress and the history range
\* over their types: the offset walk of next_stopped_offset (store.rs) and the
\* job it starts stay numbers.
THEOREM CoordinatorTypeCorrect == Spec => []TypeOK
<1>1. IInv => TypeOK
  <2> SUFFICES ASSUME IInv
               PROVE  TypeOK
    OBVIOUS
  <2>1. ConnectionTypeOK
    BY DEF IInv, LoopOK, StoreOK, ConnectionTypeOK
  <2>2. EngineTypeOK /\ pending \in Hints
    BY DEF IInv, ResultsOK, HintsOK, EngineTypeOK
  <2>3. job \in Jobs
    BY OffsetsAreNaturals DEF IInv, JobOK, Jobs
  <2>4. QED
    BY <2>1, <2>2, <2>3 DEF IInv, HistoryOK, TypeOK
<1>2. QED
  BY <1>1, CoordinatorInvariant, PTL

\* What run_connected keeps between its awaits is a consistent store: one
\* owner per task, an entry for every listed gid, no stale derived order, and
\* engine data in every list the engine owns (application/src/sync.rs drives
\* application/src/store.rs with answers that are older than the engine).
THEOREM CoordinatorStoreConsistent == Spec => [](store \in Store /\ Consistent(store))
<1>1. IInv => store \in Store /\ Consistent(store)
  BY DEF IInv, StoreOK
<1>2. QED
  BY <1>1, CoordinatorInvariant, PTL

\* No completed or failed task is shown that the history has no row for
\* (persist_terminal_snapshots runs before every apply).
THEOREM CoordinatorRecordsTerminalTasks == Spec => []TerminalTasksAreRecorded
<1>1. IInv => TerminalTasksAreRecorded
  BY DEF IInv
<1>2. QED
  BY <1>1, CoordinatorInvariant, PTL

\* No later answer of the engine brings a removed task's row back.
THEOREM CoordinatorRemovalIsFinal == Spec => []RemovalIsFinal
<1>1. IInv => RemovalIsFinal
  BY DEF IInv, RemovedOK, RemovalIsFinal
<1>2. QED
  BY <1>1, CoordinatorInvariant, PTL

\* The backoff delay is entered only while attempts are left.
THEOREM CoordinatorLimitsRetries == Spec => []AutomaticRetriesAreLimited
<1>1. IInv => AutomaticRetriesAreLimited
  BY DEF IInv
<1>2. QED
  BY <1>1, CoordinatorInvariant, PTL

\* Only the initial snapshot takes the loop online.
LEMMA OnlySnapshotConnects ==
  ASSUME IInv, [Next]_vars, phase # "Connected", phase' = "Connected"
  PROVE  ApplyInitialSnapshot
<1>1. ~Work
  BY WorkOK DEF SameLoop
<1>2. ~LoopStep(BeginAttempt) /\ ~Connect /\ ~LoopStep(AttemptFails)
  BY DEF LoopStep, BeginAttempt, Connect, ConnectSucceeds, AttemptFails, FailAfter
<1>3. /\ ~LoopStep(RetryDelayEnds) /\ ~LoopStep(ManualRetry)
      /\ ~LoopStep(Cancel) /\ ~LoopStep(Stop)
  BY DEF LoopStep, RetryDelayEnds, ManualRetry, Cancel, Stop
<1>4. ~PageRejected /\ \A retryable \in BOOLEAN : ~RequestFails(retryable)
  BY DEF PageRejected, RequestFails, LoseSession, SessionLost, Awaiting
<1>5. ~UNCHANGED vars
  BY DEF vars, connectionVars
<1>6. QED
  BY <1>1, <1>2, <1>3, <1>4, <1>5, NextCases

\* Going online lists every row of the history, whatever the engine of the new
\* session holds: apply_initial_snapshot seeds the history after the page and
\* the live lists, with the rows the page just added.
THEOREM CoordinatorKeepsHistoryVisible == Spec => HistorySurvivesReconnect
<1>1. IInv /\ [Next]_vars
        => [phase # "Connected" /\ phase' = "Connected" => db' \subseteq Listed(store')]_vars
  BY OnlySnapshotConnects, SnapshotStep
<1>2. QED
  BY <1>1, CoordinatorInvariant, PTL DEF Spec, HistorySurvivesReconnect

-----------------------------------------------------------------------------
(* Refinement of the session lifecycle *)

LEMMA InitRefines == Init => Lifecycle!Init
<1>1. SUFFICES ASSUME Init PROVE Lifecycle!Init
  OBVIOUS
<1>2. phase = "LoopHead" /\ state = "Disconnected" /\ first = TRUE
  BY <1>1 DEF Init, InitConnection
<1>3. QED
  BY <1>1, <1>2, InitOK DEF Lifecycle!Init

\* Work never touches what the lifecycle is about.
LEMMA WorkStutters == ASSUME SameLoop PROVE UNCHANGED Lifecycle!vars
  BY DEF SameLoop, SameSession, Lifecycle!vars

\* A failure closes the generation.
LEMMA FailureRefines ==
  ASSUME IInv, phase \in {"Connecting", "Snapshot", "Connected"},
         NEW n, NEW retryable, FailAfter(n, retryable)
  PROVE  Lifecycle!Fail
<1>1. store'.stale = TRUE /\ store'.gen = store.gen
  BY DEF FailAfter, MarkStale, SetStale, IInv, StoreOK, Store
<1>2. state' # "Connected" /\ phase' \in {"RetryDelay", "ManualRetry"}
  BY DEF FailAfter
<1>3. phase # "Stopped" /\ (state = "Connected" \/ phase \in {"Connecting", "Snapshot"})
  BY DEF IInv, LoopOK
<1>4. QED
  BY <1>1, <1>2, <1>3 DEF Lifecycle!Fail

LEMMA StepRefines ==
  ASSUME IInv, [Next]_vars
  PROVE  [Lifecycle!Next]_(Lifecycle!vars)
<1>1. CASE Work
  BY <1>1, WorkOK, WorkStutters
<1>2. CASE LoopStep(BeginAttempt)
  <2>1. /\ phase = "LoopHead" /\ phase' = "Connecting" /\ first' = FALSE
        /\ state # "Connected" /\ state' # "Connected"
        /\ store' = IF first THEN store ELSE BeginSession(store, store.gen + 1)
    BY <1>2 DEF LoopStep, BeginAttempt, Awaiting, IInv, LoopOK
  <2>2. CASE first
    BY <2>1, <2>2 DEF Lifecycle!vars
  <2>3. CASE ~first
    <3>1. store'.gen = store.gen + 1 /\ store'.stale = TRUE
      BY <2>1, <2>3 DEF BeginSession, IInv, StoreOK, Store
    <3>2. QED
      BY <2>1, <2>3, <3>1 DEF Lifecycle!Next, Lifecycle!Attempt
  <2>4. QED
    BY <2>2, <2>3
<1>3. CASE Connect
  BY <1>3 DEF Connect, ConnectSucceeds, Awaiting, IInv, LoopOK, Lifecycle!vars
<1>4. CASE LoopStep(AttemptFails)
  BY <1>4, FailureRefines DEF LoopStep, AttemptFails, Awaiting, Lifecycle!Next
<1>5. CASE ApplyInitialSnapshot
  <2>1. store'.gen = store.gen /\ store'.stale = FALSE
    BY <1>5, SnapshotStep
  <2>2. phase = "Snapshot" /\ phase' = "Connected" /\ state' = "Connected"
    BY <1>5 DEF ApplyInitialSnapshot, SnapshotApplied, Awaiting
  <2>3. state # "Connected" /\ ~first
    BY <2>2 DEF IInv, LoopOK
  <2>4. QED
    BY <2>1, <2>2, <2>3 DEF Lifecycle!Next, Lifecycle!GoOnline
<1>6. CASE LoopStep(RetryDelayEnds) \/ LoopStep(ManualRetry)
  <2>1. UNCHANGED <<state, first, store>> /\ phase \in {"RetryDelay", "ManualRetry"} /\ phase' = "LoopHead"
    BY <1>6 DEF LoopStep, RetryDelayEnds, ManualRetry, Awaiting
  <2>2. ~first
    BY <2>1 DEF IInv, LoopOK
  <2>3. QED
    BY <2>1, <2>2 DEF Lifecycle!vars
<1>7. CASE LoopStep(Cancel)
  BY <1>7 DEF LoopStep, Cancel, Lifecycle!vars
<1>8. CASE LoopStep(Stop)
  <2>1. UNCHANGED store /\ phase # "Stopped" /\ phase' = "Stopped" /\ state' # "Connected"
    BY <1>8 DEF LoopStep, Stop, IInv, LoopOK
  <2>2. QED
    BY <2>1 DEF Lifecycle!Next, Lifecycle!Stop
<1>9. CASE PageRejected \/ \E retryable \in BOOLEAN : RequestFails(retryable)
  <2>1. PICK retryable \in BOOLEAN : LoseSession(retryable)
    BY <1>9 DEF PageRejected, RequestFails
  <2>2. phase = "Connected" /\ \E n : FailAfter(n, retryable)
    BY <2>1 DEF LoseSession, SessionLost, Awaiting
  <2>3. QED
    BY <2>2, FailureRefines DEF Lifecycle!Next
<1>10. CASE UNCHANGED vars
  BY <1>10 DEF vars, connectionVars, Lifecycle!vars
<1>11. QED
  BY <1>1, <1>2, <1>3, <1>4, <1>5, <1>6, <1>7, <1>8, <1>9, <1>10, NextCases

\* The coordinator implements the lifecycle of sessions: each attempt has a
\* generation of its own, which goes online once at most, and the store counts
\* as fresh only from then until a failure.
THEOREM CoordinatorRefinesLifecycle == Spec => RefinesLifecycle
<1>1. Init => Lifecycle!Init
  BY InitRefines
<1>2. IInv /\ [Next]_vars => [Lifecycle!Next]_(Lifecycle!vars)
  BY StepRefines
<1>3. QED
  BY <1>1, <1>2, CoordinatorInvariant, PTL DEF Spec, RefinesLifecycle, Lifecycle!Spec
=============================================================================
