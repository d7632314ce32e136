--------------------------- MODULE OperationsProofs ---------------------------
(***************************************************************************)
(* A command tells the truth about every task, and takes no file from a     *)
(* download aria2 works on, for any downloads, sources, commands, results   *)
(* and any loss of connections.  The last part puts the typing of the three *)
(* components of MCOperations together.                                     *)
(***************************************************************************)
EXTENDS MCOperations, TransportProofs, FiniteSetTheorems, SequenceTheorems

-----------------------------------------------------------------------------
\* A download aria2 is done with, and one it has carried a removal out for.
OutOfWork == TerminalSt \cup {"absent"}
Gone      == {"Removed", "absent"}

BeforeSending == cmd.phase \in {"idle", "preflight", "trashFirst", "execute"}
Sending       == cmd.phase \in {"next", "awaiting", "refreshing", "reconcile"}
Quiet         == wire = <<>> /\ late = {}

RequestsOf(op) ==
  CASE op = "Pause"      -> {"pause"}
    [] op = "Resume"     -> {"unpause"}
    [] op = "Change"     -> {"change"}
    [] op \in Removals   -> {"remove", "removeResult"}
    [] op = "Retry"      -> {"query", "add"}
    [] OTHER             -> {}

\* aria2's results are the downloads that have stopped, each once.
ResultsAreStopped ==
  /\ \A x \in Task : eng[x] \in TerminalSt <=> \E i \in DOMAIN results : results[i] = x
  /\ \A i, j \in DOMAIN results : results[i] = results[j] => i = j

\* What was seen of a task remains true of it, as far as it is final.
StillTrue(v, e) == \A x \in Task : /\ v[x] # "absent" => e[x] # "new"
                                   /\ v[x] \in TerminalSt => e[x] \in OutOfWork
PastIsTrue ==
  StillTrue(view, eng) /\ StillTrue(cmd.original, eng) /\ StillTrue(cmd.context, eng)

\* What the phases say of the fields of the command.
CommandIsWhole ==
  /\ cmd.phase = "idle" => cmd = NoCommand
  /\ cmd.phase # "idle" => cmd.op \in Operations
  /\ cmd.op = "RemoveWithFiles" => \E x \in Task : cmd.targets = {x}
  /\ cmd.phase \in {"preflight", "trashFirst", "trashAfter"} => cmd.op = "RemoveWithFiles"
  /\ cmd.phase = "trashFirst" => \A x \in cmd.targets : Original(x) \in TerminalSt
  /\ cmd.phase \in {"refreshing", "reconcile"} => cmd.baseline
  /\ cmd.baseline => cmd.op \in Removals \cup {"Retry"}
  /\ cmd.phase = "awaiting" => cmd.item \in cmd.todo /\ cmd.rpc \in RequestsOf(cmd.op)
  /\ \A x \in Task : cmd.outcome[x] # "none" => x \in cmd.targets
  /\ Sending => \A x \in cmd.todo : cmd.outcome[x] = "none"
  /\ \A x \in Task : cmd.outcome[x] = "filesystem" => cmd.op = "RemoveWithFiles"
  /\ BeforeSending => \A x \in Task : cmd.outcome[x] = "none"

\* Requests of the command are on one connection, the current one or the one
\* that has gone; those of a connection are answered in order, so that an
\* answer, and what a refresh finds, is the last thing to come of them.
LinkInv ==
  /\ wire # <<>> => online
  /\ late # {} => ~online
  /\ ~BeforeSending /\ cmd.phase # "reported" /\ online => same
  /\ BeforeSending => Quiet /\ done = {}
  /\ cmd.phase = "reconcile" => Quiet
  /\ (\E x \in Task : cmd.outcome[x] = "notObserved") => Quiet /\ ~Sending /\ ~BeforeSending
  /\ cmd.phase # "awaiting" => answer = NoAnswer
  /\ answer # NoAnswer => Quiet /\ online
  /\ cmd.phase = "awaiting" /\ wire # <<>>
       => wire[Len(wire)] = [kind |-> cmd.rpc, task |-> cmd.item]

\* A change aria2 may still make is reported as unknown, or is the one that is
\* awaited; it has not been made and is not under way twice.
Awaited(x) == cmd.phase = "awaiting" /\ cmd.item = x /\ cmd.rpc \in Mutations
UnderWay(x) == x \in cmd.targets \ done /\ (cmd.outcome[x] = "unknown" \/ Awaited(x))
PendingInv ==
  /\ Sending => \A x \in cmd.todo \cap done : Awaited(x)
  /\ cmd.phase = "trashAfter" => \A x \in cmd.targets : cmd.outcome[x] = "ok"
  /\ \A i \in DOMAIN wire : wire[i].kind \in RequestsOf(cmd.op)
  /\ \A q \in late : q.kind \in RequestsOf(cmd.op)
  /\ \A i \in DOMAIN wire : wire[i].kind \in Mutations =>
       /\ UnderWay(wire[i].task)
       /\ Awaited(wire[i].task) => i = Len(wire)
  /\ \A q \in late : q.kind \in Mutations => UnderWay(q.task)
  /\ \A i, j \in DOMAIN wire : wire[i].kind \in Mutations /\ wire[j].kind \in Mutations
       /\ wire[i].task = wire[j].task => i = j
  /\ \A p, q \in late : p.kind \in Mutations /\ q.kind \in Mutations /\ p.task = q.task => p = q

\* An answer tells whether the change has been made, and its gid is the gid of
\* a download the command has started.
Started == {y \in Task \ Existing : eng[y] # "new"}
AnswerInv ==
  /\ Sending \/ BeforeSending => cmd.gids \subseteq Started
  /\ answer = "refused" => cmd.item \notin done
  /\ answer \in Task \cup {"ok"} /\ cmd.rpc \in Mutations => cmd.item \in done
  /\ answer = "ok" => cmd.rpc # "add"
  /\ answer \in Task => /\ cmd.rpc = "add"
                        /\ answer \in Task \ (Existing \cup cmd.gids)
                        /\ eng[answer] # "new"
                        /\ source[answer] = source[cmd.item]

\* A task that aria2 has removed is gone, one that had stopped before without
\* leaving a result, and a success is a task that is not live.
RemovalInv ==
  cmd.op \in Removals =>
    /\ \A x \in done : eng[x] \in Gone /\ (Original(x) \in TerminalSt => eng[x] = "absent")
    /\ \A x \in Task : cmd.outcome[x] = "ok" => eng[x] \in OutOfWork
    /\ cmd.phase = "reconcile" => \A x \in cmd.targets : Original(x) # "absent" =>
         /\ x \in done => RemovalObserved(x)
         /\ view[x] \notin Live => eng[x] \in OutOfWork

FilesInv == \A x \in Task : files[x] = "trashed" => eng[x] \in OutOfWork

\* What is reported agrees with what aria2 has done, item by item; after the
\* reconciliation of retries it does so by numbers.
Of1(s, S) == {x \in S : source[x] = s}
WithOutcome(O) == {x \in cmd.targets : cmd.outcome[x] \in O}
ItemByItem ==
  /\ \A x \in done : cmd.outcome[x] \in {"ok", "unknown", "filesystem"} \/ Awaited(x)
  /\ cmd.op \notin Removals => \A x \in Task : cmd.outcome[x] = "ok" => x \in done
ByNumbers ==
  /\ cmd.op = "Retry" /\ Quiet /\ cmd.phase \in {"executed", "reported"}
  /\ \A x \in Task :
       /\ Cardinality(Of1(source[x], WithOutcome({"ok"}))) <= Cardinality(Of1(source[x], done))
       /\ Cardinality(Of1(source[x], done))
            <= Cardinality(Of1(source[x], WithOutcome({"ok", "unknown"})))
ReportInv == done \subseteq cmd.targets /\ (ItemByItem \/ ByNumbers)

\* The downloads the command has started: as many as it was carried out for,
\* and as many as its successes have gids.
CountInv ==
  /\ cmd.phase = "idle" => Started = {}
  /\ cmd.op = "Retry" =>
       /\ \A y \in Started : eng[y] # "absent"
       /\ \A x \in Task : Cardinality(Of1(source[x], Started)) = Cardinality(Of1(source[x], done))
       /\ Sending \/ BeforeSending => \A x \in Task :
            Cardinality(Of1(source[x], cmd.gids))
              = Cardinality(Of1(source[x], WithOutcome({"ok"})))

\* With every result on the loaded pages, no download that was there before
\* the command looks like one it has started.
BaselineInv ==
  /\ cmd.phase = "idle" /\ view # AbsentAll =>
       \A y \in Existing : view[y] = "absent" => eng[y] \in {"new", "absent"}
  /\ \A y \in Task \ Existing : Original(y) = "absent"
  /\ cmd.phase # "idle" /\ cmd.baseline =>
       \A y \in Existing : Original(y) = "absent" => eng[y] \in {"new", "absent"}
  /\ cmd.phase = "reconcile" /\ cmd.op = "Retry" =>
       /\ \A y \in Started : view[y] # "absent"
       /\ \A y \in Existing : Original(y) = "absent" => view[y] = "absent"

-----------------------------------------------------------------------------
(***************************************************************************)
(* What aria2 may do.                                                        *)
(***************************************************************************)
\* A status moves on one way: started, stopped, forgotten.
Moves(s, t) ==
  \/ t = s
  \/ s = "new" /\ t = "Active"
  \/ s \in Live /\ t \in Live \cup TerminalSt
  \/ s \in TerminalSt /\ t = "absent"
EngineAdvances == \A y \in Task : Moves(eng[y], eng'[y])

EngineTyped == eng \in [Task -> EngStatus] /\ results \in Seq(Task)
EngineInv   == EngineTyped /\ ResultsAreStopped

\* A live download stops.
LEMMA StopFacts ==
  ASSUME EngineInv, NEW x \in Task, eng[x] \in Live, NEW s \in TerminalSt, Stop(x, s)
  PROVE  EngineInv' /\ EngineAdvances
<1>1. /\ eng' \in [Task -> EngStatus] /\ eng'[x] = s /\ \A y \in Task \ {x} : eng'[y] = eng[y]
      /\ eng[x] \notin TerminalSt
  BY DEF EngineInv, EngineTyped, Stop, Become, EngStatus, Live, TerminalSt
<1>2. /\ results' \in Seq(Task) /\ Len(results') = Len(results) + 1
      /\ \A i \in DOMAIN results : results'[i] = results[i] /\ results[i] # x
      /\ DOMAIN results' = DOMAIN results \cup {Len(results) + 1}
      /\ Len(results) + 1 \notin DOMAIN results
      /\ results'[Len(results) + 1] = x
  <2>1. results \in Seq(Task) /\ results' = Append(results, x)
    BY DEF EngineInv, EngineTyped, Stop
  <2>2. \A i \in DOMAIN results : results[i] \in Task /\ results[i] # x
    BY <1>1, <2>1 DEF EngineInv, ResultsAreStopped
  <2> QED
    BY <2>1, <2>2, SMT
<1>3. ResultsAreStopped'
  BY <1>1, <1>2 DEF EngineInv, ResultsAreStopped
<1>4. EngineAdvances
  BY <1>1 DEF EngineAdvances, Moves
<1> QED
  BY <1>1, <1>2, <1>3, <1>4 DEF EngineInv, EngineTyped

\* A sequence without its i-th element.
LEMMA RemoveAtFacts ==
  ASSUME NEW S, NEW s \in Seq(S), NEW i \in 1 .. Len(s)
  PROVE  /\ RemoveAt(s, i) \in Seq(S) /\ Len(RemoveAt(s, i)) = Len(s) - 1
         /\ \A j \in 1 .. Len(s) - 1 : RemoveAt(s, i)[j] = s[IF j < i THEN j ELSE j + 1]
<1> DEFINE l == SubSeq(s, 1, i - 1)
           r == SubSeq(s, i + 1, Len(s))
<1>1. Len(s) \in Nat /\ \A j \in 1 .. Len(s) : s[j] \in S
  OBVIOUS
<1>2. l \in Seq(S) /\ Len(l) = i - 1 /\ \A j \in 1 .. i - 1 : l[j] = s[j]
  <2>1. 1 \in Int /\ i - 1 \in Int /\ \A j \in 1 .. i - 1 : s[j] \in S
    BY <1>1
  <2>2. /\ l \in Seq(S) /\ Len(l) = IF 1 <= i - 1 THEN i - 1 - 1 + 1 ELSE 0
        /\ \A j \in 1 .. i - 1 - 1 + 1 : l[j] = s[1 + j - 1]
    BY <2>1, SubSeqProperties, SMT
  <2> QED
    BY <1>1, <2>2, SMT
<1>3. r \in Seq(S) /\ Len(r) = Len(s) - i /\ \A j \in 1 .. Len(s) - i : r[j] = s[i + j]
  <2>1. i + 1 \in Int /\ Len(s) \in Int /\ \A j \in i + 1 .. Len(s) : s[j] \in S
    BY <1>1
  <2>2. /\ r \in Seq(S) /\ Len(r) = IF i + 1 <= Len(s) THEN Len(s) - (i + 1) + 1 ELSE 0
        /\ \A j \in 1 .. Len(s) - (i + 1) + 1 : r[j] = s[i + 1 + j - 1]
    BY <2>1, SubSeqProperties, SMT
  <2> QED
    BY <1>1, <2>2, SMT
<1>4. RemoveAt(s, i) = l \o r
  BY DEF RemoveAt
<1> HIDE DEF l, r
<1>5. /\ l \o r \in Seq(S) /\ Len(l \o r) = Len(l) + Len(r)
      /\ \A j \in 1 .. Len(l) + Len(r) : (l \o r)[j] = IF j <= Len(l) THEN l[j] ELSE r[j - Len(l)]
  BY <1>2, <1>3, ConcatProperties
<1>6. Len(l) + Len(r) = Len(s) - 1
  BY <1>1, <1>2, <1>3, SMT
<1>7. ASSUME NEW j \in 1 .. Len(s) - 1
      PROVE  (l \o r)[j] = s[IF j < i THEN j ELSE j + 1]
  <2>1. CASE j < i
    BY <1>1, <1>2, <1>5, <1>6, <2>1, SMT
  <2>2. CASE ~(j < i)
    <3>1. j - Len(l) \in 1 .. Len(s) - i /\ i + (j - Len(l)) = j + 1 /\ ~(j <= Len(l))
      BY <1>1, <1>2, <2>2, SMT
    <3> QED
      BY <1>3, <1>5, <1>6, <2>2, <3>1
  <2> QED
    BY <2>1, <2>2
<1> QED
  BY <1>4, <1>5, <1>6, <1>7

\* A result is dropped.
LEMMA ForgetFacts ==
  ASSUME EngineInv, NEW x \in Task, Forget(x)
  PROVE  /\ EngineInv' /\ EngineAdvances
         /\ eng[x] \in TerminalSt /\ eng' = [eng EXCEPT ![x] = "absent"]
<1>1. PICK i \in DOMAIN results : results[i] = x /\ results' = RemoveAt(results, i)
  BY DEF Forget
<1>2. /\ eng' = [eng EXCEPT ![x] = "absent"] /\ eng[x] \in TerminalSt
      /\ eng' \in [Task -> EngStatus] /\ eng'[x] = "absent" /\ "absent" \notin TerminalSt
      /\ \A y \in Task \ {x} : eng'[y] = eng[y]
  BY <1>1 DEF EngineInv, EngineTyped, ResultsAreStopped, Forget, Become, EngStatus, TerminalSt
<1>3. /\ results' \in Seq(Task) /\ Len(results') = Len(results) - 1
      /\ \A j \in 1 .. Len(results') : results'[j] = results[IF j < i THEN j ELSE j + 1]
  <2>1. results \in Seq(Task) /\ i \in 1 .. Len(results) /\ Len(results) \in Nat
    BY DEF EngineInv, EngineTyped
  <2>2. /\ results' \in Seq(Task) /\ Len(results') = Len(results) - 1
        /\ \A j \in 1 .. Len(results) - 1 : results'[j] = results[IF j < i THEN j ELSE j + 1]
    BY <1>1, <2>1, RemoveAtFacts, Zenon
  <2> QED
    BY <2>2, Zenon
<1>4. /\ Len(results) \in Nat /\ i \in 1 .. Len(results)
      /\ DOMAIN results = 1 .. Len(results) /\ DOMAIN results' = 1 .. Len(results')
  BY <1>1, <1>3, SMT DEF EngineInv, EngineTyped
<1>5. \A j \in DOMAIN results' :
        \E k \in DOMAIN results \ {i} :
          k = (IF j < i THEN j ELSE j + 1) /\ results'[j] = results[k]
  BY <1>3, <1>4, SMT
<1>6. \A k \in DOMAIN results \ {i} : \E j \in DOMAIN results' : results'[j] = results[k]
  <2> TAKE k \in DOMAIN results \ {i}
  <2>1. CASE k < i
    BY <1>3, <1>4, <2>1, SMT
  <2>2. CASE k > i
    <3>1. k - 1 \in DOMAIN results' /\ ~(k - 1 < i) /\ (k - 1) + 1 = k
      BY <1>3, <1>4, <2>2, SMT
    <3> QED
      BY <1>3, <1>4, <3>1
  <2> QED
    BY <1>4, <2>1, <2>2, SMT
<1>7. \A k, l \in DOMAIN results : results[k] = results[l] => k = l
  BY DEF EngineInv, ResultsAreStopped
<1>8. \A j, k \in DOMAIN results' : results'[j] = results'[k] => j = k
  BY <1>3, <1>4, <1>5, <1>7, SMT
<1>9. \A y \in Task : eng'[y] \in TerminalSt <=> \E j \in DOMAIN results' : results'[j] = y
  <2> TAKE y \in Task
  <2>1. CASE y = x
    BY <1>1, <1>2, <1>5, <1>7, <2>1
  <2>2. CASE y # x
    <3>1. eng[y] \in TerminalSt <=> \E k \in DOMAIN results : results[k] = y
      BY DEF EngineInv, ResultsAreStopped
    <3> QED
      BY <1>1, <1>2, <1>5, <1>6, <2>2, <3>1
  <2> QED
    BY <2>1, <2>2
<1>10. EngineAdvances
  BY <1>2 DEF EngineAdvances, Moves
<1> QED
  BY <1>2, <1>3, <1>8, <1>9, <1>10 DEF EngineInv, EngineTyped, ResultsAreStopped

\* One request: refused without effect, or carried out by one of these moves.
LEMMA AppliesFacts ==
  ASSUME EngineInv, NEW q \in Requests, NEW a \in {"ok", "refused"} \cup Task, Applies(q, a)
  PROVE  /\ EngineInv' /\ EngineAdvances
         /\ a = "refused" => UNCHANGED engVars
         /\ a = "ok" => q.kind # "add"
         /\ a \in Task => q.kind = "add"
         /\ a # "refused" =>
              CASE q.kind = "remove"       -> eng[q.task] \in Live /\ eng' = [eng EXCEPT ![q.task] = "Removed"]
                [] q.kind = "removeResult" -> /\ eng[q.task] \in TerminalSt
                                              /\ eng' = [eng EXCEPT ![q.task] = "absent"]
                [] q.kind = "add"          -> /\ a \in Task \ Existing /\ eng[a] = "new"
                                              /\ source[a] = source[q.task]
                                              /\ eng' = [eng EXCEPT ![a] = "Active"]
                [] OTHER                   -> \A y \in Task : eng'[y] = eng[y] \/ {eng[y], eng'[y]} \subseteq Live
<1> DEFINE x == q.task
<1>1. /\ x \in Task /\ q.kind \in Kind /\ a \notin {NoTask, NoAnswer}
      /\ "ok" \notin Task /\ "refused" \notin Task
  BY TasksAreNoAnswers DEF Requests, NoTask, NoAnswer
<1>2. UNCHANGED engVars => EngineInv' /\ EngineAdvances
  <2> SUFFICES ASSUME UNCHANGED engVars PROVE EngineInv' /\ EngineAdvances
    OBVIOUS
  <2>1. eng' = eng /\ results' = results
    BY DEF engVars
  <2> QED
    BY <2>1 DEF EngineInv, EngineTyped, ResultsAreStopped, EngineAdvances, Moves
<1>3. ASSUME NEW y \in Task, NEW s \in {"Active", "Paused"}, Become(y, s), results' = results,
             eng[y] \in Live \cup {"new"}, eng[y] = "new" => s = "Active"
      PROVE  EngineInv' /\ EngineAdvances
  <2>1. /\ eng' \in [Task -> EngStatus] /\ eng'[y] = s /\ \A z \in Task \ {y} : eng'[z] = eng[z]
        /\ s \notin TerminalSt /\ eng[y] \notin TerminalSt
    BY <1>3 DEF EngineInv, EngineTyped, Become, EngStatus, Live, TerminalSt
  <2>2. EngineAdvances
    BY <1>3, <2>1 DEF EngineAdvances, Moves, Live
  <2> QED
    BY <1>3, <2>1, <2>2 DEF EngineInv, EngineTyped, ResultsAreStopped
<1> HIDE DEF x
<1>4. CASE q.kind \in {"pause", "unpause"}
  <2>1. \/ a = "refused" /\ UNCHANGED engVars
        \/ /\ a = "ok" /\ results' = results /\ eng[x] \in Live
           /\ \E s \in {"Active", "Paused"} : Become(x, s)
    BY <1>4 DEF Applies, Refuse, Live, x
  <2>2. CASE a = "refused" /\ UNCHANGED engVars
    BY <1>1, <1>2, <2>2
  <2>3. CASE a = "ok" /\ results' = results /\ eng[x] \in Live /\ \E s \in {"Active", "Paused"} : Become(x, s)
    <3>1. PICK s \in {"Active", "Paused"} : Become(x, s)
      BY <2>3
    <3>2. EngineInv' /\ EngineAdvances
      BY <1>1, <1>3, <2>3, <3>1 DEF Live
    <3>3. \A y \in Task : eng'[y] = eng[y] \/ {eng[y], eng'[y]} \subseteq Live
      BY <1>1, <2>3, <3>1 DEF Become, EngineInv, EngineTyped, Live
    <3> QED
      BY <1>1, <1>4, <2>3, <3>2, <3>3
  <2> QED
    BY <2>1, <2>2, <2>3
<1>5. CASE q.kind \in {"change", "query"}
  <2>1. a \in {"ok", "refused"} /\ UNCHANGED engVars
    BY <1>5 DEF Applies
  <2>2. eng' = eng
    BY <2>1 DEF engVars
  <2> QED
    BY <1>1, <1>2, <1>5, <2>1, <2>2
<1>6. CASE q.kind = "remove"
  <2>1. \/ a = "refused" /\ UNCHANGED engVars
        \/ a = "ok" /\ eng[x] \in Live /\ Stop(x, "Removed")
    BY <1>6 DEF Applies, Refuse, x
  <2>2. CASE a = "refused" /\ UNCHANGED engVars
    BY <1>1, <1>2, <2>2
  <2>3. CASE a = "ok" /\ eng[x] \in Live /\ Stop(x, "Removed")
    <3>1. EngineInv' /\ EngineAdvances
      BY <1>1, <2>3, StopFacts DEF TerminalSt
    <3>2. eng' = [eng EXCEPT ![x] = "Removed"]
      BY <2>3 DEF Stop, Become
    <3> QED
      BY <1>1, <1>6, <2>3, <3>1, <3>2 DEF x
  <2> QED
    BY <2>1, <2>2, <2>3
<1>7. CASE q.kind = "removeResult"
  <2>1. \/ a = "refused" /\ UNCHANGED engVars
        \/ a = "ok" /\ Forget(x)
    BY <1>7 DEF Applies, Refuse, x
  <2>2. CASE a = "refused" /\ UNCHANGED engVars
    BY <1>1, <1>2, <2>2
  <2>3. CASE a = "ok" /\ Forget(x)
    BY <1>1, <1>7, <2>3, ForgetFacts DEF x
  <2> QED
    BY <2>1, <2>2, <2>3
<1>8. CASE q.kind = "add"
  <2>1. \/ a = "refused" /\ UNCHANGED engVars
        \/ /\ a \in {y \in Task \ Existing : eng[y] = "new" /\ source[y] = source[x]}
           /\ Become(a, "Active") /\ results' = results
    BY <1>8 DEF Applies, Refuse, x
  <2>2. CASE a = "refused" /\ UNCHANGED engVars
    BY <1>1, <1>2, <2>2
  <2>3. CASE /\ a \in {y \in Task \ Existing : eng[y] = "new" /\ source[y] = source[x]}
             /\ Become(a, "Active") /\ results' = results
    <3>1. EngineInv' /\ EngineAdvances
      BY <1>1, <1>3, <2>3
    <3>2. eng' = [eng EXCEPT ![a] = "Active"]
      BY <2>3 DEF Become
    <3> QED
      BY <1>1, <1>8, <2>3, <3>1, <3>2 DEF x
  <2> QED
    BY <2>1, <2>2, <2>3
<1> QED
  BY <1>1, <1>4, <1>5, <1>6, <1>7, <1>8 DEF Kind

\* No answer is the gid of an added download, and none is missing.
LEMMA AnswersDiffer ==
  /\ NoTask \notin Task /\ NoAnswer \notin Task /\ "ok" \notin Task /\ "refused" \notin Task
  /\ NoAnswer # "ok" /\ NoAnswer # "refused"
BY TasksAreNoAnswers, Zenon DEF NoTask, NoAnswer

-----------------------------------------------------------------------------
(***************************************************************************)
(* Types, the engine and what is seen of it.                                 *)
(***************************************************************************)
SeenInv == OpTypeOK /\ EngineInv /\ PastIsTrue
BaseInv == SeenInv /\ CommandIsWhole

LEMMA OpInitSeen == OpInit => SeenInv
<1> SUFFICES ASSUME OpInit PROVE SeenInv
  OBVIOUS
<1>1. NoCommand \in Commands /\ NoCommand.todo = {} /\ NoCommand.targets = {}
  BY DEF NoCommand, Commands, Phase, Kind, AbsentAll, EngStatus, Live, TerminalSt, Outcome
<1>2. OpTypeOK
  <2>1. /\ eng \in [Task -> EngStatus] /\ results \in Seq(Task)
        /\ online \in BOOLEAN /\ same \in BOOLEAN /\ view \in [Task -> EngStatus]
        /\ wire \in Seq(Requests) /\ files \in [Task -> {"present", "trashed"}]
    BY DEF OpInit, AbsentAll, EngStatus, Live, TerminalSt
  <2> QED
    BY <1>1, <2>1 DEF OpInit, OpTypeOK
<1>3. EngineInv
  BY DEF OpInit, EngineInv, EngineTyped, ResultsAreStopped, EngStatus, Live, TerminalSt
<1>4. NoCommand.original = AbsentAll /\ NoCommand.context = AbsentAll
  BY DEF NoCommand
<1>5. PastIsTrue
  BY <1>4 DEF OpInit, PastIsTrue, StillTrue, AbsentAll, TerminalSt
<1> QED
  BY <1>2, <1>3, <1>5 DEF SeenInv

\* What was true of the past stays true of it, and a refresh adds truth.
LEMMA PastStaysTrue ==
  ASSUME EngineTyped, EngineAdvances, NEW v \in [Task -> EngStatus], StillTrue(v, eng)
  PROVE  StillTrue(v, eng')
BY DEF StillTrue, EngineTyped, EngineAdvances, Moves, OutOfWork, TerminalSt, Live, EngStatus

LEMMA SnapshotFacts ==
  ASSUME EngineInv
  PROVE  /\ Snapshot \in [Task -> EngStatus] /\ StillTrue(Snapshot, eng)
         /\ \A x \in Task : /\ Snapshot[x] \in {eng[x], "absent"}
                            /\ eng[x] \in Live => Snapshot[x] = eng[x]
<1>1. \A x \in Task : Snapshot[x] # "absent" => eng[x] \in Live \cup TerminalSt
  BY DEF Snapshot, EngineInv, EngineTyped, ResultsAreStopped
<1>2. \A x \in Task : Snapshot[x] \in {eng[x], "absent"} /\ (eng[x] \in Live => Snapshot[x] = eng[x])
  BY DEF Snapshot
<1> QED
  BY <1>1, <1>2 DEF Snapshot, EngineInv, EngineTyped, StillTrue, OutOfWork, TerminalSt, Live, EngStatus

\* Where the engine does nothing, nothing becomes untrue.
LEMMA EngineStill ==
  ASSUME EngineInv, UNCHANGED engVars
  PROVE  EngineInv' /\ EngineAdvances
<1>1. eng' = eng /\ results' = results
  BY DEF engVars
<1> QED
  BY <1>1 DEF EngineInv, EngineTyped, ResultsAreStopped, EngineAdvances, Moves

LEMMA SeenKept ==
  ASSUME SeenInv, EngineInv', EngineAdvances, source' = source,
         online' \in BOOLEAN, same' \in BOOLEAN,
         view' \in [Task -> EngStatus], view' = view \/ StillTrue(view', eng'),
         wire' \in Seq(Requests), late' \subseteq Requests,
         answer' \in {NoAnswer, "ok", "refused"} \cup Task,
         files' \in [Task -> {"present", "trashed"}], done' \subseteq Task,
         cmd' \in Commands, cmd'.todo \subseteq cmd'.targets,
         cmd'.original \in {cmd.original, view, AbsentAll},
         cmd'.context \in {cmd.context, view, AbsentAll}
  PROVE  SeenInv'
<1>1. /\ EngineTyped /\ EngineTyped' /\ cmd \in Commands /\ view \in [Task -> EngStatus]
      /\ cmd.original \in [Task -> EngStatus] /\ cmd.context \in [Task -> EngStatus]
      /\ AbsentAll \in [Task -> EngStatus]
  BY DEF SeenInv, OpTypeOK, EngineInv, Commands, AbsentAll, EngStatus
<1>2. OpTypeOK'
  BY <1>1 DEF SeenInv, OpTypeOK, EngineTyped
<1>3. StillTrue(AbsentAll, eng')
  BY DEF StillTrue, AbsentAll, TerminalSt
<1>4. /\ StillTrue(view, eng') /\ StillTrue(cmd.original, eng') /\ StillTrue(cmd.context, eng')
  BY <1>1, PastStaysTrue DEF SeenInv, PastIsTrue
<1>5. PastIsTrue'
  BY <1>3, <1>4 DEF PastIsTrue
<1> QED
  BY <1>2, <1>5 DEF SeenInv
\* What a step of the command keeps but for its beginning.
SameCommand == /\ cmd'.op = cmd.op /\ cmd'.targets = cmd.targets
               /\ cmd'.baseline = cmd.baseline /\ cmd'.original = cmd.original
SameEngine  == eng' = eng /\ results' = results /\ source' = source /\ done' = done
SameLink    == late' = late /\ online' = online /\ same' = same

\* The steps of a command: its phase moves, an item is settled, a request sent.
Moved(p, o, c, g) ==
  /\ SameCommand /\ SameEngine /\ SameLink /\ wire' = wire /\ answer' = answer
  /\ cmd'.todo = cmd.todo /\ cmd'.item = cmd.item /\ cmd'.rpc = cmd.rpc
  /\ cmd'.phase = p /\ cmd'.outcome = o /\ cmd'.context = c /\ cmd'.gids = g
Settled1(x, o, g) ==
  /\ SameCommand /\ SameEngine /\ SameLink /\ wire' = wire /\ view' = view /\ files' = files
  /\ answer' \in {answer, NoAnswer}
  /\ cmd'.todo = cmd.todo \ {x} /\ cmd'.item = NoTask /\ cmd'.rpc = "none"
  /\ cmd'.phase = "next" /\ cmd'.outcome = [cmd.outcome EXCEPT ![x] = o]
  /\ cmd'.context = cmd.context /\ cmd'.gids = g
Asked(k, x) ==
  /\ SameCommand /\ SameEngine /\ SameLink /\ view' = view /\ files' = files
  /\ wire' = Append(wire, [kind |-> k, task |-> x]) /\ answer' \in {answer, NoAnswer}
  /\ cmd'.todo = cmd.todo /\ cmd'.item = x /\ cmd'.rpc = k
  /\ cmd'.phase = "awaiting" /\ cmd'.outcome = cmd.outcome
  /\ cmd'.context = cmd.context /\ cmd'.gids = cmd.gids

Based == BaseInv' /\ EngineAdvances

LEMMA MovedBase ==
  ASSUME BaseInv, cmd' \in Commands,
         NEW p \in Phase, NEW o \in [Task -> Outcome],
         NEW c \in [Task -> EngStatus], NEW g \in SUBSET Task,
         Moved(p, o, c, g), c \in {cmd.context, view, AbsentAll},
         view' \in [Task -> EngStatus], StillTrue(view', eng'),
         files' \in [Task -> {"present", "trashed"}],
         CommandIsWhole'
  PROVE  Based
<1>1. /\ SeenInv /\ EngineInv /\ OpTypeOK /\ cmd'.todo \subseteq cmd'.targets
      /\ cmd'.original = cmd.original /\ cmd'.context = c
  BY DEF BaseInv, SeenInv, OpTypeOK, Moved, SameCommand
<1>2. EngineInv' /\ EngineAdvances
  BY <1>1, EngineStill DEF Moved, SameEngine, engVars
<1>3. /\ online' \in BOOLEAN /\ same' \in BOOLEAN /\ wire' \in Seq(Requests) /\ late' \subseteq Requests
      /\ answer' \in {NoAnswer, "ok", "refused"} \cup Task /\ done' \subseteq Task
      /\ source' = source /\ eng' = eng
  BY <1>1 DEF OpTypeOK, Moved, SameLink, SameEngine
<1> QED
  BY <1>1, <1>2, <1>3, SeenKept DEF BaseInv, Based

LEMMA SettledBase ==
  ASSUME BaseInv, cmd' \in Commands, cmd.phase \in {"next", "awaiting"},
         NEW x \in cmd.todo, NEW o \in Outcome \ {"none", "filesystem", "notObserved"}, NEW g,
         Settled1(x, o, g)
  PROVE  Based
<1>1. /\ SeenInv /\ EngineInv /\ OpTypeOK /\ cmd \in Commands /\ CommandIsWhole
      /\ x \in cmd.targets /\ x \in Task /\ cmd.outcome \in [Task -> Outcome]
      /\ cmd'.todo \subseteq cmd'.targets /\ cmd'.todo = cmd.todo \ {x}
      /\ SameCommand /\ cmd'.context = cmd.context /\ cmd'.phase = "next"
      /\ cmd'.outcome = [cmd.outcome EXCEPT ![x] = o]
  BY DEF BaseInv, SeenInv, OpTypeOK, Settled1, SameCommand, Commands
<1>2. EngineInv' /\ EngineAdvances
  BY <1>1, EngineStill DEF Settled1, SameEngine, engVars
<1>3. /\ online' \in BOOLEAN /\ same' \in BOOLEAN /\ wire' \in Seq(Requests) /\ late' \subseteq Requests
      /\ answer' \in {NoAnswer, "ok", "refused"} \cup Task /\ done' \subseteq Task
      /\ source' = source /\ eng' = eng /\ view' = view /\ view' \in [Task -> EngStatus]
      /\ files' \in [Task -> {"present", "trashed"}]
  BY <1>1 DEF OpTypeOK, Settled1, SameLink, SameEngine
<1>4. SeenInv'
  BY <1>1, <1>2, <1>3, SeenKept DEF SameCommand
<1>5. /\ cmd'.outcome[x] = o /\ \A y \in Task \ {x} : cmd'.outcome[y] = cmd.outcome[y]
  BY <1>1
<1>6. CommandIsWhole'
  BY <1>1, <1>5 DEF CommandIsWhole, SameCommand, Original, BeforeSending, Sending
<1> QED
  BY <1>2, <1>4, <1>6 DEF BaseInv, Based

LEMMA AskedBase ==
  ASSUME BaseInv, cmd' \in Commands, cmd.phase \in {"next", "awaiting"},
         NEW x \in cmd.todo, NEW k \in RequestsOf(cmd.op), Asked(k, x)
  PROVE  Based
<1>1. /\ SeenInv /\ EngineInv /\ OpTypeOK /\ cmd \in Commands /\ CommandIsWhole
      /\ x \in cmd.targets /\ x \in Task /\ k \in Kind
      /\ cmd'.todo \subseteq cmd'.targets /\ cmd'.todo = cmd.todo
      /\ SameCommand /\ cmd'.context = cmd.context /\ cmd'.phase = "awaiting"
      /\ cmd'.outcome = cmd.outcome /\ cmd'.item = x /\ cmd'.rpc = k
  BY DEF BaseInv, SeenInv, OpTypeOK, Asked, SameCommand, Commands, RequestsOf, Kind, Removals
<1>2. EngineInv' /\ EngineAdvances
  BY <1>1, EngineStill DEF Asked, SameEngine, engVars
<1>3. /\ online' \in BOOLEAN /\ same' \in BOOLEAN /\ wire' \in Seq(Requests) /\ late' \subseteq Requests
      /\ answer' \in {NoAnswer, "ok", "refused"} \cup Task /\ done' \subseteq Task
      /\ source' = source /\ eng' = eng /\ view' = view /\ view' \in [Task -> EngStatus]
      /\ files' \in [Task -> {"present", "trashed"}]
  <2>1. [kind |-> k, task |-> x] \in Requests
    BY <1>1 DEF Requests
  <2>2. wire' \in Seq(Requests)
    BY <1>1, <2>1 DEF OpTypeOK, Asked
  <2> QED
    BY <1>1, <2>2 DEF OpTypeOK, Asked, SameLink, SameEngine
<1>4. SeenInv'
  BY <1>1, <1>2, <1>3, SeenKept DEF SameCommand
<1>5. CommandIsWhole'
  BY <1>1 DEF CommandIsWhole, SameCommand, Original, BeforeSending, Sending
<1> QED
  BY <1>2, <1>4, <1>5 DEF BaseInv, Based

LEMMA ViewStaysTrue == BaseInv /\ SameEngine /\ view' = view => StillTrue(view', eng')
BY DEF BaseInv, SeenInv, PastIsTrue, SameEngine

\* The same where the engine is not looked at.
LEMMA StillMovedBase ==
  ASSUME BaseInv, cmd' \in Commands, NEW p \in Phase, NEW o \in [Task -> Outcome],
         Moved(p, o, cmd.context, cmd.gids), view' = view,
         files' \in [Task -> {"present", "trashed"}], CommandIsWhole'
  PROVE  Based
<1>1. cmd.context \in [Task -> EngStatus] /\ cmd.gids \in SUBSET Task /\ view' \in [Task -> EngStatus]
  BY DEF BaseInv, SeenInv, OpTypeOK, Commands
<1>2. StillTrue(view', eng')
  BY ViewStaysTrue DEF Moved
<1> QED
  BY <1>1, <1>2, MovedBase

-----------------------------------------------------------------------------
(***************************************************************************)
(* The steps, each as one of these forms.                                    *)
(***************************************************************************)
LEMMA BaseFacts ==
  ASSUME BaseInv
  PROVE  /\ cmd \in Commands /\ cmd.outcome \in [Task -> Outcome] /\ cmd.todo \subseteq cmd.targets
         /\ cmd.targets \subseteq Task /\ cmd.phase \in Phase /\ cmd.gids \subseteq Task
         /\ cmd.item \in Task \cup {NoTask} /\ cmd.original \in [Task -> EngStatus]
         /\ cmd.context \in [Task -> EngStatus]
         /\ view \in [Task -> EngStatus]
         /\ files \in [Task -> {"present", "trashed"}] /\ eng \in [Task -> EngStatus]
         /\ wire \in Seq(Requests) /\ late \subseteq Requests
         /\ answer \in {NoAnswer, "ok", "refused"} \cup Task /\ done \subseteq Task
         /\ results \in Seq(Task) /\ EngineInv /\ OpTypeOK /\ SeenInv /\ CommandIsWhole
         /\ online \in BOOLEAN /\ same \in BOOLEAN
BY DEF BaseInv, SeenInv, OpTypeOK, Commands, EngineInv, EngineTyped

LEMMA FailAllFacts ==
  ASSUME BaseInv, NEW o \in Outcome
  PROVE  /\ FailAll(cmd.targets, o) \in [Task -> Outcome]
         /\ \A x \in Task : FailAll(cmd.targets, o)[x] = IF x \in cmd.targets THEN o ELSE cmd.outcome[x]
BY BaseFacts DEF FailAll

LEMMA PreflightFailsStep ==
  ASSUME BaseInv, PreflightFails
  PROVE  /\ Based /\ cmd.phase = "preflight" /\ view' = view /\ files' = files
         /\ Moved("reported", FailAll(cmd.targets, "failed"), cmd.context, cmd.gids)
<1>1. /\ cmd \in Commands /\ "reported" \in Phase /\ "failed" \in Outcome
      /\ FailAll(cmd.targets, "failed") \in [Task -> Outcome]
  BY BaseFacts, FailAllFacts DEF Phase, Outcome
<1>2. /\ cmd' = [cmd EXCEPT !.phase = "reported", !.outcome = FailAll(cmd.targets, "failed")]
      /\ cmd.phase = "preflight" /\ SameEngine /\ SameLink /\ wire' = wire /\ answer' = answer
      /\ view' = view /\ files' = files
  BY DEF PreflightFails, CmdStep, envVars, SameEngine, SameLink
<1>3. cmd' \in Commands /\ Moved("reported", FailAll(cmd.targets, "failed"), cmd.context, cmd.gids)
  BY <1>1, <1>2 DEF Moved, SameCommand, Commands
<1>4. CommandIsWhole'
  BY <1>1, <1>2, <1>3, BaseFacts, FailAllFacts
  DEF CommandIsWhole, Moved, SameCommand, Original, BeforeSending, Sending
<1> QED
  BY <1>1, <1>2, <1>3, <1>4, BaseFacts, StillMovedBase

LEMMA PreflightPassesStep ==
  ASSUME BaseInv, PreflightPasses
  PROVE  /\ Based /\ cmd.phase = "preflight" /\ view' = view /\ files' = files
         /\ Moved(IF \A x \in cmd.targets : Original(x) \in TerminalSt THEN "trashFirst" ELSE "execute",
                  cmd.outcome, cmd.context, cmd.gids)
<1> DEFINE p == IF \A x \in cmd.targets : Original(x) \in TerminalSt THEN "trashFirst" ELSE "execute"
<1>1. cmd \in Commands /\ p \in Phase /\ cmd.outcome \in [Task -> Outcome]
  BY BaseFacts DEF Phase
<1>2. /\ cmd' = [cmd EXCEPT !.phase = p]
      /\ cmd.phase = "preflight" /\ SameEngine /\ SameLink /\ wire' = wire /\ answer' = answer
      /\ view' = view /\ files' = files
  BY DEF PreflightPasses, CmdStep, envVars, SameEngine, SameLink
<1>0. p \in {"trashFirst", "execute"} /\ (p = "trashFirst" => \A x \in cmd.targets : Original(x) \in TerminalSt)
  OBVIOUS
<1> HIDE DEF p
<1>3. cmd' \in Commands /\ Moved(p, cmd.outcome, cmd.context, cmd.gids)
  BY <1>1, <1>2 DEF Moved, SameCommand, Commands
<1>4. CommandIsWhole'
  BY <1>0, <1>1, <1>2, <1>3, BaseFacts
  DEF CommandIsWhole, Moved, SameCommand, Original, BeforeSending, Sending
<1>5. Based
  BY <1>1, <1>2, <1>3, <1>4, BaseFacts, StillMovedBase
<1> QED
  BY <1>2, <1>3, <1>5 DEF p

LEMMA TrashStep ==
  ASSUME BaseInv, Trash
  PROVE  /\ Based /\ cmd.phase \in {"trashFirst", "trashAfter"} /\ view' = view
         /\ \/ /\ files' = [x \in Task |-> IF x \in cmd.targets THEN "trashed" ELSE files[x]]
               /\ Moved(IF cmd.phase = "trashFirst" THEN "execute" ELSE "reported",
                        cmd.outcome, cmd.context, cmd.gids)
            \/ /\ files' = files
               /\ Moved("reported", FailAll(cmd.targets, "filesystem"), cmd.context, cmd.gids)
<1>1. /\ cmd \in Commands /\ cmd.outcome \in [Task -> Outcome] /\ {"reported", "execute"} \subseteq Phase
      /\ "filesystem" \in Outcome /\ FailAll(cmd.targets, "filesystem") \in [Task -> Outcome]
  BY BaseFacts, FailAllFacts DEF Phase, Outcome
<1>2. /\ cmd.phase \in {"trashFirst", "trashAfter"} /\ SameEngine /\ SameLink
      /\ wire' = wire /\ answer' = answer /\ view' = view
  BY DEF Trash, envVars, SameEngine, SameLink
<1>3. CASE /\ files' = [x \in Task |-> IF x \in cmd.targets THEN "trashed" ELSE files[x]]
           /\ cmd' = [cmd EXCEPT !.phase = IF @ = "trashFirst" THEN "execute" ELSE "reported"]
  <2> DEFINE p == IF cmd.phase = "trashFirst" THEN "execute" ELSE "reported"
  <2>1. p \in {"reported", "execute"} /\ (p = "execute" <=> cmd.phase = "trashFirst")
    OBVIOUS
  <2>2. cmd' = [cmd EXCEPT !.phase = p]
    BY <1>3
  <2>3. files' \in [Task -> {"present", "trashed"}]
    BY <1>3, BaseFacts
  <2> HIDE DEF p
  <2>4. cmd' \in Commands /\ Moved(p, cmd.outcome, cmd.context, cmd.gids)
    BY <1>1, <1>2, <2>1, <2>2 DEF Moved, SameCommand, Commands
  <2>5. CommandIsWhole'
    BY <1>1, <1>2, <2>1, <2>4, BaseFacts
    DEF CommandIsWhole, Moved, SameCommand, Original, BeforeSending, Sending
  <2>6. Based
    BY <1>1, <1>2, <2>1, <2>3, <2>4, <2>5, BaseFacts, StillMovedBase
  <2> QED
    BY <1>2, <1>3, <2>4, <2>6 DEF p
<1>4. CASE /\ cmd' = [cmd EXCEPT !.phase = "reported", !.outcome = FailAll(cmd.targets, "filesystem")]
           /\ files' = files
  <2>1. cmd' \in Commands /\ Moved("reported", FailAll(cmd.targets, "filesystem"), cmd.context, cmd.gids)
    BY <1>1, <1>2, <1>4 DEF Moved, SameCommand, Commands
  <2>2. CommandIsWhole'
    BY <1>1, <1>2, <2>1, BaseFacts, FailAllFacts
    DEF CommandIsWhole, Moved, SameCommand, Original, BeforeSending, Sending
  <2>3. Based
    BY <1>1, <1>2, <1>4, <2>1, <2>2, BaseFacts, StillMovedBase
  <2> QED
    BY <1>2, <1>4, <2>1, <2>3
<1> QED
  BY <1>3, <1>4 DEF Trash

LEMMA ExecuteStep ==
  ASSUME BaseInv, Execute
  PROVE  /\ Based /\ cmd.phase = "execute" /\ view' = view /\ files' = files
         /\ \/ online /\ same /\ Moved("next", cmd.outcome, view, cmd.gids)
            \/ Moved("reported", FailAll(cmd.targets, "failed"), cmd.context, cmd.gids)
<1>1. /\ cmd \in Commands /\ cmd.outcome \in [Task -> Outcome] /\ {"reported", "next"} \subseteq Phase
      /\ "failed" \in Outcome /\ FailAll(cmd.targets, "failed") \in [Task -> Outcome]
      /\ view \in [Task -> EngStatus] /\ cmd.gids \in SUBSET Task
  BY BaseFacts, FailAllFacts DEF Phase, Outcome
<1>2. /\ cmd.phase = "execute" /\ SameEngine /\ SameLink /\ wire' = wire /\ answer' = answer
      /\ view' = view /\ files' = files
  BY DEF Execute, CmdStep, envVars, SameEngine, SameLink
<1>3. CASE online /\ same
  <2>0. cmd' = [cmd EXCEPT !.phase = "next", !.context = view]
    BY <1>3 DEF Execute
  <2>1. cmd' \in Commands /\ Moved("next", cmd.outcome, view, cmd.gids)
    BY <1>1, <1>2, <2>0 DEF Moved, SameCommand, Commands
  <2>2. CommandIsWhole'
    BY <1>1, <1>2, <2>1, BaseFacts
    DEF CommandIsWhole, Moved, SameCommand, Original, BeforeSending, Sending
  <2>3. Based
    BY <1>1, <1>2, <2>1, <2>2, BaseFacts, ViewStaysTrue, MovedBase
  <2> QED
    BY <1>2, <1>3, <2>1, <2>3
<1>4. CASE ~(online /\ same)
  <2>0. cmd' = [cmd EXCEPT !.phase = "reported", !.outcome = FailAll(cmd.targets, "failed")]
    BY <1>4 DEF Execute
  <2>1. cmd' \in Commands /\ Moved("reported", FailAll(cmd.targets, "failed"), cmd.context, cmd.gids)
    BY <1>1, <1>2, <2>0 DEF Moved, SameCommand, Commands
  <2>4. \A x \in Task : FailAll(cmd.targets, "failed")[x]
                           = IF x \in cmd.targets THEN "failed" ELSE cmd.outcome[x]
    BY <1>1, FailAllFacts
  <2>5. /\ cmd'.phase = "reported" /\ cmd'.outcome = FailAll(cmd.targets, "failed")
        /\ SameCommand /\ CommandIsWhole
    BY <2>1, BaseFacts DEF Moved
  <2>2. CommandIsWhole'
    BY <1>2, <2>4, <2>5
    DEF CommandIsWhole, SameCommand, Original, BeforeSending, Sending
  <2>3. Based
    BY <1>1, <1>2, <2>1, <2>2, BaseFacts, StillMovedBase
  <2> QED
    BY <1>2, <2>1, <2>3
<1> QED
  BY <1>3, <1>4

LEMMA ItemsDoneStep ==
  ASSUME BaseInv, ItemsDone
  PROVE  /\ Based /\ cmd.phase = "next" /\ cmd.todo = {} /\ view' = view /\ files' = files
         /\ \E p \in {"refreshing", "executed"} : Moved(p, cmd.outcome, AbsentAll, cmd.gids)
<1> DEFINE p == IF UnknownItems # {} /\ cmd.baseline THEN "refreshing" ELSE "executed"
<1>0. p \in {"refreshing", "executed"} /\ (p = "refreshing" => cmd.baseline)
  OBVIOUS
<1>1. /\ cmd \in Commands /\ cmd.outcome \in [Task -> Outcome] /\ p \in Phase
      /\ AbsentAll \in [Task -> EngStatus] /\ cmd.gids \in SUBSET Task /\ view \in [Task -> EngStatus]
  BY BaseFacts DEF Phase, AbsentAll, EngStatus
<1>2. /\ cmd' = [cmd EXCEPT !.phase = p, !.context = AbsentAll]
      /\ cmd.phase = "next" /\ cmd.todo = {} /\ SameEngine /\ SameLink /\ wire' = wire
      /\ answer' = answer /\ view' = view /\ files' = files
  BY DEF ItemsDone, CmdStep, envVars, SameEngine, SameLink
<1> HIDE DEF p
<1>3. cmd' \in Commands /\ Moved(p, cmd.outcome, AbsentAll, cmd.gids)
  BY <1>1, <1>2 DEF Moved, SameCommand, Commands
<1>4. CommandIsWhole'
  BY <1>0, <1>1, <1>2, <1>3, BaseFacts
  DEF CommandIsWhole, Moved, SameCommand, Original, BeforeSending, Sending
<1>5. Based
  BY <1>1, <1>2, <1>3, <1>4, BaseFacts, ViewStaysTrue, MovedBase
<1> QED
  BY <1>0, <1>2, <1>3, <1>5

LEMMA ForcedRefreshStep ==
  ASSUME BaseInv, ForcedRefresh
  PROVE  /\ Based /\ cmd.phase = "refreshing" /\ files' = files
         /\ \/ /\ online /\ same /\ wire = <<>> /\ view' = Snapshot
               /\ Moved("reconcile", cmd.outcome, cmd.context, cmd.gids)
            \/ view' = view /\ Moved("executed", cmd.outcome, cmd.context, cmd.gids)
<1>1. /\ cmd \in Commands /\ cmd.outcome \in [Task -> Outcome] /\ {"reconcile", "executed"} \subseteq Phase
      /\ cmd.context \in [Task -> EngStatus] /\ cmd.gids \in SUBSET Task
      /\ files \in [Task -> {"present", "trashed"}]
  BY BaseFacts DEF Phase
<1>2. /\ cmd.phase = "refreshing" /\ SameEngine /\ SameLink /\ wire' = wire /\ answer' = answer
      /\ files' = files
  BY DEF ForcedRefresh, envVars, SameEngine, SameLink
<1>3. CASE online /\ same
  <2>1. wire = <<>> /\ view' = Snapshot /\ cmd' = [cmd EXCEPT !.phase = "reconcile"]
    BY <1>3 DEF ForcedRefresh
  <2>2. cmd' \in Commands /\ Moved("reconcile", cmd.outcome, cmd.context, cmd.gids)
    BY <1>1, <1>2, <2>1 DEF Moved, SameCommand, Commands
  <2>3. CommandIsWhole'
    BY <1>1, <1>2, <2>2, BaseFacts
    DEF CommandIsWhole, Moved, SameCommand, Original, BeforeSending, Sending
  <2>4. view' \in [Task -> EngStatus] /\ StillTrue(view', eng')
    BY <1>2, <2>1, BaseFacts, SnapshotFacts DEF SameEngine
  <2>6. "reconcile" \in Phase /\ cmd.context \in {cmd.context, view, AbsentAll}
    BY <1>1
  <2>7. files' \in [Task -> {"present", "trashed"}]
    BY <1>1, <1>2
  <2>5. Based
    BY <1>1, <2>2, <2>3, <2>4, <2>6, <2>7, MovedBase
  <2> QED
    BY <1>2, <1>3, <2>1, <2>2, <2>5
<1>4. CASE ~(online /\ same)
  <2>1. view' = view /\ cmd' = [cmd EXCEPT !.phase = "executed"]
    BY <1>4 DEF ForcedRefresh
  <2>2. cmd' \in Commands /\ Moved("executed", cmd.outcome, cmd.context, cmd.gids)
    BY <1>1, <1>2, <2>1 DEF Moved, SameCommand, Commands
  <2>3. CommandIsWhole'
    BY <1>1, <1>2, <2>2, BaseFacts
    DEF CommandIsWhole, Moved, SameCommand, Original, BeforeSending, Sending
  <2>4. Based
    BY <1>1, <1>2, <2>1, <2>2, <2>3, StillMovedBase
  <2> QED
    BY <1>2, <2>1, <2>2, <2>4
<1> QED
  BY <1>3, <1>4

\* What the reconciliation of removals makes of the outcomes.
RemovalsReconciled ==
  [x \in Task |-> IF x \notin UnknownItems \/ Original(x) = "absent" THEN cmd.outcome[x]
                  ELSE IF RemovalObserved(x) THEN "ok" ELSE "notObserved"]

LEMMA ReconcileRemovalsStep ==
  ASSUME BaseInv, ReconcileRemovals
  PROVE  /\ Based /\ cmd.phase = "reconcile" /\ cmd.op \in Removals /\ view' = view /\ files' = files
         /\ Moved("executed", RemovalsReconciled, cmd.context, cmd.gids)
<1>1. /\ cmd \in Commands /\ cmd.outcome \in [Task -> Outcome] /\ "executed" \in Phase
      /\ RemovalsReconciled \in [Task -> Outcome]
      /\ \A x \in Task : /\ RemovalsReconciled[x] # "none" => x \in cmd.targets
                         /\ RemovalsReconciled[x] = "filesystem" => cmd.outcome[x] = "filesystem"
  BY BaseFacts DEF Phase, Outcome, RemovalsReconciled, UnknownItems, CommandIsWhole
<1>2. /\ cmd' = [cmd EXCEPT !.phase = "executed", !.outcome = RemovalsReconciled]
      /\ cmd.phase = "reconcile" /\ cmd.op \in Removals /\ SameEngine /\ SameLink /\ wire' = wire
      /\ answer' = answer /\ view' = view /\ files' = files
  BY <1>1 DEF ReconcileRemovals, CmdStep, envVars, SameEngine, SameLink, RemovalsReconciled
<1>3. cmd' \in Commands /\ Moved("executed", RemovalsReconciled, cmd.context, cmd.gids)
  BY <1>1, <1>2 DEF Moved, SameCommand, Commands
<1>4. CommandIsWhole'
  BY <1>1, <1>2, <1>3, BaseFacts DEF CommandIsWhole, Moved, SameCommand, Original, BeforeSending, Sending
<1> QED
  BY <1>1, <1>2, <1>3, <1>4, BaseFacts, StillMovedBase

\* What the reconciliation of retries makes of the outcomes with matching m.
RetriesReconciled(m) ==
  [x \in Task |-> IF x \notin UnknownItems THEN cmd.outcome[x]
                  ELSE IF m[x] # NoTask THEN "ok" ELSE "notObserved"]

LEMMA ReconcileRetriesStep ==
  ASSUME BaseInv, ReconcileRetries
  PROVE  /\ Based /\ cmd.phase = "reconcile" /\ cmd.op = "Retry" /\ view' = view /\ files' = files
         /\ \E m \in Matchings :
              Moved("executed", RetriesReconciled(m), cmd.context,
                    cmd.gids \cup ({m[x] : x \in UnknownItems} \ {NoTask}))
<1>1. PICK m \in Matchings :
        cmd' = [cmd EXCEPT !.phase = "executed", !.outcome = RetriesReconciled(m),
                           !.gids = @ \cup ({m[x] : x \in UnknownItems} \ {NoTask})]
  BY BaseFacts DEF ReconcileRetries, RetriesReconciled
<1> DEFINE g == cmd.gids \cup ({m[x] : x \in UnknownItems} \ {NoTask})
<1>2. m \in [UnknownItems -> Task \cup {NoTask}] /\ g \in SUBSET Task
  <2>1. m \in [UnknownItems -> Task \cup {NoTask}]
    BY DEF Matchings
  <2> QED
    BY <2>1, BaseFacts
<1>3. /\ cmd \in Commands /\ cmd.outcome \in [Task -> Outcome] /\ "executed" \in Phase
      /\ RetriesReconciled(m) \in [Task -> Outcome]
      /\ \A x \in Task : /\ RetriesReconciled(m)[x] # "none" => x \in cmd.targets
                         /\ RetriesReconciled(m)[x] = "filesystem" => cmd.outcome[x] = "filesystem"
  BY BaseFacts DEF Phase, Outcome, RetriesReconciled, UnknownItems, CommandIsWhole
<1>4. /\ cmd' = [cmd EXCEPT !.phase = "executed", !.outcome = RetriesReconciled(m), !.gids = g]
      /\ cmd.phase = "reconcile" /\ cmd.op = "Retry" /\ SameEngine /\ SameLink /\ wire' = wire
      /\ answer' = answer /\ view' = view /\ files' = files
  BY <1>1, <1>3 DEF ReconcileRetries, CmdStep, envVars, SameEngine, SameLink
<1>5. m \in Matchings
  OBVIOUS
<1> HIDE DEF g
<1>6. cmd' \in Commands /\ Moved("executed", RetriesReconciled(m), cmd.context, g)
  BY <1>2, <1>3, <1>4 DEF Moved, SameCommand, Commands
<1>7. CommandIsWhole'
  BY <1>3, <1>4, <1>6, BaseFacts DEF CommandIsWhole, Moved, SameCommand, Original, BeforeSending, Sending
<1>8. Based
  BY <1>2, <1>3, <1>4, <1>6, <1>7, BaseFacts, ViewStaysTrue, MovedBase
<1> QED
  BY <1>4, <1>5, <1>6, <1>8 DEF g

LEMMA ReportStep ==
  ASSUME BaseInv, Report
  PROVE  /\ Based /\ cmd.phase = "executed" /\ view' = view /\ files' = files
         /\ \/ Moved("reported", cmd.outcome, cmd.context, cmd.gids)
            \/ /\ cmd.op = "RemoveWithFiles" /\ \E x \in cmd.targets : cmd.outcome[x] = "ok"
               /\ Moved("trashAfter", cmd.outcome, cmd.context, cmd.gids)
<1> DEFINE p == IF cmd.op = "RemoveWithFiles" /\ \E x \in cmd.targets :
                     cmd.outcome[x] = "ok" /\ Original(x) \notin TerminalSt
                THEN "trashAfter" ELSE "reported"
<1>0. \/ p = "reported"
      \/ p = "trashAfter" /\ cmd.op = "RemoveWithFiles" /\ \E x \in cmd.targets : cmd.outcome[x] = "ok"
  OBVIOUS
<1>1. /\ cmd \in Commands /\ cmd.outcome \in [Task -> Outcome] /\ p \in Phase
      /\ files \in [Task -> {"present", "trashed"}]
  BY BaseFacts DEF Phase
<1>2. /\ cmd' = [cmd EXCEPT !.phase = p]
      /\ cmd.phase = "executed" /\ SameEngine /\ SameLink /\ wire' = wire
      /\ answer' = answer /\ view' = view /\ files' = files
  BY DEF Report, CmdStep, envVars, SameEngine, SameLink
<1> HIDE DEF p
<1>3. cmd' \in Commands /\ Moved(p, cmd.outcome, cmd.context, cmd.gids)
  BY <1>1, <1>2 DEF Moved, SameCommand, Commands
<1>4. CommandIsWhole'
  BY <1>0, <1>1, <1>2, <1>3, BaseFacts
  DEF CommandIsWhole, Moved, SameCommand, Original, BeforeSending, Sending
<1>5. Based
  BY <1>1, <1>2, <1>3, <1>4, StillMovedBase
<1> QED
  BY <1>0, <1>2, <1>3, <1>5

\* The fields of a settled item.
LEMMA SettleFacts ==
  ASSUME BaseInv, NEW x \in Task, NEW o \in Outcome, NEW g \in SUBSET Task,
         SameEngine, SameLink, wire' = wire, view' = view, files' = files,
         answer' \in {answer, NoAnswer}, cmd' = [Settle(x, o) EXCEPT !.gids = g]
  PROVE  cmd' \in Commands /\ Settled1(x, o, g)
<1>1. cmd \in Commands
  BY BaseFacts
<1>2. "next" \in Phase /\ "none" \in Kind \cup {"none"} /\ cmd.outcome \in [Task -> Outcome]
  BY <1>1, BaseFacts DEF Phase
<1> QED
  BY <1>1, <1>2 DEF Settle, Settled1, SameCommand, Commands

LEMMA PlainSettleFacts ==
  ASSUME BaseInv, NEW x \in Task, NEW o \in Outcome,
         SameEngine, SameLink, wire' = wire, view' = view, files' = files,
         answer' \in {answer, NoAnswer}, cmd' = Settle(x, o)
  PROVE  cmd' \in Commands /\ Settled1(x, o, cmd.gids)
<1>1. cmd \in Commands
  BY BaseFacts
<1>2. "next" \in Phase /\ "none" \in Kind \cup {"none"} /\ cmd.outcome \in [Task -> Outcome]
  BY <1>1, BaseFacts DEF Phase
<1> QED
  BY <1>1, <1>2 DEF Settle, Settled1, SameCommand, Commands

\* What an item without an answer is reported as.
LEMMA UnansweredFacts ==
  \A k \in Kind : /\ Unanswered(k) \in Outcome \ {"none", "filesystem", "notObserved"}
                  /\ Unanswered(k) = IF k \in Mutations THEN "unknown" ELSE "failed"
BY DEF Unanswered, Outcome

LEMMA RequestsOfKind == \A op : RequestsOf(op) \subseteq Kind
BY DEF RequestsOf, Kind, Removals

LEMMA SkipItemStep ==
  ASSUME BaseInv, NEW x \in Task, SkipItem(x)
  PROVE  Based /\ cmd.phase = "next" /\ x \in cmd.todo /\ Settled1(x, "rejected", cmd.gids)
<1>1. /\ cmd' = Settle(x, "rejected") /\ cmd.phase = "next" /\ x \in cmd.todo
      /\ SameEngine /\ SameLink /\ wire' = wire /\ answer' = answer /\ view' = view /\ files' = files
  BY DEF SkipItem, CmdStep, envVars, SameEngine, SameLink
<1>2. "rejected" \in Outcome \ {"none", "filesystem", "notObserved"}
  BY DEF Outcome
<1>3. cmd' \in Commands /\ Settled1(x, "rejected", cmd.gids)
  BY <1>1, <1>2, PlainSettleFacts
<1> QED
  BY <1>1, <1>2, <1>3, SettledBase

LEMMA SendItemStep ==
  ASSUME BaseInv, NEW x \in Task, SendItem(x)
  PROVE  /\ Based /\ cmd.phase = "next" /\ x \in cmd.todo
         /\ \E k \in RequestsOf(cmd.op) :
              /\ k # "add"
              /\ \/ online /\ Asked(k, x)
                 \/ ~online /\ Settled1(x, Unanswered(k), cmd.gids)
<1> DEFINE k == FirstRequest(x)
<1>1. /\ cmd.phase = "next" /\ x \in cmd.todo /\ cmd \in Commands
      /\ SameEngine /\ SameLink /\ answer' = answer /\ view' = view /\ files' = files
  BY BaseFacts DEF SendItem, envVars, SameEngine, SameLink
<1>2. cmd.op \in {"Pause", "Resume", "Change", "Remove", "Retry", "RemoveWithFiles"}
  BY <1>1, BaseFacts, OperationsAreCommands DEF CommandIsWhole
<1>3. k \in RequestsOf(cmd.op) /\ k # "add" /\ k \in Kind
  BY <1>2 DEF FirstRequest, RequestsOf, Removals, Kind
<1>4. IF online THEN /\ wire' = Append(wire, [kind |-> k, task |-> x])
                     /\ cmd' = [cmd EXCEPT !.phase = "awaiting", !.item = x, !.rpc = k]
                ELSE cmd' = Settle(x, Unanswered(k)) /\ wire' = wire
  BY DEF SendItem
<1> HIDE DEF k
<1>5. CASE online
  <2>0. /\ wire' = Append(wire, [kind |-> k, task |-> x]) /\ "awaiting" \in Phase
        /\ cmd' = [cmd EXCEPT !.phase = "awaiting", !.item = x, !.rpc = k]
    BY <1>4, <1>5 DEF Phase
  <2>1. cmd' \in Commands /\ Asked(k, x)
    BY <1>1, <1>3, <2>0 DEF Asked, SameCommand, Commands
  <2>2. Based
    BY <1>1, <1>3, <2>1, AskedBase
  <2> QED
    BY <1>1, <1>3, <1>5, <2>1, <2>2
<1>6. CASE ~online
  <2>1. Unanswered(k) \in Outcome \ {"none", "filesystem", "notObserved"}
    BY <1>3, UnansweredFacts
  <2>2. cmd' \in Commands /\ Settled1(x, Unanswered(k), cmd.gids)
    BY <1>1, <1>4, <1>6, <2>1, PlainSettleFacts
  <2>3. Based
    BY <1>1, <2>1, <2>2, SettledBase
  <2> QED
    BY <1>1, <1>3, <1>6, <2>2, <2>3
<1> QED
  BY <1>5, <1>6

LEMMA NextRequestFollowsStep ==
  ASSUME BaseInv, NextRequestFollows
  PROVE  /\ Based /\ cmd.phase = "awaiting" /\ answer # NoAnswer /\ answer' = NoAnswer
         /\ Asked(NextRequest, cmd.item) /\ NextRequest \in RequestsOf(cmd.op)
         /\ \/ cmd.rpc = "query" /\ NextRequest = "add"
            \/ cmd.rpc = "remove" /\ NextRequest = "removeResult" /\ answer = "refused"
<1>1. /\ cmd.phase = "awaiting" /\ cmd.item \in cmd.todo /\ cmd.rpc \in RequestsOf(cmd.op)
      /\ cmd \in Commands /\ answer # NoAnswer /\ Continues
      /\ SameEngine /\ SameLink /\ answer' = NoAnswer /\ view' = view /\ files' = files
      /\ wire' = Append(wire, [kind |-> NextRequest, task |-> cmd.item])
      /\ cmd' = [cmd EXCEPT !.rpc = NextRequest]
  BY BaseFacts DEF NextRequestFollows, Answered, CommandIsWhole, envVars, SameEngine, SameLink
<1>2. \/ cmd.rpc = "query" /\ NextRequest = "add"
      \/ cmd.rpc = "remove" /\ NextRequest = "removeResult" /\ answer = "refused"
  BY <1>1 DEF Continues, NextRequest
<1>3. NextRequest \in RequestsOf(cmd.op) /\ NextRequest \in Kind
  BY <1>1, <1>2, RequestsOfKind DEF RequestsOf, Removals, Kind
<1>4. cmd' \in Commands /\ Asked(NextRequest, cmd.item)
  BY <1>1, <1>3 DEF Asked, SameCommand, Commands
<1> QED
  BY <1>1, <1>2, <1>3, <1>4, AskedBase

LEMMA ItemSettlesStep ==
  ASSUME BaseInv, ItemSettles
  PROVE  /\ Based /\ cmd.phase = "awaiting" /\ answer # NoAnswer /\ answer' = NoAnswer
         /\ cmd.item \in cmd.todo /\ ~Continues
         /\ Settled1(cmd.item, IF answer = "refused" THEN "rejected" ELSE "ok",
                     IF answer \in Task THEN cmd.gids \cup {answer} ELSE cmd.gids)
<1> DEFINE o == IF answer = "refused" THEN "rejected" ELSE "ok"
           g == IF answer \in Task THEN cmd.gids \cup {answer} ELSE cmd.gids
<1>1. /\ cmd.phase = "awaiting" /\ cmd.item \in cmd.todo /\ cmd.item \in Task
      /\ cmd \in Commands /\ answer # NoAnswer /\ ~Continues
      /\ SameEngine /\ SameLink /\ answer' = NoAnswer /\ view' = view /\ files' = files /\ wire' = wire
  BY BaseFacts DEF ItemSettles, Answered, CommandIsWhole, envVars, SameEngine, SameLink
<1>2. o \in Outcome \ {"none", "filesystem", "notObserved"} /\ g \in SUBSET Task
  BY BaseFacts DEF Outcome
<1>3. cmd' = [Settle(cmd.item, o) EXCEPT !.gids = g]
  <2>1. Settle(cmd.item, o).gids = cmd.gids
    BY <1>1 DEF Settle, Commands
  <2> QED
    BY <2>1 DEF ItemSettles
<1> HIDE DEF o, g
<1>4. cmd' \in Commands /\ Settled1(cmd.item, o, g)
  BY <1>1, <1>2, <1>3, SettleFacts
<1>5. Based
  BY <1>1, <1>2, <1>4, SettledBase
<1> QED
  BY <1>1, <1>4, <1>5 DEF o, g

LEMMA RequestFailsStep ==
  ASSUME BaseInv, RequestFails
  PROVE  /\ Based /\ cmd.phase = "awaiting" /\ cmd.item \in cmd.todo /\ answer' = NoAnswer
         /\ cmd.rpc \in Kind /\ Settled1(cmd.item, Unanswered(cmd.rpc), cmd.gids)
<1>1. /\ cmd.phase = "awaiting" /\ cmd.item \in cmd.todo /\ cmd.item \in Task
      /\ cmd.rpc \in RequestsOf(cmd.op) /\ cmd \in Commands
      /\ SameEngine /\ SameLink /\ answer' = NoAnswer /\ view' = view /\ files' = files /\ wire' = wire
      /\ cmd' = Settle(cmd.item, Unanswered(cmd.rpc))
  BY BaseFacts DEF RequestFails, CommandIsWhole, envVars, SameEngine, SameLink
<1>2. /\ cmd.rpc \in Kind
      /\ Unanswered(cmd.rpc) \in Outcome \ {"none", "filesystem", "notObserved"}
  BY <1>1, RequestsOfKind, UnansweredFacts
<1>3. cmd' \in Commands /\ Settled1(cmd.item, Unanswered(cmd.rpc), cmd.gids)
  BY <1>1, <1>2, PlainSettleFacts
<1> QED
  BY <1>1, <1>2, <1>3, SettledBase

LEMMA BeginStep ==
  ASSUME BaseInv, NEW op \in Operations, NEW S \in (SUBSET Task) \ {{}}, Begin(op, S)
  PROVE  /\ Based /\ cmd.phase = "idle" /\ SameEngine /\ late' = late /\ online' = online
         /\ wire' = wire /\ answer' = answer /\ view' = view /\ files' = files
         /\ \E x \in S : view[x] # "absent"
         /\ cmd'.phase \in {"preflight", "execute"} /\ cmd'.op = op /\ cmd'.targets = S /\ cmd'.todo = S
         /\ cmd'.baseline = Reconciled(op)
         /\ cmd'.original = IF Reconciled(op) THEN view ELSE AbsentAll
         /\ cmd'.context = AbsentAll /\ cmd'.gids = {} /\ cmd'.outcome = [x \in Task |-> "none"]
<1> DEFINE p == IF op = "RemoveWithFiles" THEN "preflight" ELSE "execute"
           v == IF Reconciled(op) THEN view ELSE AbsentAll
           b == Reconciled(op)
<1>1. /\ cmd' = [NoCommand EXCEPT !.phase = p, !.op = op, !.targets = S, !.todo = S,
                                  !.baseline = b, !.original = v]
      /\ cmd.phase = "idle" /\ SameEngine /\ late' = late /\ online' = online /\ same' = online
      /\ wire' = wire /\ answer' = answer /\ view' = view /\ files' = files
  BY DEF Begin, SameEngine
<1>2. /\ p \in {"preflight", "execute"} /\ (p = "preflight" <=> op = "RemoveWithFiles")
      /\ S \subseteq Task /\ \E x \in S : view[x] # "absent"
      /\ (op = "RemoveWithFiles" => \E x \in Task : S = {x})
      /\ b \in BOOLEAN /\ (b => op \in Removals \cup {"Retry"}) /\ v \in [Task -> EngStatus]
      /\ v \in {view, AbsentAll} /\ AbsentAll \in [Task -> EngStatus]
  <2>1. AbsentAll \in [Task -> EngStatus]
    BY DEF AbsentAll, EngStatus
  <2>2. v \in {view, AbsentAll} /\ v \in [Task -> EngStatus]
    BY <2>1, BaseFacts
  <2>3. b \in BOOLEAN /\ (b => op \in Removals \cup {"Retry"})
    <3>1. CASE online /\ op \in Removals \cup {"Retry"}
      <4>1. b = TRUE
        BY <3>1, BaseFacts DEF Reconciled
      <4> QED
        BY <3>1, <4>1
    <3>2. CASE ~(online /\ op \in Removals \cup {"Retry"})
      <4>1. b = FALSE
        BY <3>2, BaseFacts DEF Reconciled
      <4> QED
        BY <4>1
    <3> QED
      BY <3>1, <3>2
  <2>4. /\ S \subseteq Task /\ S # {} /\ S \subseteq {x \in Task : view[x] # "absent"}
        /\ (op = "RemoveWithFiles" => \E x \in S : S = {x})
    BY DEF Begin
  <2>5. p \in {"preflight", "execute"} /\ (p = "preflight" <=> op = "RemoveWithFiles")
    OBVIOUS
  <2> HIDE DEF p, v, b
  <2> QED
    BY <2>1, <2>2, <2>3, <2>4, <2>5
<1> HIDE DEF p, v, b
<1>3. /\ cmd' \in Commands
      /\ cmd'.phase = p /\ cmd'.op = op /\ cmd'.targets = S /\ cmd'.todo = S /\ cmd'.baseline = b
      /\ cmd'.original = v /\ cmd'.context = AbsentAll /\ cmd'.gids = {}
      /\ cmd'.outcome = [x \in Task |-> "none"]
  <2>1. /\ {"preflight", "execute"} \subseteq Phase /\ "none" \in Kind \cup {"none"}
        /\ [x \in Task |-> "none"] \in [Task -> Outcome]
    BY DEF Phase, Outcome
  <2> QED
    BY <1>1, <1>2, <2>1 DEF NoCommand, Commands
<1>4. EngineInv' /\ EngineAdvances
  BY <1>1, BaseFacts, EngineStill DEF SameEngine, engVars
<1>5. SeenInv'
  <2>1. /\ view' \in [Task -> EngStatus] /\ wire' \in Seq(Requests) /\ late' \subseteq Requests
        /\ online' \in BOOLEAN /\ same' \in BOOLEAN
        /\ answer' \in {NoAnswer, "ok", "refused"} \cup Task /\ done' \subseteq Task
        /\ files' \in [Task -> {"present", "trashed"}] /\ source' = source
    BY <1>1, BaseFacts DEF SameEngine
  <2> QED
    BY <1>1, <1>2, <1>3, <1>4, <2>1, BaseFacts, SeenKept
<1>6. CommandIsWhole'
  BY <1>2, <1>3 DEF CommandIsWhole, Original, BeforeSending, Sending
<1> QED
  BY <1>1, <1>2, <1>3, <1>4, <1>5, <1>6 DEF v, b, Based, BaseInv

\* A step of the others leaves the command alone.
LEMMA AloneBase ==
  ASSUME BaseInv, cmd' = cmd, source' = source, files' = files,
         EngineInv', EngineAdvances, online' \in BOOLEAN, same' \in BOOLEAN,
         view' \in [Task -> EngStatus], view' = view \/ StillTrue(view', eng'),
         wire' \in Seq(Requests), late' \subseteq Requests,
         answer' \in {NoAnswer, "ok", "refused"} \cup Task, done' \subseteq Task
  PROVE  Based
<1>1. SeenInv'
  BY BaseFacts, SeenKept
<1>2. CommandIsWhole'
  BY BaseFacts DEF CommandIsWhole, Original, BeforeSending, Sending
<1> QED
  BY <1>1, <1>2 DEF Based, BaseInv

\* Nothing but aria2 and its connections moves.
Alone == cmd' = cmd /\ source' = source /\ files' = files

LEMMA EngineMovesStep ==
  ASSUME BaseInv, NEW x \in Task, EngineMoves(x)
  PROVE  /\ Based /\ Alone /\ SameLink /\ wire' = wire /\ answer' = answer /\ done' = done
         /\ view' = view
         /\ \/ /\ x \in Existing /\ eng[x] = "new" /\ cmd.phase = "idle" /\ view = AbsentAll
               /\ eng' = [eng EXCEPT ![x] = "Active"]
            \/ \E s \in {"Complete", "Error"} : eng[x] = "Active" /\ eng' = [eng EXCEPT ![x] = s]
            \/ x \in Existing /\ eng[x] \in TerminalSt /\ eng' = [eng EXCEPT ![x] = "absent"]
<1>1. /\ Alone /\ SameLink /\ wire' = wire /\ answer' = answer /\ done' = done /\ view' = view
  BY DEF EngineMoves, EngineAlone, Alone, SameLink, linkVars
<1>2. /\ EngineInv /\ online' \in BOOLEAN /\ same' \in BOOLEAN /\ view' \in [Task -> EngStatus]
      /\ wire' \in Seq(Requests) /\ late' \subseteq Requests
      /\ answer' \in {NoAnswer, "ok", "refused"} \cup Task /\ done' \subseteq Task
  BY <1>1, BaseFacts DEF SameLink
<1>3. CASE /\ x \in Existing /\ eng[x] = "new" /\ cmd.phase = "idle" /\ view = AbsentAll
           /\ Become(x, "Active") /\ results' = results
  <2>1. eng' = [eng EXCEPT ![x] = "Active"] /\ eng \in [Task -> EngStatus]
    BY <1>3, BaseFacts DEF Become
  <2>2. /\ eng' \in [Task -> EngStatus] /\ EngineAdvances
        /\ \A y \in Task : eng'[y] \in TerminalSt <=> eng[y] \in TerminalSt
    BY <1>3, <2>1 DEF EngineAdvances, Moves, EngStatus, Live, TerminalSt
  <2>3. EngineInv'
    BY <1>2, <1>3, <2>2 DEF EngineInv, EngineTyped, ResultsAreStopped
  <2>4. Based
    BY <1>1, <1>2, <2>2, <2>3, AloneBase DEF Alone
  <2> QED
    BY <1>1, <1>3, <2>1, <2>4
<1>4. CASE eng[x] = "Active" /\ \E s \in {"Complete", "Error"} : Stop(x, s)
  <2>1. PICK s \in {"Complete", "Error"} : Stop(x, s)
    BY <1>4
  <2>2. EngineInv' /\ EngineAdvances /\ eng' = [eng EXCEPT ![x] = s]
    BY <1>2, <1>4, <2>1, StopFacts DEF Stop, Become, Live, TerminalSt
  <2>3. Based
    BY <1>1, <1>2, <2>2, AloneBase DEF Alone
  <2> QED
    BY <1>1, <1>4, <2>2, <2>3
<1>5. CASE x \in Existing /\ Forget(x)
  <2>1. EngineInv' /\ EngineAdvances /\ eng[x] \in TerminalSt /\ eng' = [eng EXCEPT ![x] = "absent"]
    BY <1>2, <1>5, ForgetFacts
  <2>2. Based
    BY <1>1, <1>2, <2>1, AloneBase DEF Alone
  <2> QED
    BY <1>1, <1>5, <2>1, <2>2
<1> QED
  BY <1>3, <1>4, <1>5 DEF EngineMoves

\* The request at the head of the connection, or a late one, is carried out.
LEMMA EngineServesStep ==
  ASSUME BaseInv, EngineServes
  PROVE  /\ Based /\ Alone /\ SameLink /\ view' = view
         /\ wire # <<>> /\ Head(wire) \in Requests /\ wire' = Tail(wire) /\ cmd.phase # "reported"
         /\ \E a \in {"ok", "refused"} \cup Task :
              /\ Applies(Head(wire), a) /\ Carried(Head(wire), a)
              /\ answer' = IF Len(wire) = 1 /\ cmd.phase = "awaiting" THEN a ELSE NoAnswer
<1>1. PICK a \in {"ok", "refused"} \cup Task :
         /\ Applies(Head(wire), a) /\ Carried(Head(wire), a)
         /\ answer' = IF Len(wire) = 1 /\ cmd.phase = "awaiting" THEN a ELSE NoAnswer
  BY DEF EngineServes
<1>2. /\ Alone /\ SameLink /\ view' = view /\ wire # <<>> /\ wire' = Tail(wire)
      /\ cmd.phase # "reported"
  BY DEF EngineServes, Going, cmdVars, linkVars, Alone, SameLink
<1>3. /\ Head(wire) \in Requests /\ wire' \in Seq(Requests) /\ EngineInv
      /\ online' \in BOOLEAN /\ same' \in BOOLEAN /\ view' \in [Task -> EngStatus] /\ late' \subseteq Requests
      /\ answer' \in {NoAnswer, "ok", "refused"} \cup Task
  BY <1>1, <1>2, BaseFacts DEF SameLink
<1>4. EngineInv' /\ EngineAdvances
  BY <1>1, <1>3, AppliesFacts
<1>5. done' \subseteq Task
  BY <1>1, <1>3, BaseFacts DEF Carried, Requests
<1>6. Based
  BY <1>2, <1>3, <1>4, <1>5, AloneBase DEF Alone
<1> QED
  BY <1>1, <1>2, <1>3, <1>6

LEMMA ServeLateStep ==
  ASSUME BaseInv, ServeLate
  PROVE  /\ Based /\ Alone /\ online' = online /\ same' = same /\ view' = view /\ wire' = wire
         /\ answer' = answer /\ cmd.phase # "reported"
         /\ \E q \in late : /\ q \in Requests /\ late' = late \ {q}
                            /\ \E a \in {"ok", "refused"} \cup Task : Applies(q, a) /\ Carried(q, a)
<1>1. PICK q \in late : /\ late' = late \ {q} /\ cmd.phase # "reported"
                        /\ \E a \in {"ok", "refused"} \cup Task : Applies(q, a) /\ Carried(q, a)
                        /\ UNCHANGED <<cmdVars, linkVars, view, wire, answer, cmd>>
  BY DEF ServeLate, Going
<1>2. PICK a \in {"ok", "refused"} \cup Task : Applies(q, a) /\ Carried(q, a)
  BY <1>1
<1>3. /\ Alone /\ online' = online /\ same' = same /\ view' = view /\ wire' = wire /\ answer' = answer
  BY <1>1 DEF cmdVars, linkVars, Alone
<1>4. /\ q \in Requests /\ wire' \in Seq(Requests) /\ EngineInv
      /\ online' \in BOOLEAN /\ same' \in BOOLEAN /\ view' \in [Task -> EngStatus] /\ late' \subseteq Requests
      /\ answer' \in {NoAnswer, "ok", "refused"} \cup Task
  BY <1>1, <1>3, BaseFacts
<1>5. EngineInv' /\ EngineAdvances
  BY <1>2, <1>4, AppliesFacts
<1>6. done' \subseteq Task
  BY <1>2, <1>4, BaseFacts DEF Carried, Requests
<1>7. Based
  BY <1>3, <1>4, <1>5, <1>6, AloneBase DEF Alone
<1> QED
  BY <1>1, <1>3, <1>4, <1>7

\* The connection and the store.
LEMMA LinkSteps ==
  ASSUME BaseInv, LoseLate \/ Disconnect \/ Reconnect \/ Poll
  PROVE  /\ Based /\ Alone /\ SameEngine
         /\ \/ /\ late' \subseteq late /\ online' = online /\ same' = same /\ wire' = wire
               /\ answer' = answer /\ view' = view
            \/ /\ online /\ ~online' /\ ~same' /\ late' = late \cup {wire[i] : i \in DOMAIN wire}
               /\ wire' = <<>> /\ answer' = NoAnswer /\ view' = view /\ cmd.phase # "reported"
            \/ /\ BeforeSending /\ view' = Snapshot
               /\ late' = late /\ wire' = wire /\ same' = same /\ answer' = answer
<1>1. CASE LoseLate
  <2>1. /\ late' \subseteq late /\ online' = online /\ same' = same /\ wire' = wire /\ answer' = answer
        /\ view' = view /\ Alone /\ SameEngine
    BY <1>1 DEF LoseLate, Alone, SameEngine, cmdVars, engVars, linkVars
  <2>2. /\ EngineInv' /\ EngineAdvances /\ late' \subseteq Requests
    BY <2>1, BaseFacts, EngineStill DEF SameEngine, engVars
  <2>3. Based
    BY <2>1, <2>2, BaseFacts, AloneBase DEF Alone, SameEngine
  <2> QED
    BY <2>1, <2>3
<1>2. CASE Disconnect
  <2>1. /\ online /\ online' = FALSE /\ same' = FALSE /\ late' = late \cup {wire[i] : i \in DOMAIN wire}
        /\ wire' = <<>> /\ answer' = NoAnswer /\ view' = view /\ Alone /\ SameEngine
        /\ cmd.phase # "reported"
    BY <1>2 DEF Disconnect, Going, Alone, SameEngine, cmdVars, engVars, ToSet
  <2>2. /\ EngineInv' /\ EngineAdvances
    BY <2>1, BaseFacts, EngineStill DEF SameEngine, engVars
  <2>4. wire' \in Seq(Requests) /\ late' \subseteq Requests
    BY <2>1, BaseFacts
  <2>3. Based
    BY <2>1, <2>2, <2>4, BaseFacts, AloneBase DEF Alone, SameEngine
  <2> QED
    BY <2>1, <2>3
<1>3. CASE Reconnect \/ Poll
  <2>1. /\ BeforeSending /\ view' = Snapshot /\ late' = late /\ wire' = wire /\ same' = same
        /\ answer' = answer /\ Alone /\ SameEngine /\ online' \in BOOLEAN
    BY <1>3, BaseFacts DEF Reconnect, Poll, CoordinatorIsFree, BeforeSending, Alone, SameEngine, cmdVars,
                           engVars, linkVars
  <2>2. EngineInv' /\ EngineAdvances
    BY <2>1, BaseFacts, EngineStill DEF SameEngine, engVars
  <2>3. view' \in [Task -> EngStatus] /\ StillTrue(view', eng')
    BY <2>1, BaseFacts, SnapshotFacts DEF SameEngine
  <2>4. Based
    BY <2>1, <2>2, <2>3, BaseFacts, AloneBase DEF Alone, SameEngine
  <2> QED
    BY <2>1, <2>4
<1> QED
  BY <1>1, <1>2, <1>3

-----------------------------------------------------------------------------
(***************************************************************************)
(* Types: every step keeps them, and the engine moves on one way.            *)
(***************************************************************************)
LEMMA OpInitBase == OpInit => BaseInv
<1> SUFFICES ASSUME OpInit PROVE BaseInv
  OBVIOUS
<1>1. SeenInv
  BY OpInitSeen
<1>2. CommandIsWhole
  <2>1. /\ cmd = NoCommand /\ cmd.phase = "idle" /\ cmd.op = "none" /\ cmd.todo = {}
        /\ cmd.outcome = [x \in Task |-> "none"] /\ ~cmd.baseline
    BY DEF OpInit, NoCommand
  <2> QED
    BY <2>1 DEF CommandIsWhole, Sending, BeforeSending
<1> QED
  BY <1>1, <1>2 DEF BaseInv

LEMMA OpStutter ==
  ASSUME UNCHANGED opVars
  PROVE  /\ SameEngine /\ SameLink /\ wire' = wire /\ answer' = answer /\ view' = view
         /\ files' = files /\ cmd' = cmd
BY DEF opVars, SameEngine, SameLink

LEMMA BaseStep ==
  ASSUME BaseInv, [OpNext]_opVars
  PROVE  Based
<1>1. CASE UNCHANGED opVars
  <2>1. /\ SameEngine /\ SameLink /\ wire' = wire /\ answer' = answer /\ view' = view
        /\ files' = files /\ cmd' = cmd
    BY <1>1, OpStutter
  <2>2. EngineInv' /\ EngineAdvances
    BY <2>1, BaseFacts, EngineStill DEF SameEngine, engVars
  <2> QED
    BY <2>1, <2>2, BaseFacts, AloneBase DEF SameEngine, SameLink
<1>2. ASSUME NEW x \in Task, EngineMoves(x) \/ SkipItem(x) \/ SendItem(x)
      PROVE  Based
  BY <1>2, EngineMovesStep, SkipItemStep, SendItemStep
<1>3. ASSUME NEW op \in Operations, NEW S \in (SUBSET Task) \ {{}}, Begin(op, S)
      PROVE  Based
  BY <1>3, BeginStep
<1>4. CASE PreflightFails \/ PreflightPasses \/ Trash \/ Execute
  BY <1>4, PreflightFailsStep, PreflightPassesStep, TrashStep, ExecuteStep
<1>5. CASE NextRequestFollows \/ ItemSettles \/ RequestFails \/ ItemsDone
  BY <1>5, NextRequestFollowsStep, ItemSettlesStep, RequestFailsStep, ItemsDoneStep
<1>6. CASE ForcedRefresh \/ ReconcileRemovals \/ ReconcileRetries \/ Report
  BY <1>6, ForcedRefreshStep, ReconcileRemovalsStep, ReconcileRetriesStep, ReportStep
<1>7. CASE EngineServes \/ ServeLate
  BY <1>7, EngineServesStep, ServeLateStep
<1>8. CASE LoseLate \/ Disconnect \/ Reconnect \/ Poll
  BY <1>8, LinkSteps
<1> QED
  BY <1>1, <1>2, <1>3, <1>4, <1>5, <1>6, <1>7, <1>8 DEF OpNext, CommandStep

LEMMA BaseHolds == OpSpec => []BaseInv
<1>1. OpInit => BaseInv
  BY OpInitBase
<1>2. BaseInv /\ [OpNext]_opVars => BaseInv'
  BY BaseStep DEF Based
<1> QED
  BY <1>1, <1>2, PTL DEF OpSpec

\* The variables of a command, of aria2 and of the connections between them
\* have their types.
THEOREM OperationsTypeCorrect == OpSpec => []OpTypeOK
<1>1. BaseInv => OpTypeOK
  BY DEF BaseInv, SeenInv
<1> QED
  BY <1>1, BaseHolds, PTL

-----------------------------------------------------------------------------
(***************************************************************************)
(* Requests are on one connection.                                           *)
(***************************************************************************)
BeforePhases  == {"idle", "preflight", "trashFirst", "execute"}
SendingPhases == {"next", "awaiting", "refreshing", "reconcile"}

\* A phase that moves without a request.
LEMMA LinkMoved ==
  ASSUME BaseInv, LinkInv, NEW p \in Phase \ {"awaiting"}, NEW o \in [Task -> Outcome], NEW c, NEW g,
         Moved(p, o, c, g), cmd.phase # "awaiting",
         p \in BeforePhases => BeforeSending,
         p \notin BeforePhases \cup {"reported"} => ~BeforeSending \/ (online /\ same),
         cmd.phase # "reported",
         p = "reconcile" => Quiet,
         (\E x \in Task : o[x] = "notObserved") =>
           Quiet /\ p \notin SendingPhases /\ p \notin BeforePhases
  PROVE  LinkInv'
<1>1. /\ cmd'.phase = p /\ cmd'.outcome = o /\ wire' = wire /\ late' = late /\ answer' = answer
      /\ done' = done /\ online' = online /\ same' = same
  BY DEF Moved, SameEngine, SameLink
<1> QED
  BY <1>1 DEF LinkInv, Quiet, BeforeSending, Sending, BeforePhases, SendingPhases

LEMMA LinkSettled ==
  ASSUME BaseInv, LinkInv, cmd.phase \in {"next", "awaiting"}, NEW x \in cmd.todo,
         NEW o \in Outcome \ {"notObserved"}, NEW g, Settled1(x, o, g),
         cmd.phase = "awaiting" => answer' = NoAnswer
  PROVE  LinkInv'
<1>1. /\ cmd'.phase = "next" /\ cmd'.outcome = [cmd.outcome EXCEPT ![x] = o] /\ wire' = wire
      /\ late' = late /\ answer' \in {answer, NoAnswer} /\ online' = online /\ same' = same
  BY DEF Settled1, SameLink
<1>2. answer' = NoAnswer
  BY <1>1 DEF LinkInv
<1>3. \A y \in Task : cmd'.outcome[y] # "notObserved"
  BY <1>1, BaseFacts DEF LinkInv, Sending
<1> QED
  BY <1>1, <1>2, <1>3 DEF LinkInv, Quiet, BeforeSending, Sending

LEMMA LinkAsked ==
  ASSUME BaseInv, LinkInv, cmd.phase \in {"next", "awaiting"}, NEW k \in Kind, NEW x \in cmd.todo,
         Asked(k, x), online, cmd.phase = "awaiting" => answer' = NoAnswer
  PROVE  LinkInv'
<1>1. /\ cmd'.phase = "awaiting" /\ cmd'.outcome = cmd.outcome /\ cmd'.rpc = k /\ cmd'.item = x
      /\ wire' = Append(wire, [kind |-> k, task |-> x])
      /\ late' = late /\ answer' \in {answer, NoAnswer} /\ online' = online /\ same' = same
  BY DEF Asked, SameLink
<1>2. answer' = NoAnswer
  BY <1>1 DEF LinkInv
<1>3. \A y \in Task : cmd'.outcome[y] # "notObserved"
  BY <1>1 DEF LinkInv, Sending
<1>4. wire'[Len(wire')] = [kind |-> k, task |-> x]
  BY <1>1, BaseFacts
<1> QED
  BY <1>1, <1>2, <1>3, <1>4 DEF LinkInv, Quiet, BeforeSending, Sending

LEMMA LinkServed ==
  ASSUME BaseInv, LinkInv, EngineServes \/ ServeLate
  PROVE  LinkInv'
<1>1. CASE EngineServes
  <2>1. /\ cmd' = cmd /\ late' = late /\ online' = online /\ same' = same
        /\ wire # <<>> /\ wire' = Tail(wire) /\ wire \in Seq(Requests)
        /\ answer' # NoAnswer => Len(wire) = 1 /\ cmd.phase = "awaiting"
    BY <1>1, EngineServesStep, BaseFacts DEF Alone, SameLink
  <2>2. late = {} /\ ~Quiet /\ online /\ ~BeforeSending /\ cmd.phase # "reconcile"
    BY <2>1 DEF LinkInv, Quiet
  <2>3. Len(wire) = 1 => wire' = <<>>
    BY <2>1
  <2>4. cmd.phase = "awaiting" /\ wire' # <<>> =>
          wire'[Len(wire')] = [kind |-> cmd.rpc, task |-> cmd.item]
    BY <2>1 DEF LinkInv
  <2> QED
    BY <2>1, <2>2, <2>3, <2>4 DEF LinkInv, Quiet, BeforeSending, Sending
<1>2. CASE ServeLate
  <2>1. /\ cmd' = cmd /\ late # {} /\ late' \subseteq late /\ online' = online /\ same' = same
        /\ wire' = wire /\ answer' = answer
    BY <1>2, ServeLateStep DEF Alone
  <2>2. ~Quiet /\ ~online /\ ~BeforeSending /\ cmd.phase # "reconcile" /\ answer = NoAnswer
    BY <2>1 DEF LinkInv, Quiet
  <2> QED
    BY <2>1, <2>2 DEF LinkInv, Quiet, BeforeSending, Sending
<1> QED
  BY <1>1, <1>2

LEMMA LinkLinks ==
  ASSUME BaseInv, LinkInv, LoseLate \/ Disconnect \/ Reconnect \/ Poll
  PROVE  LinkInv'
<1>1. cmd' = cmd /\ done' = done /\ wire \in Seq(Requests)
  BY LinkSteps, BaseFacts DEF Alone, SameEngine
<1>2. CASE /\ late' \subseteq late /\ online' = online /\ same' = same /\ wire' = wire
           /\ answer' = answer
  BY <1>1, <1>2 DEF LinkInv, Quiet, BeforeSending, Sending
<1>3. CASE /\ online /\ ~online' /\ ~same' /\ late' = late \cup {wire[i] : i \in DOMAIN wire}
           /\ wire' = <<>> /\ answer' = NoAnswer
  <2>1. wire = <<>> => late' = late
    BY <1>1, <1>3
  <2> QED
    BY <1>1, <1>3, <2>1 DEF LinkInv, Quiet, BeforeSending, Sending
<1>4. CASE BeforeSending /\ late' = late /\ wire' = wire /\ same' = same /\ answer' = answer
  BY <1>1, <1>4 DEF LinkInv, Quiet, BeforeSending, Sending
<1> QED
  BY <1>2, <1>3, <1>4, LinkSteps

LEMMA LinkStep ==
  ASSUME BaseInv, LinkInv, [OpNext]_opVars
  PROVE  LinkInv'
<1>0. cmd.outcome \in [Task -> Outcome] /\ cmd.phase \in Phase
  BY BaseFacts
<1>1. CASE UNCHANGED opVars
  BY <1>1, OpStutter DEF SameEngine, SameLink, LinkInv, Quiet, BeforeSending, Sending
<1>2. ASSUME NEW x \in Task, EngineMoves(x)
      PROVE  LinkInv'
  BY <1>2, EngineMovesStep DEF Alone, SameLink, LinkInv, Quiet, BeforeSending, Sending
<1>3. ASSUME NEW op \in Operations, NEW S \in (SUBSET Task) \ {{}}, Begin(op, S)
      PROVE  LinkInv'
  <2>1. /\ cmd'.phase \in {"preflight", "execute"} /\ cmd'.outcome = [x \in Task |-> "none"]
        /\ cmd.phase = "idle" /\ wire' = wire /\ late' = late /\ answer' = answer /\ done' = done
        /\ online' = online
    BY <1>3, BeginStep DEF SameEngine
  <2> QED
    BY <2>1 DEF LinkInv, Quiet, BeforeSending, Sending
<1>4. CASE PreflightFails
  <2>1. \A x \in Task : FailAll(cmd.targets, "failed")[x] = "notObserved"
                          => cmd.outcome[x] = "notObserved"
    BY FailAllFacts DEF Outcome
  <2>2. FailAll(cmd.targets, "failed") \in [Task -> Outcome] /\ "reported" \in Phase
    BY FailAllFacts DEF Outcome, Phase
  <2> QED
    BY <1>4, <2>1, <2>2, PreflightFailsStep, LinkMoved
    DEF LinkInv, BeforePhases, SendingPhases, BeforeSending
<1>5. CASE PreflightPasses
  <2>1. PICK p \in {"trashFirst", "execute"} :
          cmd.phase = "preflight" /\ Moved(p, cmd.outcome, cmd.context, cmd.gids)
    BY <1>5, PreflightPassesStep
  <2> QED
    BY <1>0, <2>1, LinkMoved DEF LinkInv, BeforePhases, SendingPhases, BeforeSending, Sending, Phase
<1>6. CASE Trash
  <2>1. cmd.phase \in {"trashFirst", "trashAfter"}
    BY <1>6, TrashStep
  <2>2. CASE Moved(IF cmd.phase = "trashFirst" THEN "execute" ELSE "reported",
                   cmd.outcome, cmd.context, cmd.gids)
    <3>1. PICK p \in {"execute", "reported"} :
            /\ p = "execute" <=> cmd.phase = "trashFirst"
            /\ Moved(p, cmd.outcome, cmd.context, cmd.gids)
      BY <2>1, <2>2
    <3> QED
      BY <1>0, <2>1, <3>1, LinkMoved DEF LinkInv, BeforePhases, SendingPhases, BeforeSending, Sending, Phase
  <2>3. CASE Moved("reported", FailAll(cmd.targets, "filesystem"), cmd.context, cmd.gids)
    <3>1. \A x \in Task : FailAll(cmd.targets, "filesystem")[x] = "notObserved"
                            => cmd.outcome[x] = "notObserved"
      BY FailAllFacts DEF Outcome
    <3>2. FailAll(cmd.targets, "filesystem") \in [Task -> Outcome] /\ "reported" \in Phase
      BY FailAllFacts DEF Outcome, Phase
    <3> QED
      BY <2>1, <2>3, <3>1, <3>2, LinkMoved
      DEF LinkInv, BeforePhases, SendingPhases, BeforeSending, Sending
  <2> QED
    BY <1>6, <2>2, <2>3, TrashStep
<1>7. CASE Execute
  <2>1. cmd.phase = "execute"
    BY <1>7, ExecuteStep
  <2>2. \A x \in Task : cmd.outcome[x] # "notObserved"
    BY <2>1 DEF LinkInv, BeforeSending
  <2>3. CASE online /\ same /\ Moved("next", cmd.outcome, view, cmd.gids)
    BY <1>0, <2>1, <2>2, <2>3, LinkMoved DEF BeforePhases, SendingPhases, Phase
  <2>4. CASE Moved("reported", FailAll(cmd.targets, "failed"), cmd.context, cmd.gids)
    <3>1. \A x \in Task : FailAll(cmd.targets, "failed")[x] # "notObserved"
      BY <2>2, FailAllFacts DEF Outcome
    <3>2. FailAll(cmd.targets, "failed") \in [Task -> Outcome] /\ "reported" \in Phase
      BY FailAllFacts DEF Outcome, Phase
    <3> QED
      BY <2>1, <2>4, <3>1, <3>2, LinkMoved DEF BeforePhases, SendingPhases
  <2> QED
    BY <1>7, <2>3, <2>4, ExecuteStep
<1>8. ASSUME NEW x \in Task, SkipItem(x) \/ SendItem(x)
      PROVE  LinkInv'
  <2>1. cmd.phase = "next" /\ x \in cmd.todo
    BY <1>8, SkipItemStep, SendItemStep
  <2>2. CASE \E o \in Outcome \ {"notObserved"} : Settled1(x, o, cmd.gids)
    BY <2>1, <2>2, LinkSettled
  <2>3. CASE online /\ \E k \in Kind : Asked(k, x)
    BY <2>1, <2>3, LinkAsked
  <2>4. \/ \E o \in Outcome \ {"notObserved"} : Settled1(x, o, cmd.gids)
        \/ online /\ \E k \in Kind : Asked(k, x)
    <3>1. CASE SkipItem(x)
      BY <3>1, SkipItemStep DEF Outcome
    <3>2. CASE SendItem(x)
      <4>1. PICK k \in RequestsOf(cmd.op) :
               \/ online /\ Asked(k, x)
               \/ ~online /\ Settled1(x, Unanswered(k), cmd.gids)
        BY <3>2, SendItemStep
      <4>2. k \in Kind
        BY RequestsOfKind
      <4>3. Unanswered(k) \in Outcome \ {"notObserved"}
        BY <4>2, UnansweredFacts
      <4> QED
        BY <4>1, <4>2, <4>3
    <3> QED
      BY <1>8, <3>1, <3>2
  <2> QED
    BY <2>2, <2>3, <2>4
<1>9. CASE NextRequestFollows
  <2>1. /\ cmd.phase = "awaiting" /\ answer # NoAnswer /\ answer' = NoAnswer
        /\ Asked(NextRequest, cmd.item) /\ NextRequest \in Kind /\ cmd.item \in cmd.todo
    BY <1>9, NextRequestFollowsStep, RequestsOfKind, BaseFacts DEF CommandIsWhole
  <2> QED
    BY <2>1, LinkAsked DEF LinkInv
<1>10. CASE ItemSettles
  <2>1. PICK o \in {"rejected", "ok"}, g \in SUBSET Task \cup {cmd.gids \cup {answer}} :
          /\ cmd.phase = "awaiting" /\ answer' = NoAnswer /\ cmd.item \in cmd.todo
          /\ Settled1(cmd.item, o, g)
    BY <1>10, ItemSettlesStep, BaseFacts
  <2> QED
    BY <2>1, LinkSettled DEF Outcome
<1>11. CASE RequestFails
  <2>1. /\ cmd.phase = "awaiting" /\ answer' = NoAnswer /\ cmd.item \in cmd.todo
        /\ Settled1(cmd.item, Unanswered(cmd.rpc), cmd.gids)
        /\ Unanswered(cmd.rpc) \in Outcome \ {"notObserved"}
    BY <1>11, RequestFailsStep, UnansweredFacts
  <2> QED
    BY <2>1, LinkSettled
<1>12. CASE ItemsDone
  <2>1. PICK p \in {"refreshing", "executed"} :
          cmd.phase = "next" /\ Moved(p, cmd.outcome, AbsentAll, cmd.gids)
    BY <1>12, ItemsDoneStep
  <2> QED
    BY <1>0, <2>1, LinkMoved DEF LinkInv, BeforePhases, BeforeSending, Sending, Phase
<1>13. CASE ForcedRefresh
  <2>1. PICK p \in {"reconcile", "executed"} :
          /\ cmd.phase = "refreshing" /\ Moved(p, cmd.outcome, cmd.context, cmd.gids)
          /\ p = "reconcile" => online /\ wire = <<>>
    BY <1>13, ForcedRefreshStep
  <2>2. p = "reconcile" => Quiet
    BY <2>1 DEF LinkInv, Quiet
  <2> QED
    BY <1>0, <2>1, <2>2, LinkMoved DEF LinkInv, BeforePhases, BeforeSending, Sending, Phase
<1>14. CASE ReconcileRemovals \/ ReconcileRetries
  <2>1. PICK o \in [Task -> Outcome] :
          cmd.phase = "reconcile" /\ \E g : Moved("executed", o, cmd.context, g)
    <3>1. RemovalsReconciled \in [Task -> Outcome]
      BY <1>0 DEF RemovalsReconciled, Outcome
    <3>2. \A m \in Matchings : RetriesReconciled(m) \in [Task -> Outcome]
      BY <1>0 DEF RetriesReconciled, Outcome
    <3> QED
      BY <1>14, <3>1, <3>2, ReconcileRemovalsStep, ReconcileRetriesStep
  <2> QED
    BY <2>1, LinkMoved DEF LinkInv, BeforePhases, SendingPhases, BeforeSending, Phase
<1>15. CASE Report
  <2>1. PICK p \in {"reported", "trashAfter"} :
          cmd.phase = "executed" /\ Moved(p, cmd.outcome, cmd.context, cmd.gids)
    BY <1>15, ReportStep
  <2> QED
    BY <1>0, <2>1, LinkMoved DEF LinkInv, BeforePhases, SendingPhases, BeforeSending, Phase
<1> QED
  BY <1>1, <1>2, <1>3, <1>4, <1>5, <1>6, <1>7, <1>8, <1>9, <1>10, <1>11, <1>12, <1>13, <1>14, <1>15,
     LinkServed, LinkLinks DEF OpNext, CommandStep

-----------------------------------------------------------------------------
(***************************************************************************)
(* What is under way, and what an answer says of it.                         *)
(***************************************************************************)
WorkInv == BaseInv /\ LinkInv /\ PendingInv /\ AnswerInv

LEMMA PendingMoved ==
  ASSUME WorkInv, NEW p \in Phase \ {"awaiting"}, NEW o \in [Task -> Outcome], NEW c, NEW g,
         Moved(p, o, c, g), cmd.phase # "awaiting",
         Quiet \/ \A x \in Task : cmd.outcome[x] = "unknown" => o[x] = "unknown",
         p \in SendingPhases => Sending \/ done = {},
         p \in SendingPhases \cup BeforePhases => (Sending \/ BeforeSending) /\ g = cmd.gids,
         p = "trashAfter" => \A x \in cmd.targets : o[x] = "ok"
  PROVE  PendingInv' /\ AnswerInv'
<1>1. /\ cmd'.phase = p /\ cmd'.outcome = o /\ cmd'.gids = g /\ cmd'.todo = cmd.todo
      /\ cmd'.op = cmd.op /\ cmd'.targets = cmd.targets
      /\ wire' = wire /\ late' = late /\ answer' = answer /\ done' = done /\ eng' = eng
  BY DEF Moved, SameCommand, SameEngine, SameLink
<1>2. answer = NoAnswer /\ \A x : ~Awaited(x) /\ ~Awaited(x)'
  BY <1>1 DEF WorkInv, LinkInv, Awaited
<1>3. AnswerInv'
  BY <1>1, <1>2, AnswersDiffer
  DEF WorkInv, AnswerInv, Started, Sending, BeforeSending, SendingPhases, BeforePhases
<1>4. /\ \A i \in DOMAIN wire : wire[i] \in Requests
      /\ \A q \in late : q \in Requests
  BY BaseFacts DEF WorkInv
<1>5. ASSUME NEW q \in Requests, UnderWay(q.task), ~Quiet
      PROVE  UnderWay(q.task)'
  BY <1>1, <1>2, <1>5 DEF UnderWay, Requests
<1>6. Quiet => wire = <<>> /\ late = {}
  BY DEF Quiet
<1>7. /\ \A i \in DOMAIN wire' : wire'[i].kind \in Mutations => UnderWay(wire[i].task)'
      /\ \A q \in late' : q.kind \in Mutations => UnderWay(q.task)'
  BY <1>1, <1>4, <1>5, <1>6 DEF WorkInv, PendingInv
<1>8. /\ Sending' => \A x \in (cmd.todo \cap done)' : Awaited(x)'
      /\ cmd'.phase = "trashAfter" => \A x \in cmd'.targets : cmd'.outcome[x] = "ok"
  BY <1>1, <1>2 DEF WorkInv, PendingInv, Sending, SendingPhases
<1>9. PendingInv'
  BY <1>1, <1>2, <1>7, <1>8 DEF WorkInv, PendingInv
<1> QED
  BY <1>3, <1>9

LEMMA PendingSettled ==
  ASSUME WorkInv, cmd.phase \in {"next", "awaiting"}, NEW x \in cmd.todo,
         NEW o \in Outcome, NEW g, Settled1(x, o, g),
         cmd.phase = "awaiting" => x = cmd.item /\ answer' = NoAnswer,
         Awaited(x) => Quiet \/ o = "unknown", g \subseteq Started
  PROVE  PendingInv' /\ AnswerInv'
<1>1. /\ cmd'.phase = "next" /\ cmd'.gids = g /\ cmd'.todo = cmd.todo \ {x}
      /\ cmd'.op = cmd.op /\ cmd'.targets = cmd.targets
      /\ wire' = wire /\ late' = late /\ answer' \in {answer, NoAnswer} /\ done' = done /\ eng' = eng
      /\ cmd'.outcome[x] = o /\ \A y \in Task \ {x} : cmd'.outcome[y] = cmd.outcome[y]
  BY BaseFacts DEF Settled1, SameCommand, SameEngine, SameLink, WorkInv
<1>2. answer' = NoAnswer /\ (\A y : ~Awaited(y)') /\ (\A y : Awaited(y) => y = x)
  BY <1>1 DEF WorkInv, LinkInv, Awaited
<1>3. AnswerInv'
  BY <1>1, <1>2, AnswersDiffer DEF AnswerInv, Started
<1>4. /\ \A i \in DOMAIN wire : wire[i] \in Requests
      /\ \A q \in late : q \in Requests
      /\ cmd.outcome[x] = "none" /\ x \in Task
  BY BaseFacts DEF WorkInv, CommandIsWhole, Sending
<1>5. ASSUME NEW q \in Requests, UnderWay(q.task), ~Quiet
      PROVE  UnderWay(q.task)'
  BY <1>1, <1>2, <1>4, <1>5 DEF UnderWay, Requests
<1>6. Quiet => wire = <<>> /\ late = {}
  BY DEF Quiet
<1>7. /\ \A i \in DOMAIN wire' : wire'[i].kind \in Mutations => UnderWay(wire[i].task)'
      /\ \A q \in late' : q.kind \in Mutations => UnderWay(q.task)'
  BY <1>1, <1>4, <1>5, <1>6 DEF WorkInv, PendingInv
<1>8. \A y \in (cmd.todo \cap done)' : Awaited(y)'
  BY <1>1, <1>2 DEF WorkInv, PendingInv, Sending
<1>9. PendingInv'
  BY <1>1, <1>2, <1>7, <1>8 DEF WorkInv, PendingInv
<1> QED
  BY <1>3, <1>9

LEMMA PendingAsked ==
  ASSUME WorkInv, cmd.phase \in {"next", "awaiting"}, NEW x \in cmd.todo,
         NEW k \in RequestsOf(cmd.op), Asked(k, x), online,
         cmd.phase = "awaiting" => /\ x = cmd.item /\ answer # NoAnswer /\ answer' = NoAnswer
                                   /\ k \in Mutations /\ x \notin done
  PROVE  PendingInv' /\ AnswerInv'
<1> DEFINE r == [kind |-> k, task |-> x]
           n == Len(wire) + 1
<1>1. /\ cmd'.phase = "awaiting" /\ cmd'.gids = cmd.gids /\ cmd'.todo = cmd.todo
      /\ cmd'.op = cmd.op /\ cmd'.targets = cmd.targets /\ cmd'.outcome = cmd.outcome
      /\ cmd'.item = x /\ cmd'.rpc = k
      /\ wire' = Append(wire, r) /\ late' = late /\ answer' \in {answer, NoAnswer}
      /\ done' = done /\ eng' = eng
  BY DEF Asked, SameCommand, SameEngine, SameLink
<1>2. /\ answer' = NoAnswer /\ (\A y : Awaited(y)' <=> y = x /\ k \in Mutations)
      /\ (\A y : Awaited(y) => y = x) /\ (cmd.phase = "awaiting" => Quiet) /\ late = {}
      /\ cmd.phase = "next" => \A y : ~Awaited(y)
  BY <1>1 DEF WorkInv, LinkInv, Awaited
<1>3. AnswerInv'
  BY <1>1, <1>2, AnswersDiffer DEF AnswerInv, Started, Sending, WorkInv
<1>4. /\ cmd.outcome[x] = "none" /\ x \in Task /\ x \in cmd.targets
      /\ wire \in Seq(Requests) /\ r \in Requests
  BY BaseFacts, RequestsOfKind DEF WorkInv, CommandIsWhole, Sending, Requests
<1>5. /\ DOMAIN wire' = DOMAIN wire \cup {n} /\ n \notin DOMAIN wire /\ Len(wire') = n
      /\ wire'[n] = r /\ \A i \in DOMAIN wire : wire'[i] = wire[i] /\ wire[i] \in Requests
      /\ wire = <<>> => DOMAIN wire = {}
  BY <1>1, <1>4
<1>6. x \notin done
  <2>1. CASE cmd.phase = "next"
    BY <1>2, <2>1 DEF WorkInv, PendingInv, Sending
  <2> QED
    BY <2>1
<1>7. ASSUME NEW i \in DOMAIN wire, wire[i].kind \in Mutations
      PROVE  UnderWay(wire[i].task)' /\ wire[i].task # x
  <2>1. cmd.phase = "next" /\ UnderWay(wire[i].task)
    BY <1>2, <1>5, <1>7 DEF WorkInv, PendingInv, Quiet
  <2>2. wire[i].task # x /\ cmd.outcome[wire[i].task] = "unknown"
    BY <1>2, <1>4, <2>1 DEF UnderWay
  <2> QED
    BY <1>1, <1>5, <2>1, <2>2 DEF UnderWay
<1>8. k \in Mutations => UnderWay(x)'
  BY <1>1, <1>2, <1>4, <1>6 DEF UnderWay
<1> r.kind = k /\ r.task = x
  OBVIOUS
<1> HIDE DEF r, n
<1>9. /\ \A i \in DOMAIN wire' : wire'[i].kind \in Mutations =>
           UnderWay(wire[i].task)' /\ (Awaited(wire[i].task)' => i = Len(wire'))
      /\ \A i, j \in DOMAIN wire' : wire'[i].kind \in Mutations /\ wire'[j].kind \in Mutations
           /\ wire'[i].task = wire'[j].task => i = j
      /\ \A i \in DOMAIN wire' : wire'[i].kind \in RequestsOf(cmd.op)
  BY <1>2, <1>5, <1>7, <1>8 DEF WorkInv, PendingInv
<1>10. \A y \in (cmd.todo \cap done)' : Awaited(y)'
  <2>1. CASE cmd.phase = "next"
    BY <1>1, <1>2, <2>1 DEF WorkInv, PendingInv, Sending
  <2>2. CASE cmd.phase = "awaiting"
    BY <1>1, <1>2, <2>2 DEF WorkInv, PendingInv, Sending
  <2> QED
    BY <2>1, <2>2
<1>11. PendingInv'
  BY <1>1, <1>2, <1>9, <1>10 DEF PendingInv
<1> QED
  BY <1>3, <1>11

\* A request that is carried out was under way, and no other is for its task.
LEMMA PendingServes ==
  ASSUME WorkInv, EngineServes
  PROVE  PendingInv' /\ AnswerInv'
<1> DEFINE h == Head(wire)
<1>1. PICK a \in {"ok", "refused"} \cup Task :
        /\ Applies(h, a) /\ Carried(h, a)
        /\ answer' = IF Len(wire) = 1 /\ cmd.phase = "awaiting" THEN a ELSE NoAnswer
  BY EngineServesStep DEF WorkInv
<1>2. /\ cmd' = cmd /\ source' = source /\ late' = late /\ wire \in Seq(Requests)
      /\ wire # <<>> /\ wire' = Tail(wire) /\ h \in Requests /\ EngineInv /\ done \subseteq Task
      /\ EngineAdvances /\ cmd \in Commands
  BY EngineServesStep, BaseFacts DEF WorkInv, Alone, SameLink, Based
<1>3. /\ h = wire[1] /\ 1 \in DOMAIN wire /\ late = {} /\ ~BeforeSending
      /\ \A i \in DOMAIN wire' : i + 1 \in DOMAIN wire /\ wire'[i] = wire[i + 1] /\ i + 1 # 1
                                 /\ wire[i + 1] \in Requests
      /\ Len(wire') + 1 = Len(wire) /\ DOMAIN wire' \subseteq Nat
  BY <1>2 DEF WorkInv, LinkInv, Quiet
<1>4. done' = IF a # "refused" /\ h.kind \in Mutations THEN done \cup {h.task} ELSE done
  BY <1>1 DEF Carried
<1>5. /\ a = "ok" => h.kind # "add"
      /\ a \in Task => /\ h.kind = "add" /\ a \notin Existing /\ eng[a] = "new"
                       /\ source[a] = source[h.task] /\ eng' = [eng EXCEPT ![a] = "Active"]
  <2>1. /\ a = "ok" => h.kind # "add"
        /\ a \in Task => h.kind = "add"
        /\ a # "refused" /\ h.kind = "add" =>
             /\ a \in Task \ Existing /\ eng[a] = "new" /\ source[a] = source[h.task]
             /\ eng' = [eng EXCEPT ![a] = "Active"]
    BY <1>1, <1>2, AppliesFacts
  <2> QED
    BY <2>1, AnswersDiffer
<1> HIDE DEF h
<1>6. h.kind \in Mutations => UnderWay(h.task) /\ h.task \in Task
  BY <1>2, <1>3 DEF WorkInv, PendingInv, Requests
<1>7. ASSUME NEW i \in DOMAIN wire', wire'[i].kind \in Mutations
      PROVE  UnderWay(wire[i].task)' /\ (Awaited(wire[i].task)' => i = Len(wire'))
  <2>1. /\ UnderWay(wire[i + 1].task) /\ (Awaited(wire[i + 1].task) => i + 1 = Len(wire))
        /\ wire[i + 1].task # h.task \/ h.kind \notin Mutations
    BY <1>3, <1>7 DEF WorkInv, PendingInv
  <2> QED
    BY <1>2, <1>3, <1>4, <2>1 DEF UnderWay, Awaited
<1>8. \A i, j \in DOMAIN wire' : wire'[i].kind \in Mutations /\ wire'[j].kind \in Mutations
           /\ wire'[i].task = wire'[j].task => i = j
  BY <1>3 DEF WorkInv, PendingInv
<1>9. \A i \in DOMAIN wire' : wire'[i].kind \in RequestsOf(cmd.op)
  BY <1>3 DEF WorkInv, PendingInv
<1>10. Sending' => \A y \in (cmd.todo \cap done)' : Awaited(y)'
  <2>1. \A y : Awaited(y)' <=> Awaited(y)
    BY <1>2 DEF Awaited
  <2>2. h.kind \in Mutations /\ Sending /\ h.task \in cmd.todo => Awaited(h.task)
    BY <1>6 DEF UnderWay, WorkInv, BaseInv, CommandIsWhole
  <2> QED
    BY <1>2, <1>4, <2>1, <2>2 DEF WorkInv, PendingInv, Sending
<1>11. PendingInv'
  BY <1>2, <1>3, <1>7, <1>8, <1>9, <1>10 DEF WorkInv, PendingInv
<1>12. Started \subseteq Started'
  BY <1>2 DEF Started, EngineAdvances, Moves, EngineInv, EngineTyped, Live, TerminalSt
<1>13. CASE Len(wire) = 1 /\ cmd.phase = "awaiting"
  <2>1. answer' = a /\ h = [kind |-> cmd.rpc, task |-> cmd.item] /\ cmd.item \in cmd.todo
    BY <1>1, <1>2, <1>3, <1>13 DEF WorkInv, LinkInv, BaseInv, CommandIsWhole
  <2>2. h.kind = cmd.rpc /\ h.task = cmd.item
    BY <2>1
  <2>3. cmd.item \in done => FALSE
    <3>1. cmd.rpc \in Mutations => cmd.item \notin done
      BY <1>6, <2>2 DEF UnderWay
    <3>2. cmd.item \in done => Awaited(cmd.item)
      BY <1>13, <2>1 DEF WorkInv, PendingInv, Sending
    <3> QED
      BY <3>1, <3>2 DEF Awaited
  <2>4. a = "refused" => cmd.item \notin done'
    BY <1>4, <2>3
  <2>5. a \in Task \cup {"ok"} /\ cmd.rpc \in Mutations => cmd.item \in done'
    BY <1>4, <2>2, AnswersDiffer
  <2>6. a \in Task => /\ cmd.rpc = "add" /\ a \in Task \ (Existing \cup cmd.gids)
                      /\ eng'[a] # "new" /\ source[a] = source[cmd.item]
    <3> SUFFICES ASSUME a \in Task
                 PROVE  /\ cmd.rpc = "add" /\ a \in Task \ (Existing \cup cmd.gids)
                        /\ eng'[a] # "new" /\ source[a] = source[cmd.item]
      OBVIOUS
    <3>1. cmd.gids \subseteq Started
      BY <1>13 DEF WorkInv, AnswerInv, Sending
    <3> QED
      BY <1>2, <1>5, <2>2, <3>1 DEF Started, EngineInv, EngineTyped
  <2> QED
    BY <1>2, <1>5, <1>11, <1>12, <2>1, <2>2, <2>4, <2>5, <2>6 DEF WorkInv, AnswerInv, Sending, BeforeSending
<1>14. CASE ~(Len(wire) = 1 /\ cmd.phase = "awaiting")
  <2>1. answer' = NoAnswer
    BY <1>1, <1>14
  <2> QED
    BY <1>2, <1>11, <1>12, <2>1, AnswersDiffer DEF WorkInv, AnswerInv, Sending, BeforeSending
<1> QED
  BY <1>11, <1>13, <1>14

LEMMA PendingServesLate ==
  ASSUME WorkInv, ServeLate
  PROVE  PendingInv' /\ AnswerInv'
<1>1. PICK q \in late : /\ q \in Requests /\ late' = late \ {q}
                        /\ \E a \in {"ok", "refused"} \cup Task : Applies(q, a) /\ Carried(q, a)
  BY ServeLateStep DEF WorkInv
<1>2. /\ cmd' = cmd /\ wire' = wire /\ answer' = answer /\ EngineInv /\ EngineAdvances
      /\ \A p \in late : p \in Requests
  BY ServeLateStep, BaseFacts DEF WorkInv, Alone, Based
<1>3. wire = <<>> /\ answer = NoAnswer /\ DOMAIN wire = {}
  BY <1>1 DEF WorkInv, LinkInv, Quiet
<1>4. done' \in {done} \cup {done \cup {t} : t \in {q.task}} /\ (done' # done => q.kind \in Mutations)
  BY <1>1 DEF Carried
<1>5. q.kind \in Mutations => UnderWay(q.task)
  BY <1>1 DEF WorkInv, PendingInv
<1>6. ASSUME NEW p \in late', p.kind \in Mutations
      PROVE  UnderWay(p.task)'
  <2>1. UnderWay(p.task) /\ (p.task # q.task \/ q.kind \notin Mutations)
    BY <1>1, <1>6 DEF WorkInv, PendingInv
  <2> QED
    BY <1>2, <1>4, <2>1 DEF UnderWay, Awaited
<1>7. Sending' => \A y \in (cmd.todo \cap done)' : Awaited(y)'
  <2>1. \A y : Awaited(y)' <=> Awaited(y)
    BY <1>2 DEF Awaited
  <2>2. q.kind \in Mutations /\ Sending /\ q.task \in cmd.todo => Awaited(q.task)
    BY <1>5 DEF UnderWay, WorkInv, BaseInv, CommandIsWhole
  <2> QED
    BY <1>2, <1>4, <2>1, <2>2 DEF WorkInv, PendingInv, Sending
<1>8. PendingInv'
  BY <1>1, <1>2, <1>3, <1>6, <1>7 DEF WorkInv, PendingInv
<1>9. Started \subseteq Started'
  BY <1>2 DEF Started, EngineAdvances, Moves, EngineInv, EngineTyped, Live, TerminalSt
<1>10. AnswerInv'
  BY <1>2, <1>3, <1>9, AnswersDiffer DEF WorkInv, AnswerInv, Sending, BeforeSending
<1> QED
  BY <1>8, <1>10

LEMMA PendingLinks ==
  ASSUME WorkInv, LoseLate \/ Disconnect \/ Reconnect \/ Poll
  PROVE  PendingInv' /\ AnswerInv'
<1>1. /\ cmd' = cmd /\ done' = done /\ eng' = eng /\ source' = source /\ wire \in Seq(Requests)
      /\ \A i \in DOMAIN wire : wire[i] \in Requests
      /\ \A x : /\ UnderWay(x)' <=> UnderWay(x)
                /\ Awaited(x)' <=> Awaited(x)
  BY LinkSteps, BaseFacts DEF Alone, SameEngine, WorkInv, UnderWay, Awaited
<1>2. CASE late' \subseteq late /\ wire' = wire /\ answer' = answer
  BY <1>1, <1>2 DEF WorkInv, PendingInv, AnswerInv, Started, Sending, BeforeSending
<1>3. CASE /\ online /\ late' = late \cup {wire[i] : i \in DOMAIN wire}
           /\ wire' = <<>> /\ answer' = NoAnswer
  <2>1. late' = {wire[i] : i \in DOMAIN wire} /\ DOMAIN wire' = {}
    BY <1>3 DEF WorkInv, LinkInv
  <2>2. PendingInv'
    BY <1>1, <2>1 DEF WorkInv, PendingInv, Sending
  <2>3. AnswerInv'
    BY <1>1, <1>3, AnswersDiffer DEF WorkInv, AnswerInv, Started, Sending, BeforeSending
  <2> QED
    BY <2>2, <2>3
<1> QED
  BY <1>2, <1>3, LinkSteps DEF WorkInv

LEMMA PendingStep ==
  ASSUME WorkInv, [OpNext]_opVars
  PROVE  PendingInv' /\ AnswerInv'
<1>0. /\ cmd.outcome \in [Task -> Outcome] /\ cmd.phase \in Phase
      /\ BaseInv /\ LinkInv /\ PendingInv /\ AnswerInv
  BY BaseFacts DEF WorkInv
<1>1. CASE UNCHANGED opVars
  <2>1. /\ SameEngine /\ SameLink /\ wire' = wire /\ answer' = answer /\ cmd' = cmd
        /\ \A x : /\ UnderWay(x)' <=> UnderWay(x)
                  /\ Awaited(x)' <=> Awaited(x)
    BY <1>1, OpStutter DEF SameEngine, UnderWay, Awaited
  <2> QED
    BY <1>0, <2>1 DEF SameEngine, SameLink, PendingInv, AnswerInv, Started, Sending, BeforeSending
<1>2. ASSUME NEW x \in Task, EngineMoves(x)
      PROVE  PendingInv' /\ AnswerInv'
  <2>1. /\ SameLink /\ wire' = wire /\ answer' = answer /\ cmd' = cmd /\ done' = done /\ source' = source
        /\ EngineAdvances /\ EngineInv
    BY <1>0, <1>2, EngineMovesStep, BaseFacts DEF Alone, Based
  <2>2. \A y : /\ UnderWay(y)' <=> UnderWay(y)
               /\ Awaited(y)' <=> Awaited(y)
    BY <2>1 DEF UnderWay, Awaited
  <2>3. \A y \in Task : eng[y] # "new" => eng'[y] # "new"
    BY <2>1 DEF EngineAdvances, Moves, EngineInv, EngineTyped, Live, TerminalSt
  <2>4. Started \subseteq Started'
    BY <2>3 DEF Started
  <2> QED
    BY <1>0, <2>1, <2>2, <2>3, <2>4 DEF SameLink, PendingInv, AnswerInv, Sending, BeforeSending
<1>3. ASSUME NEW op \in Operations, NEW S \in (SUBSET Task) \ {{}}, Begin(op, S)
      PROVE  PendingInv' /\ AnswerInv'
  <2>1. /\ cmd'.phase \in {"preflight", "execute"} /\ cmd'.gids = {}
        /\ cmd.phase = "idle" /\ wire' = wire /\ late' = late /\ answer' = answer
    BY <1>0, <1>3, BeginStep
  <2>2. wire' = <<>> /\ late' = {} /\ answer' = NoAnswer
    BY <1>0, <2>1 DEF LinkInv, BeforeSending, Quiet
  <2> QED
    BY <2>1, <2>2, AnswersDiffer DEF PendingInv, AnswerInv, Sending, BeforeSending
<1>4. CASE PreflightFails
  <2>1. FailAll(cmd.targets, "failed") \in [Task -> Outcome] /\ "reported" \in Phase
    BY <1>0, FailAllFacts DEF Outcome, Phase
  <2>2. cmd.phase = "preflight" /\ Moved("reported", FailAll(cmd.targets, "failed"), cmd.context, cmd.gids)
    BY <1>0, <1>4, PreflightFailsStep
  <2>3. Quiet
    BY <1>0, <2>2 DEF LinkInv, BeforeSending
  <2> QED
    BY <2>1, <2>2, <2>3, PendingMoved DEF BeforePhases, SendingPhases
<1>5. CASE PreflightPasses
  <2>1. PICK p \in {"trashFirst", "execute"} :
          cmd.phase = "preflight" /\ Moved(p, cmd.outcome, cmd.context, cmd.gids)
    BY <1>0, <1>5, PreflightPassesStep
  <2> QED
    BY <1>0, <2>1, PendingMoved DEF SendingPhases, BeforeSending, Phase
<1>6. CASE Trash
  <2>1. cmd.phase \in {"trashFirst", "trashAfter"}
    BY <1>0, <1>6, TrashStep
  <2>2. CASE Moved(IF cmd.phase = "trashFirst" THEN "execute" ELSE "reported",
                   cmd.outcome, cmd.context, cmd.gids)
    <3>1. PICK p \in {"execute", "reported"} :
            /\ p = "execute" <=> cmd.phase = "trashFirst"
            /\ Moved(p, cmd.outcome, cmd.context, cmd.gids)
      BY <2>1, <2>2
    <3> QED
      BY <1>0, <2>1, <3>1, PendingMoved DEF BeforePhases, SendingPhases, BeforeSending, Phase
  <2>3. CASE Moved("reported", FailAll(cmd.targets, "filesystem"), cmd.context, cmd.gids)
    <3>1. FailAll(cmd.targets, "filesystem") \in [Task -> Outcome] /\ "reported" \in Phase
      BY <1>0, FailAllFacts DEF Outcome, Phase
    <3>2. Quiet \/ \A x \in Task : cmd.outcome[x] = "unknown" =>
                                     FailAll(cmd.targets, "filesystem")[x] = "unknown"
      <4>1. CASE cmd.phase = "trashFirst"
        BY <1>0, <4>1 DEF LinkInv, BeforeSending
      <4>2. CASE cmd.phase = "trashAfter"
        <5>1. \A x \in Task : cmd.outcome[x] # "unknown"
          BY <1>0, <4>2 DEF PendingInv, BaseInv, CommandIsWhole
        <5> QED
          BY <5>1
      <4> QED
        BY <2>1, <4>1, <4>2
    <3> QED
      BY <2>1, <2>3, <3>1, <3>2, PendingMoved DEF BeforePhases, SendingPhases
  <2> QED
    BY <1>0, <1>6, <2>2, <2>3, TrashStep
<1>7. CASE Execute
  <2>1. cmd.phase = "execute" /\ Quiet /\ done = {}
    BY <1>0, <1>7, ExecuteStep DEF LinkInv, BeforeSending
  <2>2. CASE Moved("next", cmd.outcome, view, cmd.gids)
    BY <1>0, <2>1, <2>2, PendingMoved DEF BeforeSending, Phase
  <2>3. CASE Moved("reported", FailAll(cmd.targets, "failed"), cmd.context, cmd.gids)
    <3>1. FailAll(cmd.targets, "failed") \in [Task -> Outcome] /\ "reported" \in Phase
      BY <1>0, FailAllFacts DEF Outcome, Phase
    <3> QED
      BY <2>1, <2>3, <3>1, PendingMoved DEF BeforePhases, SendingPhases
  <2> QED
    BY <1>0, <1>7, <2>2, <2>3, ExecuteStep
<1>8. ASSUME NEW x \in Task, SkipItem(x) \/ SendItem(x)
      PROVE  PendingInv' /\ AnswerInv'
  <2>1. cmd.phase = "next" /\ x \in cmd.todo /\ ~Awaited(x) /\ cmd.gids \subseteq Started
    BY <1>0, <1>8, SkipItemStep, SendItemStep DEF Awaited, AnswerInv, Sending
  <2>2. CASE \E o \in Outcome : Settled1(x, o, cmd.gids)
    BY <2>1, <2>2, PendingSettled
  <2>3. CASE online /\ \E k \in RequestsOf(cmd.op) : Asked(k, x)
    BY <2>1, <2>3, PendingAsked
  <2>4. \/ \E o \in Outcome : Settled1(x, o, cmd.gids)
        \/ online /\ \E k \in RequestsOf(cmd.op) : Asked(k, x)
    <3>1. CASE SkipItem(x)
      BY <1>0, <3>1, SkipItemStep DEF Outcome
    <3>2. CASE SendItem(x)
      <4>1. PICK k \in RequestsOf(cmd.op) :
               \/ online /\ Asked(k, x)
               \/ ~online /\ Settled1(x, Unanswered(k), cmd.gids)
        BY <1>0, <3>2, SendItemStep
      <4>2. k \in Kind
        BY RequestsOfKind
      <4>3. Unanswered(k) \in Outcome
        BY <4>2, UnansweredFacts
      <4> QED
        BY <4>1, <4>3
    <3> QED
      BY <1>8, <3>1, <3>2
  <2> QED
    BY <2>2, <2>3, <2>4
<1>9. CASE NextRequestFollows
  <2>1. /\ cmd.phase = "awaiting" /\ answer # NoAnswer /\ answer' = NoAnswer
        /\ Asked(NextRequest, cmd.item) /\ NextRequest \in RequestsOf(cmd.op) /\ cmd.item \in cmd.todo
        /\ \/ cmd.rpc = "query" /\ NextRequest = "add"
           \/ cmd.rpc = "remove" /\ NextRequest = "removeResult" /\ answer = "refused"
    BY <1>0, <1>9, NextRequestFollowsStep DEF BaseInv, CommandIsWhole
  <2>2. NextRequest \in Mutations
    BY <2>1 DEF Mutations, Kind
  <2>3. cmd.item \notin done
    <3>1. CASE cmd.rpc = "query"
      BY <1>0, <2>1, <3>1 DEF PendingInv, Sending, Awaited, Mutations
    <3>2. CASE answer = "refused"
      BY <1>0, <3>2 DEF AnswerInv
    <3> QED
      BY <2>1, <3>1, <3>2
  <2>4. online
    BY <1>0, <2>1 DEF LinkInv
  <2> QED
    BY <2>1, <2>2, <2>3, <2>4, PendingAsked
<1>10. CASE ItemSettles
  <2>1. PICK o \in {"rejected", "ok"} :
          /\ cmd.phase = "awaiting" /\ answer # NoAnswer /\ answer' = NoAnswer /\ cmd.item \in cmd.todo
          /\ Settled1(cmd.item, o, IF answer \in Task THEN cmd.gids \cup {answer} ELSE cmd.gids)
    BY <1>0, <1>10, ItemSettlesStep
  <2>2. Quiet /\ (IF answer \in Task THEN cmd.gids \cup {answer} ELSE cmd.gids) \subseteq Started
    BY <1>0, <2>1 DEF LinkInv, AnswerInv, Started, Sending
  <2> QED
    BY <2>1, <2>2, PendingSettled DEF Outcome
<1>11. CASE RequestFails
  <2>1. /\ cmd.phase = "awaiting" /\ answer' = NoAnswer /\ cmd.item \in cmd.todo /\ cmd.rpc \in Kind
        /\ Settled1(cmd.item, Unanswered(cmd.rpc), cmd.gids)
    BY <1>0, <1>11, RequestFailsStep
  <2>2. /\ Unanswered(cmd.rpc) \in Outcome /\ cmd.gids \subseteq Started
        /\ Awaited(cmd.item) => Unanswered(cmd.rpc) = "unknown"
    BY <1>0, <2>1, UnansweredFacts DEF Awaited, AnswerInv, Sending
  <2> QED
    BY <2>1, <2>2, PendingSettled
<1>12. CASE ItemsDone
  <2>1. PICK p \in {"refreshing", "executed"} :
          cmd.phase = "next" /\ Moved(p, cmd.outcome, AbsentAll, cmd.gids)
    BY <1>0, <1>12, ItemsDoneStep
  <2> QED
    BY <1>0, <2>1, PendingMoved DEF Sending, Phase
<1>13. CASE ForcedRefresh
  <2>1. PICK p \in {"reconcile", "executed"} :
          cmd.phase = "refreshing" /\ Moved(p, cmd.outcome, cmd.context, cmd.gids)
    BY <1>0, <1>13, ForcedRefreshStep
  <2> QED
    BY <1>0, <2>1, PendingMoved DEF Sending, Phase
<1>14. CASE ReconcileRemovals \/ ReconcileRetries
  <2>1. PICK o \in [Task -> Outcome] :
          cmd.phase = "reconcile" /\ \E g : Moved("executed", o, cmd.context, g)
    <3>1. RemovalsReconciled \in [Task -> Outcome]
      BY <1>0 DEF RemovalsReconciled, Outcome
    <3>2. \A m \in Matchings : RetriesReconciled(m) \in [Task -> Outcome]
      BY <1>0 DEF RetriesReconciled, Outcome
    <3> QED
      BY <1>0, <1>14, <3>1, <3>2, ReconcileRemovalsStep, ReconcileRetriesStep
  <2>2. Quiet
    BY <1>0, <2>1 DEF LinkInv
  <2> QED
    BY <2>1, <2>2, PendingMoved DEF BeforePhases, SendingPhases, Phase
<1>15. CASE Report
  <2>1. \/ Moved("reported", cmd.outcome, cmd.context, cmd.gids)
        \/ /\ cmd.op = "RemoveWithFiles" /\ \E x \in cmd.targets : cmd.outcome[x] = "ok"
           /\ Moved("trashAfter", cmd.outcome, cmd.context, cmd.gids)
    BY <1>0, <1>15, ReportStep
  <2>2. cmd.phase = "executed"
    BY <1>0, <1>15, ReportStep
  <2>3. CASE Moved("reported", cmd.outcome, cmd.context, cmd.gids)
    BY <1>0, <2>2, <2>3, PendingMoved DEF BeforePhases, SendingPhases, Phase
  <2>4. CASE /\ cmd.op = "RemoveWithFiles" /\ \E x \in cmd.targets : cmd.outcome[x] = "ok"
             /\ Moved("trashAfter", cmd.outcome, cmd.context, cmd.gids)
    <3>1. \A x \in cmd.targets : cmd.outcome[x] = "ok"
      BY <1>0, <2>4 DEF BaseInv, CommandIsWhole
    <3> QED
      BY <1>0, <2>2, <2>4, <3>1, PendingMoved DEF BeforePhases, SendingPhases, Phase
  <2> QED
    BY <2>1, <2>3, <2>4
<1> QED
  BY <1>1, <1>2, <1>3, <1>4, <1>5, <1>6, <1>7, <1>8, <1>9, <1>10, <1>11, <1>12, <1>13, <1>14, <1>15,
     PendingServes, PendingServesLate, PendingLinks DEF OpNext, CommandStep

LEMMA WorkStep == ASSUME WorkInv, [OpNext]_opVars
                  PROVE  WorkInv' /\ EngineAdvances
BY BaseStep, LinkStep, PendingStep DEF WorkInv, Based

LEMMA WorkHolds == OpSpec => []WorkInv
<1>1. OpInit => WorkInv
  <2> SUFFICES ASSUME OpInit PROVE WorkInv
    OBVIOUS
  <2>1. /\ cmd = NoCommand /\ cmd.phase = "idle" /\ cmd.gids = {} /\ cmd.outcome = [x \in Task |-> "none"]
        /\ wire = <<>> /\ late = {} /\ answer = NoAnswer /\ done = {}
    BY DEF OpInit, NoCommand
  <2>2. LinkInv
    BY <2>1 DEF LinkInv, Quiet, BeforeSending, Sending
  <2>3. PendingInv
    BY <2>1 DEF PendingInv, Sending
  <2>4. AnswerInv
    BY <2>1, AnswersDiffer DEF AnswerInv
  <2> QED
    BY <2>2, <2>3, <2>4, OpInitBase DEF WorkInv
<1>2. WorkInv /\ [OpNext]_opVars => WorkInv'
  BY WorkStep
<1> QED
  BY <1>1, <1>2, PTL DEF OpSpec

-----------------------------------------------------------------------------
(***************************************************************************)
(* Removals and the files.                                                   *)
(***************************************************************************)
LEMMA GoneForGood ==
  ASSUME BaseInv, EngineAdvances, NEW x \in Task
  PROVE  /\ eng[x] \in OutOfWork => eng'[x] \in OutOfWork
         /\ eng[x] \in Gone => eng'[x] \in Gone /\ eng[x] \in OutOfWork
         /\ eng[x] = "absent" => eng'[x] = "absent"
BY BaseFacts DEF EngineAdvances, Moves, OutOfWork, Gone, TerminalSt, Live

\* A step that carries nothing out.
LEMMA RemovalKept ==
  ASSUME WorkInv, RemovalInv, EngineAdvances, done' = done, SameCommand,
         cmd'.op \in Removals => \A x \in Task : cmd'.outcome[x] = "ok" =>
                                    cmd.outcome[x] = "ok" \/ eng[x] \in OutOfWork,
         cmd'.phase = "reconcile" => cmd.phase = "reconcile" /\ view' = view
  PROVE  RemovalInv'
<1> SUFFICES ASSUME cmd'.op \in Removals
             PROVE  RemovalInv'
  BY DEF RemovalInv
<1>1. \A x \in Task : /\ eng[x] \in OutOfWork => eng'[x] \in OutOfWork
                      /\ eng[x] \in Gone => eng'[x] \in Gone
                      /\ eng[x] = "absent" => eng'[x] = "absent"
  BY GoneForGood DEF WorkInv
<1>2. cmd.op \in Removals /\ done \subseteq Task /\ cmd.targets \subseteq Task /\ cmd'.targets = cmd.targets
      /\ \A x : Original(x)' = Original(x)
  BY BaseFacts DEF WorkInv, SameCommand, Original
<1>3. \A x \in Task : cmd'.outcome[x] = "ok" => eng'[x] \in OutOfWork
  BY <1>1, <1>2 DEF RemovalInv, SameCommand
<1>4. \A x \in done' : eng'[x] \in Gone /\ (Original(x)' \in TerminalSt => eng'[x] = "absent")
  BY <1>1, <1>2 DEF RemovalInv
<1>5. cmd'.phase = "reconcile" => \A x \in cmd'.targets : Original(x)' # "absent" =>
         /\ x \in done' => RemovalObserved(x)'
         /\ view'[x] \notin Live => eng'[x] \in OutOfWork
  <2> SUFFICES ASSUME cmd'.phase = "reconcile", NEW x \in cmd.targets, Original(x) # "absent"
               PROVE  /\ x \in done' => RemovalObserved(x)'
                      /\ view'[x] \notin Live => eng'[x] \in OutOfWork
    BY <1>2
  <2>1. /\ x \in done => RemovalObserved(x)
        /\ view[x] \notin Live => eng[x] \in OutOfWork
    BY <1>2 DEF RemovalInv
  <2>2. RemovalObserved(x)' <=> RemovalObserved(x)
    BY <1>2 DEF RemovalObserved
  <2> QED
    BY <1>1, <1>2, <2>1, <2>2
<1> QED
  BY <1>2, <1>3, <1>4, <1>5 DEF RemovalInv

\* A removal that aria2 carries out.
LEMMA RemovalCarried ==
  ASSUME WorkInv, RemovalInv, EngineAdvances, cmd' = cmd, view' = view, cmd.phase # "reconcile",
         NEW q \in Requests, NEW a \in {"ok", "refused"} \cup Task, Applies(q, a), Carried(q, a),
         q.kind \in RequestsOf(cmd.op)
  PROVE  RemovalInv'
<1>1. CASE done' = done
  BY <1>1, RemovalKept DEF SameCommand
<1>2. CASE done' # done
  <2> SUFFICES ASSUME cmd.op \in Removals PROVE RemovalInv'
    BY DEF RemovalInv
  <2>1. /\ done' = done \cup {q.task} /\ a # "refused" /\ q.kind \in {"remove", "removeResult"}
        /\ q.task \in Task
    BY <1>2 DEF Carried, RequestsOf, Removals, Requests
  <2>2. /\ q.kind = "remove" => eng[q.task] \in Live /\ eng' = [eng EXCEPT ![q.task] = "Removed"]
        /\ q.kind = "removeResult" => eng' = [eng EXCEPT ![q.task] = "absent"]
    BY <2>1, BaseFacts, AppliesFacts DEF WorkInv
  <2>3. eng \in [Task -> EngStatus] /\ done \subseteq Task
    BY BaseFacts DEF WorkInv
  <2>4. Original(q.task) \in TerminalSt => eng[q.task] \notin Live
    BY <2>1 DEF WorkInv, BaseInv, SeenInv, PastIsTrue, StillTrue, Original, OutOfWork, Live, TerminalSt
  <2>5. eng'[q.task] \in Gone /\ (Original(q.task) \in TerminalSt => eng'[q.task] = "absent")
    BY <2>1, <2>2, <2>3, <2>4 DEF Gone
  <2>6. \A x \in Task : /\ eng[x] \in OutOfWork => eng'[x] \in OutOfWork
                        /\ eng[x] \in Gone => eng'[x] \in Gone
                        /\ eng[x] = "absent" => eng'[x] = "absent"
    BY GoneForGood DEF WorkInv
  <2> QED
    BY <2>1, <2>3, <2>5, <2>6 DEF RemovalInv, Original
<1> QED
  BY <1>1, <1>2

\* What the refresh finds of the removals.
LEMMA RemovalsSeen ==
  ASSUME WorkInv, RemovalInv, ForcedRefresh, view' = Snapshot,
         Moved("reconcile", cmd.outcome, cmd.context, cmd.gids)
  PROVE  RemovalInv'
<1> SUFFICES ASSUME cmd.op \in Removals PROVE RemovalInv'
  BY DEF RemovalInv, Moved, SameCommand
<1>1. /\ cmd'.outcome = cmd.outcome /\ cmd'.op = cmd.op /\ cmd'.targets = cmd.targets
      /\ cmd'.original = cmd.original /\ eng' = eng /\ done' = done
      /\ cmd.targets \subseteq Task /\ eng \in [Task -> EngStatus]
  BY BaseFacts DEF Moved, SameCommand, SameEngine, WorkInv
<1>2. \A x \in Task : /\ view'[x] \in {eng[x], "absent"}
                      /\ eng[x] \in Live => view'[x] = eng[x]
  BY BaseFacts, SnapshotFacts DEF WorkInv
<1>3. \A x \in Task : Original(x) # "absent" => eng[x] # "new"
  BY DEF WorkInv, BaseInv, SeenInv, PastIsTrue, StillTrue, Original
<1>4. \A x \in cmd.targets : Original(x) # "absent" =>
         /\ x \in done => RemovalObserved(x)'
         /\ view'[x] \notin Live => eng[x] \in OutOfWork
  <2> SUFFICES ASSUME NEW x \in cmd.targets, Original(x) # "absent"
               PROVE  /\ x \in done => RemovalObserved(x)'
                      /\ view'[x] \notin Live => eng[x] \in OutOfWork
    OBVIOUS
  <2>1. view'[x] \notin Live => eng[x] \in OutOfWork
    BY <1>1, <1>2, <1>3 DEF OutOfWork, EngStatus
  <2>2. x \in done => RemovalObserved(x)'
    BY <1>1, <1>2 DEF RemovalInv, RemovalObserved, Original, Gone
  <2> QED
    BY <2>1, <2>2
<1> QED
  BY <1>1, <1>4 DEF RemovalInv, Original

LEMMA RemovalStep ==
  ASSUME WorkInv, RemovalInv, [OpNext]_opVars
  PROVE  RemovalInv'
<1>0. /\ cmd.outcome \in [Task -> Outcome] /\ EngineAdvances
      /\ BaseInv /\ LinkInv /\ PendingInv /\ AnswerInv
  BY BaseFacts, WorkStep DEF WorkInv
<1>1. CASE UNCHANGED opVars
  BY <1>0, <1>1, OpStutter, RemovalKept DEF SameEngine, SameCommand
<1>2. ASSUME NEW x \in Task, EngineMoves(x)
      PROVE  RemovalInv'
  BY <1>0, <1>2, EngineMovesStep, RemovalKept DEF Alone, SameCommand
<1>3. ASSUME NEW op \in Operations, NEW S \in (SUBSET Task) \ {{}}, Begin(op, S)
      PROVE  RemovalInv'
  <2>1. /\ cmd'.phase \in {"preflight", "execute"} /\ cmd'.outcome = [x \in Task |-> "none"]
        /\ cmd.phase = "idle" /\ done' = done
    BY <1>0, <1>3, BeginStep DEF SameEngine
  <2> QED
    BY <1>0, <2>1 DEF RemovalInv, LinkInv, BeforeSending
<1>4. CASE PreflightFails \/ Execute
  <2>1. \/ Moved("reported", FailAll(cmd.targets, "failed"), cmd.context, cmd.gids)
        \/ Moved("next", cmd.outcome, view, cmd.gids)
    BY <1>0, <1>4, PreflightFailsStep, ExecuteStep
  <2>2. \A x \in Task : FailAll(cmd.targets, "failed")[x] = "ok" => cmd.outcome[x] = "ok"
    BY <1>0, FailAllFacts DEF Outcome
  <2> QED
    BY <1>0, <2>1, <2>2, RemovalKept DEF Moved, SameEngine
<1>5. CASE PreflightPasses
  <2>1. PICK p \in {"trashFirst", "execute"} : Moved(p, cmd.outcome, cmd.context, cmd.gids)
    BY <1>0, <1>5, PreflightPassesStep
  <2> QED
    BY <1>0, <2>1, RemovalKept DEF Moved, SameEngine
<1>6. CASE Trash
  <2>1. \/ \E p \in {"execute", "reported"} : Moved(p, cmd.outcome, cmd.context, cmd.gids)
        \/ Moved("reported", FailAll(cmd.targets, "filesystem"), cmd.context, cmd.gids)
    BY <1>0, <1>6, TrashStep
  <2>2. \A x \in Task : FailAll(cmd.targets, "filesystem")[x] = "ok" => cmd.outcome[x] = "ok"
    BY <1>0, FailAllFacts DEF Outcome
  <2> QED
    BY <1>0, <2>1, <2>2, RemovalKept DEF Moved, SameEngine
<1>7. ASSUME NEW x \in cmd.todo, NEW o \in Outcome, NEW g, Settled1(x, o, g),
             o = "ok" /\ cmd.op \in Removals => eng[x] \in OutOfWork
      PROVE  RemovalInv'
  <2>1. /\ cmd'.outcome = [cmd.outcome EXCEPT ![x] = o] /\ cmd'.phase = "next" /\ done' = done
        /\ SameCommand
    BY <1>7 DEF Settled1, SameEngine
  <2>2. \A y \in Task : cmd'.outcome[y] = "ok" =>
          cmd.outcome[y] = "ok" \/ (y = x /\ o = "ok")
    BY <1>0, <2>1
  <2> QED
    BY <1>0, <1>7, <2>1, <2>2, RemovalKept DEF SameCommand
<1>8. ASSUME NEW k, NEW x, Asked(k, x)
      PROVE  RemovalInv'
  BY <1>0, <1>8, RemovalKept DEF Asked, SameEngine
<1>9. ASSUME NEW x \in Task, SkipItem(x) \/ SendItem(x)
      PROVE  RemovalInv'
  <2>1. CASE SkipItem(x)
    BY <1>0, <1>7, <2>1, SkipItemStep DEF Outcome
  <2>2. CASE SendItem(x)
    <3>1. PICK k \in RequestsOf(cmd.op) :
             \/ online /\ Asked(k, x)
             \/ ~online /\ Settled1(x, Unanswered(k), cmd.gids)
      BY <1>0, <2>2, SendItemStep
    <3>2. Unanswered(k) \in Outcome /\ Unanswered(k) # "ok" /\ x \in cmd.todo
      <4>1. k \in Kind
        BY RequestsOfKind
      <4> QED
        BY <1>0, <2>2, <4>1, SendItemStep, UnansweredFacts
    <3> QED
      BY <1>7, <1>8, <3>1, <3>2
  <2> QED
    BY <1>9, <2>1, <2>2
<1>10. CASE NextRequestFollows
  BY <1>0, <1>8, <1>10, NextRequestFollowsStep
<1>11. CASE ItemSettles
  <2>1. PICK o \in {"rejected", "ok"} :
          /\ o = "ok" => answer # "refused"
          /\ cmd.phase = "awaiting" /\ answer # NoAnswer /\ cmd.item \in cmd.todo
          /\ Settled1(cmd.item, o, IF answer \in Task THEN cmd.gids \cup {answer} ELSE cmd.gids)
    BY <1>0, <1>11, ItemSettlesStep
  <2>2. o = "ok" /\ cmd.op \in Removals => eng[cmd.item] \in OutOfWork
    <3> SUFFICES ASSUME o = "ok", cmd.op \in Removals PROVE eng[cmd.item] \in OutOfWork
      OBVIOUS
    <3>1. answer \in Task \cup {"ok"}
      BY <1>0, <2>1, BaseFacts
    <3>2. cmd.rpc \in Mutations
      <4>1. cmd.rpc \in RequestsOf(cmd.op)
        BY <1>0, <2>1 DEF BaseInv, CommandIsWhole
      <4> QED
        BY <4>1 DEF RequestsOf, Removals, Mutations, Kind
    <3>3. cmd.item \in done
      BY <1>0, <3>1, <3>2 DEF AnswerInv
    <3> QED
      BY <3>3 DEF RemovalInv, Gone, OutOfWork, TerminalSt
  <2> QED
    BY <1>7, <2>1, <2>2 DEF Outcome
<1>12. CASE RequestFails
  <2>1. /\ cmd.item \in cmd.todo /\ cmd.rpc \in Kind /\ Settled1(cmd.item, Unanswered(cmd.rpc), cmd.gids)
    BY <1>0, <1>12, RequestFailsStep
  <2>2. Unanswered(cmd.rpc) \in Outcome /\ Unanswered(cmd.rpc) # "ok"
    BY <2>1, UnansweredFacts
  <2> QED
    BY <1>7, <2>1, <2>2
<1>13. CASE ItemsDone
  <2>1. PICK p \in {"refreshing", "executed"} : Moved(p, cmd.outcome, AbsentAll, cmd.gids)
    BY <1>0, <1>13, ItemsDoneStep
  <2> QED
    BY <1>0, <2>1, RemovalKept DEF Moved, SameEngine
<1>14. CASE ForcedRefresh
  <2>1. CASE view' = Snapshot /\ Moved("reconcile", cmd.outcome, cmd.context, cmd.gids)
    BY <1>14, <2>1, RemovalsSeen
  <2>2. CASE Moved("executed", cmd.outcome, cmd.context, cmd.gids)
    BY <1>0, <2>2, RemovalKept DEF Moved, SameEngine
  <2> QED
    BY <1>0, <1>14, <2>1, <2>2, ForcedRefreshStep
<1>15. CASE ReconcileRemovals
  <2>1. /\ cmd.phase = "reconcile" /\ cmd.op \in Removals
        /\ Moved("executed", RemovalsReconciled, cmd.context, cmd.gids)
    BY <1>0, <1>15, ReconcileRemovalsStep
  <2>2. ASSUME NEW x \in Task, RemovalsReconciled[x] = "ok", cmd.outcome[x] # "ok"
        PROVE  eng[x] \in OutOfWork
    <3>1. x \in cmd.targets /\ Original(x) # "absent" /\ RemovalObserved(x)
      BY <2>2 DEF RemovalsReconciled, UnknownItems
    <3>2. view[x] \notin Live
      BY <3>1 DEF RemovalObserved, Live
    <3> QED
      BY <2>1, <3>1, <3>2 DEF RemovalInv
  <2> QED
    BY <1>0, <2>1, <2>2, RemovalKept DEF Moved, SameEngine
<1>16. CASE ReconcileRetries
  <2>1. /\ cmd.op = "Retry" /\ SameCommand
    BY <1>0, <1>16, ReconcileRetriesStep DEF Moved
  <2> QED
    BY <2>1 DEF RemovalInv, SameCommand, Removals
<1>17. CASE Report
  <2>1. PICK p \in {"reported", "trashAfter"} : Moved(p, cmd.outcome, cmd.context, cmd.gids)
    BY <1>0, <1>17, ReportStep
  <2> QED
    BY <1>0, <2>1, RemovalKept DEF Moved, SameEngine
<1>18. CASE EngineServes
  <2>1. Head(wire).kind \in RequestsOf(cmd.op)
    <3>1. Head(wire) = wire[1] /\ 1 \in DOMAIN wire
      BY <1>0, <1>18, EngineServesStep, BaseFacts
    <3> QED
      BY <1>0, <3>1 DEF PendingInv
  <2>2. cmd.phase # "reconcile"
    BY <1>0, <1>18, EngineServesStep DEF LinkInv, Quiet
  <2>3. PICK a \in {"ok", "refused"} \cup Task : Applies(Head(wire), a) /\ Carried(Head(wire), a)
    BY <1>0, <1>18, EngineServesStep
  <2>4. Head(wire) \in Requests /\ cmd' = cmd /\ view' = view
    BY <1>0, <1>18, EngineServesStep DEF Alone
  <2> QED
    BY <1>0, <2>1, <2>2, <2>3, <2>4, RemovalCarried
<1>19. CASE ServeLate
  <2>1. PICK q \in late : /\ q \in Requests
                          /\ \E a \in {"ok", "refused"} \cup Task : Applies(q, a) /\ Carried(q, a)
    BY <1>0, <1>19, ServeLateStep
  <2>2. cmd.phase # "reconcile" /\ q.kind \in RequestsOf(cmd.op) /\ cmd' = cmd /\ view' = view
    BY <1>0, <1>19, <2>1, ServeLateStep DEF LinkInv, Quiet, PendingInv, Alone
  <2> QED
    BY <1>0, <2>1, <2>2, RemovalCarried
<1>20. CASE LoseLate \/ Disconnect \/ Reconnect \/ Poll
  <2>1. /\ cmd' = cmd /\ done' = done /\ SameCommand
        /\ view' = view \/ BeforeSending
    BY <1>0, <1>20, LinkSteps DEF Alone, SameEngine, SameCommand
  <2> QED
    BY <1>0, <2>1, RemovalKept DEF BeforeSending
<1> QED
  BY <1>1, <1>2, <1>3, <1>4, <1>5, <1>6, <1>9, <1>10, <1>11, <1>12, <1>13, <1>14, <1>15, <1>16, <1>17,
     <1>18, <1>19, <1>20 DEF OpNext, CommandStep

LEMMA FilesAreStill ==
  ASSUME WorkInv, [OpNext]_opVars
  PROVE  files' = files \/ Trash
<1>1. CASE UNCHANGED opVars
  BY <1>1, OpStutter
<1>2. ASSUME NEW x \in Task, EngineMoves(x) \/ SkipItem(x) \/ SendItem(x)
      PROVE  files' = files
  BY <1>2 DEF EngineMoves, EngineAlone, SkipItem, SendItem, CmdStep
<1>3. ASSUME NEW op \in Operations, NEW S \in (SUBSET Task) \ {{}}, Begin(op, S)
      PROVE  files' = files
  BY <1>3 DEF Begin
<1>4. CASE PreflightFails \/ PreflightPasses \/ Execute \/ ItemsDone \/ Report
  BY <1>4 DEF PreflightFails, PreflightPasses, Execute, ItemsDone, Report, CmdStep
<1>5. CASE ForcedRefresh \/ ReconcileRemovals \/ ReconcileRetries
  BY <1>5 DEF ForcedRefresh, ReconcileRemovals, ReconcileRetries, CmdStep
<1>6. CASE NextRequestFollows \/ ItemSettles \/ RequestFails
  BY <1>6 DEF NextRequestFollows, ItemSettles, RequestFails
<1>7. CASE EngineServes \/ ServeLate \/ LoseLate \/ Disconnect \/ Reconnect \/ Poll
  BY <1>7 DEF EngineServes, ServeLate, LoseLate, Disconnect, Reconnect, Poll, cmdVars
<1> QED
  BY <1>1, <1>2, <1>3, <1>4, <1>5, <1>6, <1>7 DEF OpNext, CommandStep

LEMMA FilesStep ==
  ASSUME WorkInv, RemovalInv, FilesInv, [OpNext]_opVars
  PROVE  FilesInv'
<1>1. \A x \in Task : eng[x] \in OutOfWork => eng'[x] \in OutOfWork
  BY WorkStep, GoneForGood DEF WorkInv
<1>2. CASE files' = files
  BY <1>1, <1>2 DEF FilesInv
<1>3. CASE Trash /\ files' = [x \in Task |-> IF x \in cmd.targets THEN "trashed" ELSE files[x]]
  <2>1. \A x \in cmd.targets : x \in Task /\ eng[x] \in OutOfWork
    <3>1. CASE cmd.phase = "trashFirst"
      BY <3>1, BaseFacts
      DEF WorkInv, BaseInv, CommandIsWhole, SeenInv, PastIsTrue, StillTrue, Original
    <3>2. CASE cmd.phase = "trashAfter"
      <4>1. cmd.op \in Removals
        BY <3>2 DEF WorkInv, BaseInv, CommandIsWhole, Removals
      <4> QED
        BY <3>2, <4>1, BaseFacts DEF WorkInv, PendingInv, RemovalInv
    <3> QED
      BY <1>3, <3>1, <3>2 DEF Trash
  <2> QED
    BY <1>1, <1>3, <2>1 DEF FilesInv
<1> QED
  BY <1>2, <1>3, TrashStep, FilesAreStill DEF WorkInv

\* No file of a download that aria2 still works on is in the trash: a command
\* moves the files of a stopped task before, and of a live one after it has seen
\* the removal succeed, whatever answers, refreshes and connections are lost.
THEOREM LiveTasksKeepTheirFiles == OpSpec => []NoLiveTaskLosesItsFiles
<1>1. OpInit => RemovalInv /\ FilesInv
  <2>1. OpInit => cmd.op = "none" /\ \A x \in Task : files[x] = "present"
    BY DEF OpInit, NoCommand
  <2> QED
    BY <2>1 DEF RemovalInv, FilesInv, Removals
<1>2. WorkInv /\ RemovalInv /\ FilesInv /\ [OpNext]_opVars => RemovalInv' /\ FilesInv'
  BY RemovalStep, FilesStep
<1>3. FilesInv => NoLiveTaskLosesItsFiles
  BY DEF FilesInv, NoLiveTaskLosesItsFiles, OutOfWork, TerminalSt, Live
<1> QED
  BY <1>1, <1>2, <1>3, WorkHolds, PTL DEF OpSpec

-----------------------------------------------------------------------------
(***************************************************************************)
(* How many downloads a retry has started.                                   *)
(***************************************************************************)
Tally(s, S) == Cardinality(Of1(s, S))

LEMMA Tallies ==
  ASSUME NEW s, NEW S \in SUBSET Task
  PROVE  IsFiniteSet(Of1(s, S)) /\ Tally(s, S) \in Nat /\ Of1(s, S) \in SUBSET Task
<1>1. Of1(s, S) \in SUBSET Task
  BY DEF Of1
<1>2. IsFiniteSet(Of1(s, S))
  BY <1>1, TasksAreFinite, FS_Subset
<1> QED
  BY <1>1, <1>2, FS_CardinalityType DEF Tally

LEMMA TallyOneMore ==
  ASSUME NEW s, NEW S \in SUBSET Task, NEW x \in Task \ S
  PROVE  Tally(s, S \cup {x}) = IF source[x] = s THEN Tally(s, S) + 1 ELSE Tally(s, S)
<1>1. CASE source[x] = s
  <2>1. Of1(s, S \cup {x}) = Of1(s, S) \cup {x} /\ x \notin Of1(s, S)
    BY <1>1 DEF Of1
  <2>2. IsFiniteSet(Of1(s, S))
    BY Tallies
  <2> QED
    BY <1>1, <2>1, <2>2, FS_AddElement DEF Tally
<1>2. CASE source[x] # s
  <2>1. Of1(s, S \cup {x}) = Of1(s, S)
    BY <1>2 DEF Of1
  <2> QED
    BY <1>2, <2>1 DEF Tally
<1> QED
  BY <1>1, <1>2

OkItems == WithOutcome({"ok"})
Counting == Sending \/ BeforeSending

LEMMA CountKept ==
  ASSUME WorkInv, CountInv, Started' = Started, source' = source, done' = done,
         cmd'.op = cmd.op, cmd'.phase = "idle" => cmd.phase = "idle",
         cmd.op = "Retry" => \A y \in Started : eng'[y] # "absent",
         Counting' => Counting /\ cmd'.gids = cmd.gids /\ OkItems' = OkItems
  PROVE  CountInv'
<1>1. \A s : /\ Of1(s, Started)' = Of1(s, Started) /\ Of1(s, done)' = Of1(s, done)
             /\ Counting' => /\ Of1(s, cmd.gids)' = Of1(s, cmd.gids)
                             /\ Of1(s, OkItems)' = Of1(s, OkItems)
  BY DEF Of1
<1>2. \A x \in Task : source'[x] = source[x]
  OBVIOUS
<1> QED
  BY <1>1, <1>2 DEF CountInv, Counting, OkItems

LEMMA StartedSame ==
  ASSUME WorkInv, eng' = eng
  PROVE  Started' = Started /\ (CountInv /\ cmd.op = "Retry" => \A y \in Started : eng'[y] # "absent")
BY DEF Started, CountInv

\* A request that is carried out, on whichever connection.
Served(q, a) ==
  /\ q \in Requests /\ a \in {"ok", "refused"} \cup Task /\ Applies(q, a) /\ Carried(q, a)
  /\ q.kind \in RequestsOf(cmd.op)
  /\ q.kind \in Mutations => UnderWay(q.task)
  /\ cmd' = cmd /\ view' = view /\ source' = source
  /\ ~Quiet /\ ~BeforeSending /\ cmd.phase \notin {"reconcile", "reported"}
  /\ \A x \in Task : cmd.outcome[x] # "notObserved"

LEMMA RequestServed ==
  ASSUME WorkInv, EngineServes \/ ServeLate
  PROVE  \E q \in Requests, a \in {"ok", "refused"} \cup Task : Served(q, a)
<1>0. BaseInv /\ LinkInv /\ PendingInv
  BY DEF WorkInv
<1>1. CASE EngineServes
  <2>1. /\ Head(wire) = wire[1] /\ 1 \in DOMAIN wire /\ Head(wire) \in Requests
        /\ cmd' = cmd /\ view' = view /\ source' = source /\ ~Quiet /\ cmd.phase # "reported"
    BY <1>0, <1>1, EngineServesStep, BaseFacts DEF Alone, Quiet
  <2>2. PICK a \in {"ok", "refused"} \cup Task : Applies(Head(wire), a) /\ Carried(Head(wire), a)
    BY <1>0, <1>1, EngineServesStep
  <2>3. ~BeforeSending /\ cmd.phase # "reconcile" /\ \A x \in Task : cmd.outcome[x] # "notObserved"
    BY <1>0, <2>1 DEF LinkInv
  <2>4. Head(wire).kind \in RequestsOf(cmd.op) /\ (Head(wire).kind \in Mutations => UnderWay(Head(wire).task))
    BY <1>0, <2>1 DEF PendingInv
  <2>5. Served(Head(wire), a)
    BY <2>1, <2>2, <2>3, <2>4 DEF Served
  <2> QED
    BY <2>1, <2>5
<1>2. CASE ServeLate
  <2>1. PICK q \in late : /\ q \in Requests
                          /\ \E a \in {"ok", "refused"} \cup Task : Applies(q, a) /\ Carried(q, a)
    BY <1>0, <1>2, ServeLateStep
  <2>2. PICK a \in {"ok", "refused"} \cup Task : Applies(q, a) /\ Carried(q, a)
    BY <2>1
  <2>3. /\ cmd' = cmd /\ view' = view /\ source' = source /\ ~Quiet /\ cmd.phase # "reported"
    BY <1>0, <1>2, ServeLateStep DEF Alone, Quiet
  <2>4. ~BeforeSending /\ cmd.phase # "reconcile" /\ \A x \in Task : cmd.outcome[x] # "notObserved"
    BY <1>0, <2>3 DEF LinkInv
  <2>5. q.kind \in RequestsOf(cmd.op) /\ (q.kind \in Mutations => UnderWay(q.task))
    BY <1>0, <2>1 DEF PendingInv
  <2>6. Served(q, a)
    BY <2>1, <2>2, <2>3, <2>4, <2>5 DEF Served
  <2> QED
    BY <2>1, <2>6
<1> QED
  BY <1>1, <1>2

\* A request changes which downloads are new only if it adds one.
LEMMA ServedStarts ==
  ASSUME WorkInv, NEW q \in Requests, NEW a \in {"ok", "refused"} \cup Task, Served(q, a)
  PROVE  \/ /\ Started' = Started /\ (cmd.op = "Retry" => done' = done)
            /\ \A y \in Existing : eng'[y] = "new" <=> eng[y] = "new"
            /\ cmd.op = "Retry" => \A y \in Task : eng'[y] = "absent" <=> eng[y] = "absent"
         \/ /\ a \in Task \ Existing /\ eng[a] = "new" /\ source[a] = source[q.task]
            /\ Started' = Started \cup {a} /\ a \notin Started
            /\ eng' = [eng EXCEPT ![a] = "Active"]
            /\ done' = done \cup {q.task} /\ UnderWay(q.task) /\ cmd.op = "Retry"
<1>1. /\ EngineInv /\ eng \in [Task -> EngStatus] /\ q.kind \in Kind /\ q.task \in Task /\ q.kind \in RequestsOf(cmd.op)
      /\ Applies(q, a) /\ Carried(q, a) /\ Existing \subseteq Task /\ cmd.op \in Operations \cup {"none"}
  BY BaseFacts, ExistingAreTasks DEF WorkInv, Requests, Served, Commands
<1>2. CASE a = "refused"
  <2>1. eng' = eng /\ done' = done
    BY <1>1, <1>2, AppliesFacts DEF engVars, Carried
  <2> QED
    BY <2>1 DEF Started
<1>3. CASE a # "refused" /\ q.kind \in {"remove", "removeResult"}
  <2>1. \E s \in {"Removed", "absent"} : eng[q.task] \in Live \cup TerminalSt /\ eng' = [eng EXCEPT ![q.task] = s]
    BY <1>1, <1>3, AppliesFacts
  <2>2. \A y \in Task : eng'[y] = "new" <=> eng[y] = "new"
    BY <1>1, <2>1 DEF Live, TerminalSt
  <2>3. cmd.op # "Retry"
    BY <1>1, <1>3 DEF RequestsOf, Removals
  <2> QED
    BY <1>1, <2>2, <2>3 DEF Started
<1>4. CASE a # "refused" /\ q.kind = "add"
  <2>1. /\ a \in Task \ Existing /\ eng[a] = "new" /\ source[a] = source[q.task]
        /\ eng' = [eng EXCEPT ![a] = "Active"]
    BY <1>1, <1>4, AppliesFacts
  <2>2. Started' = Started \cup {a} /\ a \notin Started
    BY <1>1, <2>1 DEF Started
  <2>3. done' = done \cup {q.task} /\ UnderWay(q.task)
    BY <1>1, <1>4 DEF Carried, Served, Mutations, Kind
  <2>4. cmd.op = "Retry"
    BY <1>1, <1>4 DEF RequestsOf, Removals
  <2> QED
    BY <2>1, <2>2, <2>3, <2>4
<1>5. CASE a # "refused" /\ q.kind \notin {"remove", "removeResult", "add"}
  <2>1. \A y \in Task : eng'[y] = eng[y] \/ {eng[y], eng'[y]} \subseteq Live
    BY <1>1, <1>5, AppliesFacts
  <2>2. \A y \in Task : /\ eng'[y] = "new" <=> eng[y] = "new"
                        /\ eng'[y] = "absent" <=> eng[y] = "absent"
    BY <2>1 DEF Live
  <2>3. cmd.op = "Retry" => q.kind = "query"
    BY <1>1, <1>5 DEF RequestsOf, Removals
  <2>4. cmd.op = "Retry" => done' = done
    BY <1>1, <2>3 DEF Carried, Mutations
  <2> QED
    BY <1>1, <2>2, <2>4 DEF Started
<1> QED
  BY <1>2, <1>3, <1>4, <1>5

LEMMA CountServed ==
  ASSUME WorkInv, CountInv, NEW q \in Requests, NEW a \in {"ok", "refused"} \cup Task, Served(q, a)
  PROVE  CountInv'
<1>1. /\ cmd' = cmd /\ source' = source /\ cmd.phase # "idle" /\ Started \subseteq Task /\ done \subseteq Task
  BY BaseFacts DEF WorkInv, Served, BeforeSending, Started
<1>2. CASE /\ Started' = Started /\ (cmd.op = "Retry" => done' = done)
           /\ cmd.op = "Retry" => \A y \in Task : eng'[y] = "absent" <=> eng[y] = "absent"
  <2>1. CASE cmd.op = "Retry"
    BY <1>1, <1>2, <2>1, CountKept DEF CountInv, Counting, OkItems, Sending, BeforeSending, WithOutcome
  <2>2. CASE cmd.op # "Retry"
    BY <1>1, <2>2 DEF CountInv
  <2> QED
    BY <2>1, <2>2
<1>3. CASE /\ a \in Task \ Existing /\ source[a] = source[q.task]
           /\ Started' = Started \cup {a} /\ a \notin Started
           /\ eng' = [eng EXCEPT ![a] = "Active"]
           /\ done' = done \cup {q.task} /\ UnderWay(q.task) /\ cmd.op = "Retry"
  <2>1. q.task \in Task \ done
    BY <1>1, <1>3, BaseFacts DEF UnderWay, WorkInv
  <2>2. \A x \in Task : Tally(source[x], Started') = Tally(source[x], done')
    <3> TAKE x \in Task
    <3>1. Tally(source[x], Started) = Tally(source[x], done)
      BY <1>3 DEF CountInv, Tally
    <3>2. Tally(source[x], Started \cup {a})
            = IF source[a] = source[x] THEN Tally(source[x], Started) + 1 ELSE Tally(source[x], Started)
      BY <1>1, <1>3, TallyOneMore
    <3>3. Tally(source[x], done \cup {q.task})
            = IF source[q.task] = source[x] THEN Tally(source[x], done) + 1 ELSE Tally(source[x], done)
      BY <1>1, <2>1, TallyOneMore
    <3> QED
      BY <1>3, <3>1, <3>2, <3>3
  <2>3. \A s : /\ Of1(s, Started)' = Of1(s, Started') /\ Of1(s, done)' = Of1(s, done')
               /\ Of1(s, cmd.gids)' = Of1(s, cmd.gids)
               /\ Of1(s, WithOutcome({"ok"}))' = Of1(s, WithOutcome({"ok"}))
    BY <1>1 DEF Of1, WithOutcome
  <2>4. \A y \in Started' : eng'[y] # "absent"
    BY <1>1, <1>3, BaseFacts DEF CountInv, WorkInv
  <2>5. \A x \in Task : Cardinality(Of1(source[x], Started)') = Cardinality(Of1(source[x], done)')
    BY <1>1, <2>2, <2>3 DEF Tally
  <2>6. Sending' \/ BeforeSending' => \A x \in Task :
           Cardinality(Of1(source[x], cmd.gids)') = Cardinality(Of1(source[x], WithOutcome({"ok"}))')
    BY <1>1, <1>3, <2>3 DEF CountInv, Sending, BeforeSending
  <2> QED
    BY <1>1, <2>4, <2>5, <2>6 DEF CountInv
<1> QED
  BY <1>2, <1>3, ServedStarts

LEMMA CountSettles ==
  ASSUME WorkInv, CountInv, ItemSettles
  PROVE  CountInv'
<1>0. BaseInv /\ LinkInv /\ PendingInv /\ AnswerInv
  BY DEF WorkInv
<1> DEFINE o == IF answer = "refused" THEN "rejected" ELSE "ok"
           g == IF answer \in Task THEN cmd.gids \cup {answer} ELSE cmd.gids
           x == cmd.item
<1>1. /\ cmd.phase = "awaiting" /\ answer # NoAnswer /\ x \in cmd.todo /\ ~Continues /\ Settled1(x, o, g)
  BY <1>0, ItemSettlesStep
<1>2. /\ x \in cmd.targets /\ x \in Task /\ cmd.outcome[x] = "none" /\ cmd.gids \subseteq Task
      /\ cmd.outcome \in [Task -> Outcome] /\ cmd.targets \subseteq Task /\ cmd.rpc \in RequestsOf(cmd.op)
      /\ answer \in {"ok", "refused"} \cup Task
  BY <1>0, <1>1, BaseFacts DEF BaseInv, CommandIsWhole, Sending
<1>3. /\ SameCommand /\ eng' = eng /\ source' = source /\ done' = done /\ cmd'.phase = "next"
      /\ cmd'.outcome = [cmd.outcome EXCEPT ![x] = o] /\ cmd'.gids = g
  BY <1>1 DEF Settled1, SameEngine
<1>4. Started' = Started /\ (cmd.op = "Retry" => \A y \in Started : eng'[y] # "absent")
  BY <1>3, StartedSame
<1>5. CASE cmd.op # "Retry"
  BY <1>3, <1>5 DEF CountInv, SameCommand
<1>6. CASE answer = "refused"
  <2>1. o = "rejected" /\ g = cmd.gids
    BY <1>6, AnswersDiffer
  <2> HIDE DEF o, g
  <2>2. OkItems' = OkItems
    BY <1>2, <1>3, <2>1 DEF OkItems, WithOutcome, SameCommand
  <2> QED
    BY <1>1, <1>3, <1>4, <2>1, <2>2, CountKept DEF SameCommand, Counting, Sending
<1>7. CASE cmd.op = "Retry" /\ answer \in Task
  <2>1. o = "ok" /\ g = cmd.gids \cup {answer}
    BY <1>7, AnswersDiffer
  <2> HIDE DEF o, g
  <2>2. answer \in Task \ cmd.gids /\ source[answer] = source[x]
    BY <1>0, <1>7 DEF AnswerInv
  <2>3. OkItems' = OkItems \cup {x} /\ x \in Task \ OkItems /\ OkItems \in SUBSET Task
    BY <1>2, <1>3, <2>1 DEF OkItems, WithOutcome, SameCommand
  <2>4. \A y \in Task : Tally(source[y], cmd'.gids) = Tally(source[y], OkItems')
    <3> TAKE y \in Task
    <3>1. Tally(source[y], cmd.gids) = Tally(source[y], OkItems)
      BY <1>1, <1>7 DEF CountInv, Tally, OkItems, Sending
    <3>2. Tally(source[y], cmd.gids \cup {answer})
            = IF source[answer] = source[y] THEN Tally(source[y], cmd.gids) + 1 ELSE Tally(source[y], cmd.gids)
      BY <1>2, <2>2, TallyOneMore
    <3>3. Tally(source[y], OkItems \cup {x})
            = IF source[x] = source[y] THEN Tally(source[y], OkItems) + 1 ELSE Tally(source[y], OkItems)
      BY <2>3, TallyOneMore
    <3> QED
      BY <1>3, <2>1, <2>2, <2>3, <3>1, <3>2, <3>3
  <2>5. \A s : /\ Of1(s, Started)' = Of1(s, Started) /\ Of1(s, done)' = Of1(s, done)
               /\ Of1(s, cmd.gids)' = Of1(s, cmd'.gids)
               /\ Of1(s, WithOutcome({"ok"}))' = Of1(s, OkItems')
    BY <1>3, <1>4 DEF Of1, OkItems
  <2>6. \A y \in Task : Cardinality(Of1(source[y], WithOutcome({"ok"}))') = Cardinality(Of1(source[y], cmd.gids)')
    BY <1>3, <2>4, <2>5 DEF Tally
  <2> QED
    BY <1>3, <1>4, <1>7, <2>5, <2>6 DEF CountInv, SameCommand
<1>8. CASE cmd.op = "Retry" /\ answer = "ok"
  <2>1. cmd.rpc \in {"query", "add"}
    BY <1>2, <1>8 DEF RequestsOf, Removals
  <2> QED
    BY <1>0, <1>1, <1>8, <2>1 DEF AnswerInv, Continues
<1> QED
  BY <1>2, <1>5, <1>6, <1>7, <1>8

LEMMA CountStep ==
  ASSUME WorkInv, CountInv, [OpNext]_opVars
  PROVE  CountInv'
<1>0. /\ cmd.outcome \in [Task -> Outcome] /\ cmd.targets \subseteq Task
      /\ BaseInv /\ LinkInv /\ PendingInv /\ AnswerInv
  BY BaseFacts DEF WorkInv
<1>1. ASSUME SameEngine, cmd' = cmd
      PROVE  CountInv'
  <2>1. OkItems' = OkItems
    BY <1>1 DEF OkItems, WithOutcome
  <2> QED
    BY <1>1, <2>1, StartedSame, CountKept DEF SameEngine, Counting, Sending, BeforeSending
<1>2. ASSUME NEW x \in Task, EngineMoves(x)
      PROVE  CountInv'
  <2>1. /\ cmd' = cmd /\ source' = source /\ done' = done /\ eng \in [Task -> EngStatus]
        /\ Existing \subseteq Task
        /\ \/ x \in Existing /\ eng' = [eng EXCEPT ![x] = "Active"]
           \/ \E s \in {"Complete", "Error"} : eng[x] = "Active" /\ eng' = [eng EXCEPT ![x] = s]
           \/ x \in Existing /\ eng' = [eng EXCEPT ![x] = "absent"]
    BY <1>0, <1>2, EngineMovesStep, BaseFacts, ExistingAreTasks DEF Alone
  <2>2. /\ Started' = Started
        /\ \A y \in Started : eng[y] # "absent" => eng'[y] # "absent"
    BY <2>1 DEF Started
  <2>3. OkItems' = OkItems
    BY <2>1 DEF OkItems, WithOutcome
  <2> QED
    BY <2>1, <2>2, <2>3, CountKept DEF CountInv, Counting, Sending, BeforeSending
<1>3. ASSUME NEW op \in Operations, NEW S \in (SUBSET Task) \ {{}}, Begin(op, S)
      PROVE  CountInv'
  <2>1. /\ cmd'.phase \in {"preflight", "execute"} /\ cmd'.outcome = [x \in Task |-> "none"]
        /\ cmd'.gids = {} /\ cmd'.targets = S
        /\ cmd.phase = "idle" /\ done' = done /\ eng' = eng
    BY <1>0, <1>3, BeginStep DEF SameEngine
  <2>2. Started' = {} /\ done' = {}
    BY <1>0, <2>1 DEF Started, CountInv, LinkInv, BeforeSending
  <2>3. WithOutcome({"ok"})' = {}
    BY <2>1 DEF WithOutcome
  <2>4. \A s : /\ Of1(s, Started)' = {} /\ Of1(s, done)' = {} /\ Of1(s, cmd.gids)' = {}
               /\ Of1(s, WithOutcome({"ok"}))' = {}
    BY <2>1, <2>2, <2>3 DEF Of1
  <2> QED
    BY <2>1, <2>2, <2>4 DEF CountInv
<1>4. ASSUME NEW p, NEW c, NEW g, NEW o, Moved(p, o, c, g),
             p # "idle",
             p \in SendingPhases \cup BeforePhases => Counting /\ o = cmd.outcome /\ g = cmd.gids
      PROVE  CountInv'
  <2>1. /\ eng' = eng /\ source' = source /\ done' = done /\ cmd'.op = cmd.op /\ cmd'.phase = p
        /\ cmd'.outcome = o /\ cmd'.gids = g /\ cmd'.targets = cmd.targets
    BY <1>4 DEF Moved, SameEngine, SameCommand
  <2>2. Counting' => OkItems' = OkItems /\ Counting /\ cmd'.gids = cmd.gids
    BY <1>4, <2>1 DEF Counting, OkItems, WithOutcome, Sending, BeforeSending, SendingPhases, BeforePhases
  <2> QED
    BY <1>4, <2>1, <2>2, StartedSame, CountKept
<1>5. ASSUME NEW x \in cmd.todo, NEW o \in Outcome \ {"ok"}, Settled1(x, o, cmd.gids),
             cmd.phase \in {"next", "awaiting"}
      PROVE  CountInv'
  <2>1. /\ eng' = eng /\ source' = source /\ done' = done /\ cmd'.op = cmd.op /\ cmd'.phase = "next"
        /\ cmd'.gids = cmd.gids /\ cmd'.targets = cmd.targets
        /\ cmd'.outcome = [cmd.outcome EXCEPT ![x] = o]
    BY <1>5 DEF Settled1, SameEngine, SameCommand
  <2>2. cmd.outcome[x] = "none" /\ Counting
    BY <1>0, <1>5 DEF BaseInv, CommandIsWhole, Sending, Counting
  <2>3. OkItems' = OkItems
    BY <1>0, <2>1, <2>2 DEF OkItems, WithOutcome
  <2> QED
    BY <2>1, <2>2, <2>3, StartedSame, CountKept
<1>6. ASSUME NEW k, NEW x, Asked(k, x), cmd.phase \in {"next", "awaiting"}
      PROVE  CountInv'
  <2>1. /\ eng' = eng /\ source' = source /\ done' = done /\ cmd'.op = cmd.op /\ cmd'.phase = "awaiting"
        /\ cmd'.gids = cmd.gids /\ cmd'.targets = cmd.targets /\ cmd'.outcome = cmd.outcome /\ Counting
    BY <1>6 DEF Asked, SameEngine, SameCommand, Counting, Sending
  <2>2. OkItems' = OkItems
    BY <2>1 DEF OkItems, WithOutcome
  <2> QED
    BY <2>1, <2>2, StartedSame, CountKept
<1>7. CASE UNCHANGED opVars
  BY <1>1, <1>7, OpStutter
<1>8. CASE LoseLate \/ Disconnect \/ Reconnect \/ Poll
  BY <1>0, <1>1, <1>8, LinkSteps DEF Alone
<1>9. CASE EngineServes \/ ServeLate
  BY <1>9, RequestServed, CountServed
<1>10. CASE PreflightFails \/ Execute
  <2>1. \/ Moved("reported", FailAll(cmd.targets, "failed"), cmd.context, cmd.gids)
        \/ cmd.phase = "execute" /\ Moved("next", cmd.outcome, view, cmd.gids)
    BY <1>0, <1>10, PreflightFailsStep, ExecuteStep
  <2> QED
    BY <1>4, <2>1 DEF SendingPhases, BeforePhases, Counting, BeforeSending
<1>11. CASE PreflightPasses
  <2>1. PICK p \in {"trashFirst", "execute"} : Moved(p, cmd.outcome, cmd.context, cmd.gids)
    BY <1>0, <1>11, PreflightPassesStep
  <2>2. Counting
    BY <1>11 DEF PreflightPasses, Counting, BeforeSending
  <2> QED
    BY <1>4, <2>1, <2>2
<1>12. CASE Trash
  <2>1. cmd.phase \in {"trashFirst", "trashAfter"}
    BY <1>0, <1>12, TrashStep
  <2>2. \/ cmd.phase = "trashFirst" /\ Moved("execute", cmd.outcome, cmd.context, cmd.gids)
        \/ \E o : Moved("reported", o, cmd.context, cmd.gids)
    BY <1>0, <1>12, <2>1, TrashStep
  <2> QED
    BY <1>4, <2>2 DEF SendingPhases, BeforePhases, Counting, BeforeSending
<1>13. ASSUME NEW x \in Task, SkipItem(x) \/ SendItem(x)
       PROVE  CountInv'
  <2>1. cmd.phase = "next" /\ x \in cmd.todo
    BY <1>0, <1>13, SkipItemStep, SendItemStep
  <2>2. CASE SkipItem(x)
    BY <1>0, <1>5, <2>1, <2>2, SkipItemStep DEF Outcome
  <2>3. CASE SendItem(x)
    <3>1. PICK k \in RequestsOf(cmd.op) :
             \/ online /\ Asked(k, x)
             \/ ~online /\ Settled1(x, Unanswered(k), cmd.gids)
      BY <1>0, <2>3, SendItemStep
    <3>2. k \in Kind
      BY RequestsOfKind
    <3>3. Unanswered(k) \in Outcome \ {"ok"}
      BY <3>2, UnansweredFacts
    <3> QED
      BY <1>5, <1>6, <2>1, <3>1, <3>3
  <2> QED
    BY <1>13, <2>2, <2>3
<1>14. CASE NextRequestFollows
  BY <1>0, <1>6, <1>14, NextRequestFollowsStep
<1>15. CASE ItemSettles
  BY <1>15, CountSettles
<1>16. CASE RequestFails
  <2>1. /\ cmd.item \in cmd.todo /\ cmd.rpc \in Kind /\ Settled1(cmd.item, Unanswered(cmd.rpc), cmd.gids)
        /\ cmd.phase = "awaiting"
    BY <1>0, <1>16, RequestFailsStep
  <2>2. Unanswered(cmd.rpc) \in Outcome \ {"ok"}
    BY <2>1, UnansweredFacts
  <2> QED
    BY <1>5, <2>1, <2>2
<1>17. CASE ItemsDone
  <2>1. PICK p \in {"refreshing", "executed"} : cmd.phase = "next" /\ Moved(p, cmd.outcome, AbsentAll, cmd.gids)
    BY <1>0, <1>17, ItemsDoneStep
  <2> QED
    BY <1>4, <2>1 DEF Counting, Sending
<1>18. CASE ForcedRefresh
  <2>1. PICK p \in {"reconcile", "executed"} :
          cmd.phase = "refreshing" /\ Moved(p, cmd.outcome, cmd.context, cmd.gids)
    BY <1>0, <1>18, ForcedRefreshStep
  <2> QED
    BY <1>4, <2>1 DEF Counting, Sending
<1>19. CASE ReconcileRemovals \/ ReconcileRetries
  <2>1. \E o, g : Moved("executed", o, cmd.context, g)
    BY <1>0, <1>19, ReconcileRemovalsStep, ReconcileRetriesStep
  <2> QED
    BY <1>4, <2>1 DEF SendingPhases, BeforePhases
<1>20. CASE Report
  <2>1. PICK p \in {"reported", "trashAfter"} : Moved(p, cmd.outcome, cmd.context, cmd.gids)
    BY <1>0, <1>20, ReportStep
  <2> QED
    BY <1>4, <2>1 DEF SendingPhases, BeforePhases
<1> QED
  BY <1>2, <1>3, <1>7, <1>8, <1>9, <1>10, <1>11, <1>12, <1>13, <1>14, <1>15, <1>16, <1>17,
     <1>18, <1>19, <1>20 DEF OpNext, CommandStep

-----------------------------------------------------------------------------
(***************************************************************************)
(* What was there before the command.                                        *)
(***************************************************************************)
AllLoaded == Loaded >= Cardinality(Task)

\* Every result is on the loaded pages, and so every task is found.
LEMMA FullSnapshot ==
  ASSUME EngineInv, AllLoaded, NEW x \in Task
  PROVE  eng[x] \in {"new", "absent"} \/ Snapshot[x] = eng[x]
<1>1. CASE eng[x] \in Live
  BY <1>1 DEF Snapshot
<1>2. CASE eng[x] \in TerminalSt
  <2>1. PICK i \in DOMAIN results : results[i] = x
    BY <1>2 DEF EngineInv, ResultsAreStopped
  <2>2. /\ results \in [1 .. Len(results) -> Task] /\ Len(results) \in Nat /\ i \in 1 .. Len(results)
        /\ DOMAIN results = 1 .. Len(results)
    BY DEF EngineInv, EngineTyped
  <2>3. results \in Injection(1 .. Len(results), Task)
    BY <2>2 DEF EngineInv, ResultsAreStopped, Injection, IsInjective
  <2>4. Cardinality(1 .. Len(results)) <= Cardinality(Task) /\ Cardinality(Task) \in Nat
    BY <2>3, TasksAreFinite, FS_Injection, FS_CardinalityType
  <2>5. Cardinality(1 .. Len(results)) = Len(results)
    <3>1. 1 \in Int /\ Len(results) \in Int
      BY <2>2
    <3>2. Cardinality(1 .. Len(results)) = IF 1 > Len(results) THEN 0 ELSE Len(results) - 1 + 1
      BY <3>1, FS_Interval
    <3> QED
      BY <2>2, <3>2
  <2>6. i <= Loaded
    BY <2>2, <2>4, <2>5, LoadedIsNatural DEF AllLoaded
  <2> QED
    BY <2>1, <2>6 DEF Snapshot
<1> QED
  BY <1>1, <1>2 DEF EngineInv, EngineTyped, EngStatus

NotYetOrGone(y) == eng[y] \in {"new", "absent"}

\* A step that neither begins a command nor refreshes.
LEMMA BaselineKept ==
  ASSUME WorkInv, BaselineInv, Started' = Started, cmd'.original = cmd.original,
         view' = view,
         \A y \in Existing : NotYetOrGone(y) =>
            NotYetOrGone(y)' \/ (cmd.phase = "idle" /\ cmd'.phase = "idle" /\ view = AbsentAll),
         cmd'.phase = "idle" => cmd.phase = "idle",
         cmd'.phase # "idle" => cmd.phase # "idle" /\ cmd'.baseline = cmd.baseline,
         cmd'.phase = "reconcile" => cmd.phase = "reconcile" /\ cmd'.op = cmd.op
  PROVE  BaselineInv'
BY DEF BaselineInv, Original, NotYetOrGone

LEMMA BaselineServed ==
  ASSUME WorkInv, BaselineInv, NEW q \in Requests, NEW a \in {"ok", "refused"} \cup Task, Served(q, a)
  PROVE  BaselineInv'
<1>0. /\ cmd' = cmd /\ view' = view /\ cmd.phase \notin {"idle", "reconcile"} /\ EngineAdvances
      /\ eng \in [Task -> EngStatus] /\ Existing \subseteq Task
  <2>1. EngineAdvances
    BY BaseFacts, AppliesFacts DEF WorkInv, Served
  <2> QED
    BY <2>1, BaseFacts, ExistingAreTasks DEF WorkInv, Served, BeforeSending
<1>1. \A y \in Existing : eng[y] = "new" => eng'[y] = "new"
  BY <1>0, ServedStarts
<1>2. \A y \in Existing : NotYetOrGone(y) => NotYetOrGone(y)'
  BY <1>0, <1>1 DEF NotYetOrGone, EngineAdvances, Moves, Live, TerminalSt
<1> QED
  BY <1>0, <1>2 DEF BaselineInv, Original, NotYetOrGone

LEMMA BaselineStep ==
  ASSUME AllLoaded, WorkInv, CountInv, BaselineInv, [OpNext]_opVars
  PROVE  BaselineInv'
<1>0. /\ BaseInv /\ LinkInv /\ PendingInv /\ AnswerInv /\ EngineInv /\ eng \in [Task -> EngStatus]
      /\ Existing \subseteq Task /\ view \in [Task -> EngStatus]
  BY BaseFacts, ExistingAreTasks DEF WorkInv
<1>1. ASSUME SameEngine, view' = view, SameCommand,
             cmd'.phase = "idle" <=> cmd.phase = "idle",
             cmd'.phase = "reconcile" => cmd.phase = "reconcile"
      PROVE  BaselineInv'
  <2>1. \A y \in Existing : NotYetOrGone(y) => NotYetOrGone(y)'
    BY <1>1 DEF SameEngine, NotYetOrGone
  <2> QED
    BY <1>1, <2>1, StartedSame, BaselineKept DEF SameEngine, SameCommand
<1>2. ASSUME NEW x \in Task, EngineMoves(x)
      PROVE  BaselineInv'
  <2>1. /\ cmd' = cmd /\ view' = view
        /\ \/ /\ x \in Existing /\ eng[x] = "new" /\ cmd.phase = "idle" /\ view = AbsentAll
              /\ eng' = [eng EXCEPT ![x] = "Active"]
           \/ \E s \in {"Complete", "Error"} : eng[x] = "Active" /\ eng' = [eng EXCEPT ![x] = s]
           \/ x \in Existing /\ eng[x] \in TerminalSt /\ eng' = [eng EXCEPT ![x] = "absent"]
    BY <1>0, <1>2, EngineMovesStep DEF Alone
  <2>2. Started' = Started
    BY <1>0, <2>1 DEF Started
  <2>3. \A y \in Existing : NotYetOrGone(y) =>
            NotYetOrGone(y)' \/ (cmd.phase = "idle" /\ cmd'.phase = "idle" /\ view = AbsentAll)
    BY <1>0, <2>1 DEF NotYetOrGone, TerminalSt
  <2> QED
    BY <2>1, <2>2, <2>3, BaselineKept
<1>3. ASSUME NEW op \in Operations, NEW S \in (SUBSET Task) \ {{}}, Begin(op, S)
      PROVE  BaselineInv'
  <2>1. /\ cmd'.phase \in {"preflight", "execute"} /\ cmd.phase = "idle" /\ eng' = eng
        /\ view # AbsentAll
        /\ cmd'.baseline = Reconciled(op)
        /\ cmd'.original = IF Reconciled(op) THEN view ELSE AbsentAll
    <3>1. PICK x \in S : view[x] # "absent"
      BY <1>0, <1>3, BeginStep
    <3>2. view # AbsentAll
      BY <3>1 DEF AbsentAll
    <3> QED
      BY <1>0, <1>3, <3>2, BeginStep DEF SameEngine
  <2>2. \A y \in Task \ Existing : view[y] = "absent"
    <3> TAKE y \in Task \ Existing
    <3>1. eng[y] = "new"
      BY <2>1 DEF CountInv, Started
    <3> QED
      BY <1>0, <3>1 DEF BaseInv, SeenInv, PastIsTrue, StillTrue
  <2>3. \A y \in Existing : view[y] = "absent" => eng[y] \in {"new", "absent"}
    BY <2>1 DEF BaselineInv
  <2>4. CASE Reconciled(op)
    <3>1. cmd'.original = view
      BY <2>1, <2>4
    <3> QED
      BY <2>1, <2>2, <2>3, <3>1 DEF BaselineInv, Original
  <2>5. CASE ~Reconciled(op)
    <3>1. cmd'.original = AbsentAll /\ ~cmd'.baseline
      BY <2>1, <2>5
    <3> QED
      BY <2>1, <3>1 DEF BaselineInv, Original, AbsentAll
  <2> QED
    BY <2>4, <2>5
<1>4. CASE Reconnect \/ Poll
  <2>1. /\ cmd' = cmd /\ eng' = eng /\ view' = Snapshot /\ BeforeSending
    BY <1>4 DEF Reconnect, Poll, CoordinatorIsFree, BeforeSending, engVars
  <2>2. \A y \in Existing : view'[y] = "absent" => eng[y] \in {"new", "absent"}
    BY <1>0, <2>1, FullSnapshot
  <2>3. Started' = Started
    BY <2>1 DEF Started
  <2> QED
    BY <2>1, <2>2 DEF BaselineInv, Original, BeforeSending
<1>5. CASE ForcedRefresh
  <2>1. /\ cmd.phase = "refreshing" /\ SameCommand /\ SameEngine
        /\ \/ view' = Snapshot /\ cmd'.phase = "reconcile"
           \/ view' = view /\ cmd'.phase = "executed"
    BY <1>0, <1>5, ForcedRefreshStep DEF Moved
  <2>2. CASE view' = view /\ cmd'.phase = "executed"
    BY <1>1, <2>1, <2>2
  <2>3. CASE view' = Snapshot /\ cmd'.phase = "reconcile"
    <3>1. cmd.baseline /\ eng' = eng /\ cmd'.baseline = cmd.baseline /\ cmd'.op = cmd.op
          /\ \A y : Original(y)' = Original(y)
      BY <1>0, <2>1 DEF BaseInv, CommandIsWhole, SameCommand, SameEngine, Original
    <3>2. Started' = Started /\ (cmd.op = "Retry" => \A y \in Started : view'[y] # "absent")
      BY <1>0, <2>3, <3>1, FullSnapshot DEF Started, CountInv
    <3>3. \A y \in Existing : Original(y) = "absent" => eng[y] \in {"new", "absent"}
      BY <2>1, <3>1 DEF BaselineInv
    <3>4. \A y \in Existing : Original(y) = "absent" => view'[y] = "absent"
      BY <1>0, <2>3, <3>3, SnapshotFacts DEF StillTrue
    <3> QED
      BY <2>3, <3>1, <3>2, <3>3, <3>4 DEF BaselineInv
  <2> QED
    BY <2>1, <2>2, <2>3
<1>6. CASE EngineServes \/ ServeLate
  BY <1>6, RequestServed, BaselineServed
<1>7. CASE UNCHANGED opVars
  BY <1>1, <1>7, OpStutter DEF SameCommand
<1>8. CASE LoseLate \/ Disconnect
  <2>1. SameEngine /\ cmd' = cmd /\ view' = view
    BY <1>8 DEF LoseLate, Disconnect, SameEngine, engVars, cmdVars
  <2> QED
    BY <1>1, <2>1 DEF SameCommand
<1>9. CASE PreflightFails \/ PreflightPasses \/ Execute \/ ItemsDone \/ Report
  <2>1. /\ view' = view /\ cmd.phase # "idle"
        /\ \E p \in Phase \ {"idle", "reconcile"} : \E o, c, g : Moved(p, o, c, g)
    <3>1. {"reported", "trashFirst", "execute", "next", "refreshing", "executed", "trashAfter"}
            \subseteq Phase \ {"idle", "reconcile"}
      BY DEF Phase
    <3> QED
      BY <1>0, <1>9, <3>1, PreflightFailsStep, PreflightPassesStep, ExecuteStep, ItemsDoneStep, ReportStep
  <2> QED
    BY <1>1, <2>1 DEF Moved
<1>10. CASE Trash \/ ReconcileRemovals \/ ReconcileRetries
  <2>1. /\ view' = view /\ cmd.phase # "idle"
        /\ \E p \in {"execute", "reported", "executed"} : \E o, c, g : Moved(p, o, c, g)
    BY <1>0, <1>10, TrashStep, ReconcileRemovalsStep, ReconcileRetriesStep
  <2> QED
    BY <1>1, <2>1 DEF Moved
<1>11. ASSUME NEW x, NEW o, NEW g, cmd.phase \in {"next", "awaiting"}, Settled1(x, o, g) \/ Asked(o, x)
      PROVE  BaselineInv'
  BY <1>1, <1>11 DEF Settled1, Asked
<1>12. ASSUME NEW x \in Task, SkipItem(x) \/ SendItem(x)
      PROVE  BaselineInv'
  BY <1>0, <1>11, <1>12, SkipItemStep, SendItemStep
<1>13. CASE NextRequestFollows \/ ItemSettles \/ RequestFails
  BY <1>0, <1>11, <1>13, NextRequestFollowsStep, ItemSettlesStep, RequestFailsStep
<1> QED
  BY <1>2, <1>3, <1>4, <1>5, <1>6, <1>7, <1>8, <1>9, <1>10, <1>12, <1>13 DEF OpNext, CommandStep

-----------------------------------------------------------------------------
(***************************************************************************)
(* What is reported.                                                         *)
(***************************************************************************)
\* Of the items of one source, D carried out, OK known to be and U unknown, M
\* are matched with the downloads S without the gids G of OK: all of U or as
\* many as there are downloads.
Matched(D, OK, U, S, G, m, M) ==
  /\ {D, OK, U, S} \subseteq SUBSET Task /\ G \subseteq S /\ M \subseteq U
  /\ Cardinality(S) = Cardinality(D) /\ Cardinality(G) = Cardinality(OK)
  /\ OK \cap U = {} /\ D \subseteq OK \cup U
  /\ \A y \in M : m[y] \in S \ G
  /\ \A y, z \in M : m[y] = m[z] => y = z
  /\ M # U => \A c \in S \ G : \E z \in M : c = m[z]

\* So as many are matched as D has more than OK.
LEMMA CountByMatching ==
  ASSUME NEW D, NEW OK, NEW U, NEW S, NEW G, NEW m, NEW M, Matched(D, OK, U, S, G, m, M)
  PROVE  Cardinality(OK \cup M) = Cardinality(D)
<1> USE DEF Matched
<1> DEFINE C == S \ G
           f == [y \in M |-> m[y]]
<1>1. /\ IsFiniteSet(D) /\ IsFiniteSet(OK) /\ IsFiniteSet(S) /\ IsFiniteSet(G) /\ IsFiniteSet(C)
      /\ IsFiniteSet(M)
  <2>1. G \in SUBSET Task /\ C \in SUBSET Task /\ M \in SUBSET Task
    OBVIOUS
  <2> HIDE DEF C
  <2> QED
    BY <2>1, TasksAreFinite, FS_Subset
<1>2. /\ Cardinality(D) \in Nat /\ Cardinality(OK) \in Nat /\ Cardinality(C) \in Nat
      /\ Cardinality(M) \in Nat /\ Cardinality(G) \in Nat
  BY <1>1, FS_CardinalityType
<1>3. Cardinality(S) = Cardinality(G) + Cardinality(C)
  <2>1. S = G \cup C /\ G \cap C = {}
    OBVIOUS
  <2> HIDE DEF C
  <2>2. Cardinality(G \cup C) = Cardinality(G) + Cardinality(C) - Cardinality(G \cap C)
    BY <1>1, FS_Union
  <2>3. Cardinality(G \cap C) = 0
    BY <2>1, FS_EmptySet
  <2> QED
    BY <1>2, <2>1, <2>2, <2>3
<1>4. Cardinality(OK \cup M) = Cardinality(OK) + Cardinality(M)
  <2>1. Cardinality(OK \cup M) = Cardinality(OK) + Cardinality(M) - Cardinality(OK \cap M)
    BY <1>1, FS_Union
  <2>2. OK \cap M = {}
    OBVIOUS
  <2>3. Cardinality(OK \cap M) = 0
    BY <2>2, FS_EmptySet
  <2> QED
    BY <1>2, <2>1, <2>3
<1>5. f \in Injection(M, C)
  BY DEF Injection, IsInjective
<1>6. /\ Cardinality(M) <= Cardinality(C)
      /\ Cardinality(M) = Cardinality(C) <=> f \in Surjection(M, C)
  <2> HIDE DEF C, f
  <2> QED
    BY <1>1, <1>5, FS_Injection
<1>7. CASE M # U
  <2>1. f \in Surjection(M, C)
    BY <1>5, <1>7 DEF Surjection, Injection
  <2> HIDE DEF C, f
  <2> QED
    BY <1>2, <1>3, <1>4, <1>6, <2>1
<1>8. CASE M = U
  <2>1. D \in SUBSET (OK \cup M) /\ IsFiniteSet(OK \cup M)
    BY <1>1, <1>8, FS_Union
  <2>2. Cardinality(D) <= Cardinality(OK \cup M)
    BY <2>1, FS_Subset
  <2> HIDE DEF C, f
  <2> QED
    BY <1>2, <1>3, <1>4, <1>6, <2>2
<1> QED
  BY <1>7, <1>8

\* After the reconciliation of retries the numbers are right.
LEMMA RetriesReconcile ==
  ASSUME WorkInv, CountInv, BaselineInv, ReportInv, ReconcileRetries
  PROVE  ByNumbers'
<1>0. /\ BaseInv /\ LinkInv /\ cmd.targets \subseteq Task /\ cmd.gids \subseteq Task /\ done \subseteq Task
      /\ cmd.outcome \in [Task -> Outcome]
  BY BaseFacts DEF WorkInv
<1>1. PICK m \in Matchings : Moved("executed", RetriesReconciled(m), cmd.context,
                                   cmd.gids \cup ({m[x] : x \in UnknownItems} \ {NoTask}))
  BY <1>0, ReconcileRetriesStep
<1>2. cmd.phase = "reconcile" /\ cmd.op = "Retry" /\ Quiet
  BY <1>0, ReconcileRetriesStep DEF LinkInv
<1> DEFINE o == RetriesReconciled(m)
           OK2 == {y \in cmd.targets : o[y] = "ok"}
<1>3. ASSUME NEW x \in Task
      PROVE  Tally(source[x], OK2) = Tally(source[x], done)
  <2> DEFINE s == source[x]
             D == Of1(s, done)
             OK == Of1(s, OkItems)
             U == Of1(s, UnknownItems)
             S == Of1(s, Started)
             G == Of1(s, cmd.gids)
             M == {y \in U : m[y] # NoTask}
  <2>1. /\ D \in SUBSET Task /\ OK \in SUBSET Task /\ U \in SUBSET Task /\ S \in SUBSET Task
        /\ M \in SUBSET U
    BY <1>0 DEF Of1, OkItems, WithOutcome, UnknownItems, Started
  <2>2. G \in SUBSET S
    BY <1>2 DEF WorkInv, AnswerInv, Sending, Of1
  <2>3. Cardinality(S) = Cardinality(D) /\ Cardinality(G) = Cardinality(OK)
    BY <1>2 DEF CountInv, Sending, OkItems
  <2>4. OK \cap U = {}
    BY DEF Of1, OkItems, WithOutcome, UnknownItems
  <2>5. D \subseteq OK \cup U
    <3>1. \A y \in done : y \in cmd.targets /\ cmd.outcome[y] \in {"ok", "unknown"}
      <4>1. \A y \in Task : cmd.outcome[y] # "filesystem"
        BY <1>0, <1>2 DEF BaseInv, CommandIsWhole
      <4> QED
        BY <1>0, <1>2, <4>1 DEF ReportInv, ByNumbers, ItemByItem, Awaited
    <3> QED
      BY <3>1 DEF Of1, OkItems, WithOutcome, UnknownItems
  <2>6. \A y \in U : Candidates(y) = S \ G
    <3>1. \A y \in Task : view[y] # "absent" => eng[y] # "new"
      BY <1>0 DEF BaseInv, SeenInv, PastIsTrue, StillTrue
    <3>2. /\ \A y \in Started : view[y] # "absent" /\ Original(y) = "absent"
          /\ \A y \in Existing : Original(y) = "absent" => view[y] = "absent"
      BY <1>2 DEF BaselineInv, Started
    <3>3. \A y \in Task : view[y] # "absent" /\ Original(y) = "absent" <=> y \in Started
      BY <3>1, <3>2 DEF Started
    <3> QED
      BY <3>3 DEF Candidates, Of1, Started
  <2>7. /\ \A y \in UnknownItems :
             /\ m[y] # NoTask => m[y] \in Candidates(y)
             /\ \A z \in UnknownItems \ {y} : m[y] = m[z] => m[y] = NoTask
             /\ m[y] = NoTask => Candidates(y) \subseteq {m[z] : z \in UnknownItems}
    BY DEF Matchings
  <2>8. U \subseteq UnknownItems
    BY DEF Of1
  <2>9. \A y \in M : m[y] \in S \ G
    BY <2>6, <2>7, <2>8
  <2>10. \A y, z \in M : m[y] = m[z] => y = z
    BY <2>7, <2>8
  <2>11. M # U => \A c \in S \ G : \E z \in M : c = m[z]
    <3> SUFFICES ASSUME M # U, NEW c \in S \ G
                 PROVE  \E z \in M : c = m[z]
      OBVIOUS
    <3>1. PICK y \in U : m[y] = NoTask
      OBVIOUS
    <3>2. PICK z \in UnknownItems : c = m[z]
      BY <2>6, <2>7, <2>8, <3>1
    <3>3. c \in Task /\ c # NoTask /\ source[c] = s
      BY AnswersDiffer DEF Of1, Started
    <3>4. c \in Candidates(z)
      BY <2>7, <3>2, <3>3
    <3>5. source[z] = s
      BY <3>3, <3>4 DEF Candidates
    <3> QED
      BY <3>2, <3>3, <3>5 DEF Of1
  <2>12. Of1(s, OK2) = OK \cup M
    BY <1>0 DEF Of1, OkItems, WithOutcome, UnknownItems, RetriesReconciled
  <2> HIDE DEF D, OK, U, S, G, M, OK2
  <2>13. Cardinality(OK \cup M) = Cardinality(D)
    <3>1. Matched(D, OK, U, S, G, m, M)
      BY <2>1, <2>2, <2>3, <2>4, <2>5, <2>9, <2>10, <2>11 DEF Matched
    <3> QED
      BY <3>1, CountByMatching
  <2> QED
    BY <2>12, <2>13 DEF Tally, D
<1>4. /\ WithOutcome({"ok"})' = OK2 /\ WithOutcome({"ok", "unknown"})' = OK2
      /\ done' = done /\ source' = source /\ cmd'.phase = "executed" /\ cmd'.op = "Retry" /\ Quiet'
  <2>1. /\ cmd'.outcome = o /\ cmd'.targets = cmd.targets /\ done' = done /\ source' = source
        /\ cmd'.phase = "executed" /\ cmd'.op = "Retry" /\ wire' = wire /\ late' = late
    BY <1>1, <1>2 DEF Moved, SameCommand, SameEngine, SameLink
  <2>2. \A y \in cmd.targets : o[y] # "unknown"
    BY <1>0 DEF RetriesReconciled, UnknownItems
  <2> QED
    BY <1>2, <2>1, <2>2 DEF WithOutcome, Quiet
<1> HIDE DEF OK2, o
<1>5. ASSUME NEW x \in Task
      PROVE  /\ Cardinality(Of1(source[x], WithOutcome({"ok"}))') <= Cardinality(Of1(source[x], done)')
             /\ Cardinality(Of1(source[x], done)') <= Cardinality(Of1(source[x], WithOutcome({"ok", "unknown"}))')
  <2>1. /\ Of1(source[x], WithOutcome({"ok"}))' = Of1(source[x], OK2)
        /\ Of1(source[x], WithOutcome({"ok", "unknown"}))' = Of1(source[x], OK2)
        /\ Of1(source[x], done)' = Of1(source[x], done)
    BY <1>4 DEF Of1
  <2>2. Tally(source[x], done) \in Nat
    BY <1>0, Tallies
  <2> QED
    BY <1>3, <2>1, <2>2 DEF Tally
<1> QED
  BY <1>4, <1>5 DEF ByNumbers

Carries == {"ok", "unknown", "filesystem"}

\* A step that carries nothing out, of a command reported item by item.
LEMMA ItemsKept ==
  ASSUME WorkInv, ReportInv, ItemByItem, done' = done, SameCommand,
         \A x \in done : cmd.outcome[x] \in Carries => cmd'.outcome[x] \in Carries,
         \A x \in done : Awaited(x) => cmd'.outcome[x] \in Carries \/ Awaited(x)',
         \A x \in Task : cmd.op \notin Removals /\ cmd'.outcome[x] = "ok" =>
                           cmd.outcome[x] = "ok" \/ x \in done
  PROVE  ReportInv'
BY DEF ReportInv, ItemByItem, SameCommand, Carries

LEMMA NumbersKept ==
  ASSUME ReportInv, ByNumbers, done' = done, source' = source, SameCommand,
         cmd'.outcome = cmd.outcome, cmd'.phase \in {"executed", "reported"}, Quiet'
  PROVE  ReportInv'
<1>1. \A O : WithOutcome(O)' = WithOutcome(O)
  BY DEF WithOutcome, SameCommand
<1>2. \A s : /\ Of1(s, done)' = Of1(s, done)
             /\ Of1(s, WithOutcome({"ok"}))' = Of1(s, WithOutcome({"ok"}))
             /\ Of1(s, WithOutcome({"ok", "unknown"}))' = Of1(s, WithOutcome({"ok", "unknown"}))
  BY <1>1 DEF Of1
<1>3. \A x \in Task : source'[x] = source[x]
  OBVIOUS
<1> QED
  BY <1>2, <1>3 DEF ReportInv, ByNumbers, SameCommand

LEMMA ReportServed ==
  ASSUME WorkInv, ReportInv, NEW q \in Requests, NEW a \in {"ok", "refused"} \cup Task, Served(q, a)
  PROVE  ReportInv'
<1>1. ItemByItem /\ cmd' = cmd /\ ~Quiet
  BY DEF Served, ReportInv, ByNumbers
<1>2. \/ done' = done
      \/ done' = done \cup {q.task} /\ UnderWay(q.task)
  BY DEF Served, Carried
<1> QED
  BY <1>1, <1>2 DEF ReportInv, ItemByItem, UnderWay, Awaited

LEMMA ReportedStep ==
  ASSUME WorkInv, RemovalInv, CountInv, "Retry" \in Operations => BaselineInv, ReportInv, [OpNext]_opVars
  PROVE  ReportInv'
<1>0. /\ cmd.outcome \in [Task -> Outcome] /\ cmd.targets \subseteq Task /\ done \subseteq Task
      /\ BaseInv /\ LinkInv /\ PendingInv /\ AnswerInv /\ done \subseteq cmd.targets
      /\ cmd.todo \subseteq cmd.targets
  BY BaseFacts DEF WorkInv, ReportInv
<1>1. ASSUME SameEngine, cmd' = cmd, Quiet => Quiet'
      PROVE  ReportInv'
  <2>1. \A x : Awaited(x)' <=> Awaited(x)
    BY <1>1 DEF Awaited
  <2>2. CASE ItemByItem
    BY <1>1, <2>1, <2>2, ItemsKept DEF SameEngine, SameCommand
  <2>3. CASE ByNumbers
    BY <1>1, <2>3, NumbersKept DEF SameEngine, SameCommand, ByNumbers
  <2> QED
    BY <2>2, <2>3 DEF ReportInv
<1>2. ASSUME NEW x \in Task, EngineMoves(x)
      PROVE  ReportInv'
  <2>1. /\ cmd' = cmd /\ done' = done /\ source' = source /\ wire' = wire /\ late' = late
        /\ \A y : Awaited(y)' <=> Awaited(y)
    BY <1>0, <1>2, EngineMovesStep DEF Alone, SameLink, Awaited
  <2>2. CASE ItemByItem
    BY <2>1, <2>2, ItemsKept DEF SameCommand
  <2>3. CASE ByNumbers
    BY <2>1, <2>3, NumbersKept DEF SameCommand, ByNumbers, Quiet
  <2> QED
    BY <2>2, <2>3 DEF ReportInv
<1>3. ASSUME NEW op \in Operations, NEW S \in (SUBSET Task) \ {{}}, Begin(op, S)
      PROVE  ReportInv'
  <2>1. /\ cmd'.phase \in {"preflight", "execute"} /\ cmd'.outcome = [x \in Task |-> "none"]
        /\ cmd.phase = "idle" /\ done' = done
    BY <1>0, <1>3, BeginStep DEF SameEngine
  <2>2. done' = {}
    BY <1>0, <2>1 DEF LinkInv, BeforeSending
  <2> QED
    BY <2>1, <2>2 DEF ReportInv, ItemByItem
\* A phase that moves with the outcomes it has.
<1>4. ASSUME NEW p, NEW c, NEW g, Moved(p, cmd.outcome, c, g), cmd.phase # "awaiting",
             cmd.phase \in {"executed", "reported"} => p = "reported" \/ cmd.op # "Retry"
      PROVE  ReportInv'
  <2>1. /\ done' = done /\ source' = source /\ SameCommand /\ cmd'.outcome = cmd.outcome
        /\ cmd'.phase = p /\ wire' = wire /\ late' = late
    BY <1>4 DEF Moved, SameEngine, SameLink
  <2>2. CASE ItemByItem
    BY <1>4, <2>1, <2>2, ItemsKept DEF Awaited
  <2>3. CASE ByNumbers
    BY <1>4, <2>1, <2>3, NumbersKept DEF ByNumbers, Quiet
  <2> QED
    BY <2>2, <2>3 DEF ReportInv
\* One that moves with new outcomes, of a command reported item by item.
<1>5. ASSUME NEW p, NEW c, NEW g, NEW o, Moved(p, o, c, g), ItemByItem, cmd.phase # "awaiting",
             \A x \in done : cmd.outcome[x] \in Carries => o[x] \in Carries,
             \A x \in Task : cmd.op \notin Removals /\ o[x] = "ok" => cmd.outcome[x] = "ok"
      PROVE  ReportInv'
  <2>1. done' = done /\ SameCommand /\ cmd'.outcome = o
    BY <1>5 DEF Moved, SameEngine
  <2> QED
    BY <1>5, <2>1, ItemsKept DEF Awaited
<1>6. cmd.phase \notin {"executed", "reported"} => ItemByItem
  BY DEF ReportInv, ByNumbers
<1>7. ASSUME NEW x \in cmd.todo, NEW o \in Outcome, NEW g, Settled1(x, o, g),
             cmd.phase \in {"next", "awaiting"}, \A y : Awaited(y) => y = x,
             x \in done => o \in Carries,
             o = "ok" /\ cmd.op \notin Removals => x \in done
      PROVE  ReportInv'
  <2>1. /\ done' = done /\ SameCommand /\ cmd'.outcome = [cmd.outcome EXCEPT ![x] = o]
    BY <1>7 DEF Settled1, SameEngine
  <2>2. /\ cmd'.outcome[x] = o /\ \A y \in Task \ {x} : cmd'.outcome[y] = cmd.outcome[y]
    BY <1>0, <2>1
  <2> QED
    BY <1>0, <1>6, <1>7, <2>1, <2>2, ItemsKept
<1>8. ASSUME NEW x, NEW k, Asked(k, x), cmd.phase \in {"next", "awaiting"},
             \A y : Awaited(y) => y = x /\ k \in Mutations
      PROVE  ReportInv'
  <2>1. /\ done' = done /\ SameCommand /\ cmd'.outcome = cmd.outcome
        /\ \A y : Awaited(y) => Awaited(y)'
    BY <1>8 DEF Asked, SameEngine, Awaited
  <2> QED
    BY <1>6, <1>8, <2>1, ItemsKept
<1>9. CASE UNCHANGED opVars
  BY <1>1, <1>9, OpStutter DEF Quiet, SameLink
<1>10. CASE LoseLate \/ Disconnect \/ Reconnect \/ Poll
  <2>1. cmd' = cmd /\ SameEngine
    BY <1>0, <1>10, LinkSteps DEF Alone
  <2>2. Quiet => Quiet'
    <3>1. Quiet => DOMAIN wire = {}
      BY DEF Quiet
    <3> QED
      BY <1>0, <1>10, <3>1, LinkSteps DEF Quiet
  <2> QED
    BY <1>1, <2>1, <2>2
<1>11. CASE EngineServes \/ ServeLate
  BY <1>11, RequestServed, ReportServed
<1>12. CASE PreflightFails \/ Execute
  <2>1. /\ cmd.phase \in {"preflight", "execute"}
        /\ \/ Moved("reported", FailAll(cmd.targets, "failed"), cmd.context, cmd.gids)
           \/ Moved("next", cmd.outcome, view, cmd.gids)
    BY <1>0, <1>12, PreflightFailsStep, ExecuteStep
  <2>2. \A x \in Task : FailAll(cmd.targets, "failed")[x] = "ok" => cmd.outcome[x] = "ok"
    BY <1>0, FailAllFacts DEF Outcome
  <2>3. done = {} /\ ItemByItem
    BY <1>0, <1>6, <2>1 DEF LinkInv, BeforeSending
  <2> QED
    BY <1>4, <1>5, <2>1, <2>2, <2>3
<1>13. CASE PreflightPasses
  <2>1. PICK p \in {"trashFirst", "execute"} :
          cmd.phase = "preflight" /\ Moved(p, cmd.outcome, cmd.context, cmd.gids)
    BY <1>0, <1>13, PreflightPassesStep
  <2> QED
    BY <1>4, <2>1
<1>14. CASE Trash
  <2>1. /\ cmd.phase \in {"trashFirst", "trashAfter"}
        /\ \/ \E p : Moved(p, cmd.outcome, cmd.context, cmd.gids)
           \/ Moved("reported", FailAll(cmd.targets, "filesystem"), cmd.context, cmd.gids)
    BY <1>0, <1>14, TrashStep
  <2>2. /\ \A x \in Task : FailAll(cmd.targets, "filesystem")[x] = "ok" => cmd.outcome[x] = "ok"
        /\ \A x \in done : FailAll(cmd.targets, "filesystem")[x] \in Carries
    BY <1>0, FailAllFacts DEF Outcome, Carries
  <2> QED
    BY <1>4, <1>5, <1>6, <2>1, <2>2
<1>15. ASSUME NEW x \in Task, SkipItem(x) \/ SendItem(x)
       PROVE  ReportInv'
  <2>1. cmd.phase = "next" /\ x \in cmd.todo
    BY <1>0, <1>15, SkipItemStep, SendItemStep
  <2>2. x \notin done /\ \A y : ~Awaited(y)
    BY <1>0, <2>1 DEF PendingInv, Sending, Awaited
  <2>3. CASE SkipItem(x)
    BY <1>0, <1>7, <2>1, <2>2, <2>3, SkipItemStep DEF Outcome
  <2>4. CASE SendItem(x)
    <3>1. PICK k \in RequestsOf(cmd.op) :
             \/ online /\ Asked(k, x)
             \/ ~online /\ Settled1(x, Unanswered(k), cmd.gids)
      BY <1>0, <2>4, SendItemStep
    <3>2. k \in Kind
      BY RequestsOfKind
    <3>3. Unanswered(k) \in Outcome \ {"ok"}
      BY <3>2, UnansweredFacts
    <3> QED
      BY <1>7, <1>8, <2>1, <2>2, <3>1, <3>3
  <2> QED
    BY <1>15, <2>3, <2>4
<1>16. CASE NextRequestFollows
  <2>1. /\ cmd.phase = "awaiting" /\ Asked(NextRequest, cmd.item) /\ NextRequest \in {"add", "removeResult"}
    BY <1>0, <1>16, NextRequestFollowsStep
  <2>2. NextRequest \in Mutations /\ \A y : Awaited(y) => y = cmd.item
    BY <2>1 DEF Mutations, Kind, Awaited
  <2> QED
    BY <1>8, <2>1, <2>2
<1>17. CASE ItemSettles
  <2>1. PICK o \in {"rejected", "ok"} :
          /\ o = "ok" <=> answer # "refused"
          /\ cmd.phase = "awaiting" /\ answer # NoAnswer /\ cmd.item \in cmd.todo /\ ~Continues
          /\ Settled1(cmd.item, o, IF answer \in Task THEN cmd.gids \cup {answer} ELSE cmd.gids)
    BY <1>0, <1>17, ItemSettlesStep
  <2>2. cmd.item \in done => o = "ok"
    BY <1>0, <2>1 DEF AnswerInv
  <2>3. o = "ok" => cmd.item \in done
    <3> SUFFICES ASSUME o = "ok" PROVE cmd.item \in done
      OBVIOUS
    <3>1. answer \in Task \cup {"ok"}
      BY <1>0, <2>1, BaseFacts
    <3>2. cmd.rpc \in Kind /\ cmd.rpc # "query"
      <4>1. cmd.rpc \in Kind
        BY <1>0, <2>1, RequestsOfKind DEF BaseInv, CommandIsWhole
      <4> QED
        BY <1>0, <2>1, <3>1, <4>1 DEF AnswerInv, Continues
    <3> QED
      BY <1>0, <3>1, <3>2 DEF AnswerInv, Mutations
  <2>4. \A y : Awaited(y) => y = cmd.item
    BY DEF Awaited
  <2> QED
    BY <1>7, <2>1, <2>2, <2>3, <2>4 DEF Outcome, Carries
<1>18. CASE RequestFails
  <2>1. /\ cmd.item \in cmd.todo /\ cmd.rpc \in Kind /\ Settled1(cmd.item, Unanswered(cmd.rpc), cmd.gids)
        /\ cmd.phase = "awaiting"
    BY <1>0, <1>18, RequestFailsStep
  <2>2. /\ Unanswered(cmd.rpc) \in Outcome \ {"ok"}
        /\ Unanswered(cmd.rpc) = IF cmd.rpc \in Mutations THEN "unknown" ELSE "failed"
    BY <2>1, UnansweredFacts
  <2>3. cmd.item \in done => cmd.rpc \in Mutations
    BY <1>0, <2>1 DEF PendingInv, Sending, Awaited
  <2>4. \A y : Awaited(y) => y = cmd.item
    BY DEF Awaited
  <2> QED
    BY <1>7, <2>1, <2>2, <2>3, <2>4 DEF Carries
<1>19. CASE ItemsDone
  <2>1. PICK p \in {"refreshing", "executed"} : cmd.phase = "next" /\ Moved(p, cmd.outcome, AbsentAll, cmd.gids)
    BY <1>0, <1>19, ItemsDoneStep
  <2> QED
    BY <1>4, <2>1
<1>20. CASE ForcedRefresh
  <2>1. PICK p \in {"reconcile", "executed"} :
          cmd.phase = "refreshing" /\ Moved(p, cmd.outcome, cmd.context, cmd.gids)
    BY <1>0, <1>20, ForcedRefreshStep
  <2> QED
    BY <1>4, <2>1
<1>21. CASE ReconcileRemovals
  <2>1. /\ cmd.phase = "reconcile" /\ cmd.op \in Removals
        /\ Moved("executed", RemovalsReconciled, cmd.context, cmd.gids)
    BY <1>0, <1>21, ReconcileRemovalsStep
  <2>2. ASSUME NEW x \in done, cmd.outcome[x] \in Carries
        PROVE  RemovalsReconciled[x] \in Carries
    <3>1. Original(x) # "absent" => RemovalObserved(x)
      BY <1>0, <2>1 DEF RemovalInv
    <3> QED
      BY <1>0, <2>2, <3>1 DEF RemovalsReconciled, Carries
  <2> QED
    BY <1>5, <1>6, <2>1, <2>2
<1>22. CASE ReconcileRetries
  <2>1. ByNumbers'
    <3>1. BaselineInv
      BY <1>0, <1>22 DEF ReconcileRetries, BaseInv, CommandIsWhole
    <3> QED
      BY <1>22, <3>1, RetriesReconcile
  <2>2. done' = done /\ cmd'.targets = cmd.targets
    BY <1>0, <1>22, ReconcileRetriesStep DEF Moved, SameEngine, SameCommand
  <2> QED
    BY <1>0, <2>1, <2>2 DEF ReportInv
<1>23. CASE Report
  <2>1. PICK p \in {"reported", "trashAfter"} :
          /\ p = "trashAfter" => cmd.op = "RemoveWithFiles"
          /\ cmd.phase = "executed" /\ Moved(p, cmd.outcome, cmd.context, cmd.gids)
    BY <1>0, <1>23, ReportStep
  <2> QED
    BY <1>4, <2>1
<1> QED
  BY <1>2, <1>3, <1>9, <1>10, <1>11, <1>12, <1>13, <1>14, <1>15, <1>16, <1>17, <1>18, <1>19, <1>20,
     <1>21, <1>22, <1>23 DEF OpNext, CommandStep

LEMMA ReportIsTrue ==
  ASSUME WorkInv, RemovalInv, ReportInv
  PROVE  OutcomesAreTruthful
<1>0. /\ BaseInv /\ LinkInv /\ PendingInv /\ cmd.targets \subseteq Task /\ done \subseteq cmd.targets
      /\ CommandIsWhole
  BY BaseFacts DEF WorkInv, ReportInv
<1> SUFFICES ASSUME Reported, NEW x \in cmd.targets
             PROVE  /\ Cardinality(Settled(x, {"ok"})) <= Cardinality({y \in Twins(x) : HasHappened(y)})
                    /\ cmd.outcome[x] \in Definite =>
                         /\ Cardinality(Twins(x) \cap done) <= Cardinality(Settled(x, {"ok", "unknown"}))
                         /\ ~OnTheWire(x)
  BY DEF OutcomesAreTruthful
<1>1. \A y : ~Awaited(y)
  BY DEF Awaited, Reported
<1>2. Twins(x) \in SUBSET Task
  BY <1>0 DEF Twins
<1>3. CASE ItemByItem
  <2>1. {y \in Twins(x) : HasHappened(y)} \in SUBSET Task /\ Settled(x, {"ok", "unknown"}) \in SUBSET Task
    BY <1>2 DEF Settled
  <2>2. /\ IsFiniteSet({y \in Twins(x) : HasHappened(y)})
        /\ IsFiniteSet(Settled(x, {"ok", "unknown"}))
    BY <2>1, TasksAreFinite, FS_Subset
  <2>3. Settled(x, {"ok"}) \in SUBSET {y \in Twins(x) : HasHappened(y)}
    <3> SUFFICES ASSUME NEW y \in Twins(x), cmd.outcome[y] = "ok" PROVE HasHappened(y)
      BY DEF Settled
    <3>1. y \in Task
      BY <1>2
    <3>2. CASE cmd.op \in Removals
      BY <3>1, <3>2 DEF RemovalInv, HasHappened, OutOfWork, TerminalSt, Live
    <3>3. CASE cmd.op \notin Removals
      BY <1>3, <3>1, <3>3 DEF ItemByItem, HasHappened
    <3> QED
      BY <3>2, <3>3
  <2>4. cmd.outcome[x] \in Definite => Twins(x) \cap done \in SUBSET Settled(x, {"ok", "unknown"})
    <3> SUFFICES ASSUME cmd.outcome[x] \in Definite, NEW y \in Twins(x) \cap done
                 PROVE  cmd.outcome[y] \in {"ok", "unknown"}
      BY DEF Settled
    <3>1. cmd.outcome[y] \in {"ok", "unknown", "filesystem"} /\ y \in Task
      BY <1>1, <1>2, <1>3 DEF ItemByItem
    <3>2. cmd.outcome[y] = "filesystem" => y = x
      BY <1>0, <3>1 DEF CommandIsWhole, Twins
    <3> QED
      BY <3>1, <3>2 DEF Definite
  <2>5. cmd.outcome[x] \in Definite => ~OnTheWire(x)
    <3> SUFFICES ASSUME cmd.outcome[x] \in Definite, OnTheWire(x) PROVE FALSE
      OBVIOUS
    <3>1. \A q \in ToSet(wire) : \E i \in DOMAIN wire : q = wire[i]
      BY DEF ToSet
    <3>2. UnderWay(x)
      BY <1>0, <3>1 DEF OnTheWire, PendingInv
    <3> QED
      BY <1>1, <3>2 DEF UnderWay, Definite
  <2> QED
    BY <2>2, <2>3, <2>4, <2>5, FS_Subset
<1>4. CASE ByNumbers
  <2>1. cmd.op = "Retry" /\ Quiet /\ "Retry" \notin Removals /\ x \in Task
    BY <1>0, <1>4 DEF ByNumbers, Removals
  <2>2. \A O : Settled(x, O) = Of1(source[x], WithOutcome(O))
    BY <2>1 DEF Settled, Twins, Of1, WithOutcome
  <2>3. /\ {y \in Twins(x) : HasHappened(y)} = Of1(source[x], done)
        /\ Twins(x) \cap done = Of1(source[x], done)
    BY <1>0, <2>1 DEF HasHappened, Twins, Of1
  <2>4. ~OnTheWire(x)
    BY <2>1 DEF OnTheWire, Quiet, ToSet
  <2> QED
    BY <1>4, <2>1, <2>2, <2>3, <2>4 DEF ByNumbers
<1> QED
  BY <1>3, <1>4 DEF ReportInv

\* Retries are told apart by what was on the pages before the command.
RetriesSeeAll == "Retry" \in Operations => AllLoaded
RetryInv      == "Retry" \in Operations => BaselineInv

\* What the user is told of a command is so, for any downloads and any loss of
\* requests, answers and connections: a success has happened, and a failure that
\* is not called unknown has not and never will.  For retries every result
\* must be on the loaded pages: a task that comes back onto a page between the
\* baseline and the refresh looks like a replacement.
THEOREM CommandsTellTheTruth ==
  ASSUME RetriesSeeAll
  PROVE  OpSpec => []OutcomesAreTruthful
<1> DEFINE I == RemovalInv /\ CountInv /\ RetryInv /\ ReportInv
<1>1. OpInit => I
  <2> SUFFICES ASSUME OpInit PROVE I
    OBVIOUS
  <2>1. /\ cmd = NoCommand /\ cmd.op = "none" /\ cmd.phase = "idle" /\ ~cmd.baseline
        /\ cmd.outcome = [x \in Task |-> "none"] /\ \A y \in Task : cmd.original[y] = "absent"
        /\ view = AbsentAll /\ done = {} /\ eng = [x \in Task |-> "new"]
    BY DEF OpInit, NoCommand, AbsentAll
  <2>2. RemovalInv
    BY <2>1 DEF RemovalInv, Removals
  <2>3. CountInv
    BY <2>1 DEF CountInv, Started
  <2>4. BaselineInv
    BY <2>1, ExistingAreTasks DEF BaselineInv, Original
  <2>5. ReportInv
    BY <2>1 DEF ReportInv, ItemByItem
  <2> QED
    BY <2>2, <2>3, <2>4, <2>5 DEF RetryInv
<1>2. WorkInv /\ I /\ [OpNext]_opVars => I'
  <2> SUFFICES ASSUME WorkInv, I, [OpNext]_opVars PROVE I'
    OBVIOUS
  <2>1. RemovalInv'
    BY RemovalStep
  <2>2. CountInv'
    BY CountStep
  <2>3. RetryInv'
    BY BaselineStep DEF RetryInv, RetriesSeeAll
  <2>4. ReportInv'
    BY ReportedStep DEF RetryInv
  <2> QED
    BY <2>1, <2>2, <2>3, <2>4
<1>3. WorkInv /\ I => OutcomesAreTruthful
  BY ReportIsTrue
<1> QED
  BY <1>1, <1>2, <1>3, WorkHolds, PTL DEF OpSpec

-----------------------------------------------------------------------------
(***************************************************************************)
(* The three components in one behaviour.                                    *)
(***************************************************************************)
LEMMA StepIsOfOnePart ==
  ASSUME [Next]_vars
  PROVE  [HintNext]_hintVars /\ [TransportNext]_transportVars /\ [OpNext]_opVars
<1>1. CASE UNCHANGED vars
  BY <1>1 DEF vars
<1>2. ASSUME Hints, HintNext
      PROVE  [HintNext]_hintVars /\ [TransportNext]_transportVars /\ [OpNext]_opVars
  BY <1>2 DEF Hints
<1>3. ASSUME Transport, TransportNext
      PROVE  [HintNext]_hintVars /\ [TransportNext]_transportVars /\ [OpNext]_opVars
  BY <1>3 DEF Transport
<1>4. ASSUME Operation, OpNext
      PROVE  [HintNext]_hintVars /\ [TransportNext]_transportVars /\ [OpNext]_opVars
  BY <1>4 DEF Operation
<1>5. CASE Next
  <2>1. (Hints /\ HintNext) \/ (Transport /\ TransportNext) \/ (Operation /\ OpNext)
    BY <1>5 DEF Next, HintNext, TransportNext, CallerStep, CloseStep, TakeCommand, HandlePayload,
                OpNext, CommandStep
  <2> QED
    BY <1>2, <1>3, <1>4, <2>1
<1> QED
  BY <1>1, <1>5

LEMMA PartsFollowTheirSpecs == Spec => HintSpec /\ TransportSpec /\ OpSpec
BY StepIsOfOnePart, PTL DEF Spec, Init, HintSpec, TransportSpec, OpSpec

\* The three components side by side stay well typed, for all their constants.
THEOREM OperationsStayTyped == Spec => []TypeOK
BY PartsFollowTheirSpecs, HintTypeCorrect, TransportTypeCorrect, PendingStaysUnanswered,
   OperationsTypeCorrect, PTL DEF TypeOK
===============================================================================
