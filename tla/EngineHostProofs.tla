--------------------------- MODULE EngineHostProofs ---------------------------
(***************************************************************************)
(* The lock, the supervisor's budget and the shutdown of EngineHost, for   *)
(* any set of instances, any budget and any window.  The inductive         *)
(* invariant has a part about the lock and one about each engine, which is *)
(* stated over one record and the step of its instance: every action       *)
(* changes the record of one instance, save Tick, which ages them all.     *)
(***************************************************************************)
EXTENDS EngineHost, FiniteSetTheorems, TLAPS

\* An open handle is on the file at the path, and an owner's record is in it.
LockInv ==
  ExclusiveHandles =>
    \A c \in Instance :
      /\ Holds(c) => file = c
      /\ step[c] = "Owned" => record = c

\* Where monitor, child and shutdown of an engine can be, given the step of
\* its instance: a monitor in its loop has a child and the lock, and is
\* joined before anything is killed.
ShutdownOK(e, s) ==
  /\ e.monitor \notin {"none", "done"} => s = "Owned" /\ e.child # "none"
  /\ e.child = "none" => e.monitor = "none" /\ e.closing = "no"
  /\ e.closing \notin {"no", "joining"} => e.monitor \in {"none", "done"}
  /\ e.closing = "stopped" => e.child = "exited"
  /\ e.child = "running" /\ s # "Dead" /\ e.closing # "abandoned" => s = "Owned"

\* The deque holds the attempts of the window, and no more than the budget.
BudgetOK(e) ==
  /\ e.attempts = Recent(e.restarts)
  /\ Cardinality(e.restarts) <= MaxRestarts
  /\ e.monitor \in {"checking", "restarting"} => e.restarts \subseteq 0 .. Window
  /\ e.monitor \in {"awake", "checking", "restarting"} => 0 \notin e.restarts
  /\ e.monitor = "restarting" =>
       e.child = "exited" /\ Cardinality(e.restarts) < MaxRestarts

EngineOK(e, s) == e \in EngineState /\ ShutdownOK(e, s) /\ BudgetOK(e)

HostInv ==
  /\ LockTypeOK
  /\ LockInv
  /\ engine = [c \in Instance |-> engine[c]]
  /\ \A c \in Instance : EngineOK(engine[c], step[c])
-----------------------------------------------------------------------------
\* Sets of ages are finite, and growing older makes them no larger.
LEMMA AgesAreFinite ==
  ASSUME NEW ages \in SUBSET Age
  PROVE  IsFiniteSet(ages) /\ Cardinality(ages) \in Nat
<1>1. IsFiniteSet(Age)
  BY FS_Interval, PolicyAssumption DEF Age
<1> QED
  BY <1>1, FS_Subset, FS_CardinalityType

LEMMA OlderAges ==
  ASSUME NEW ages \in SUBSET Age
  PROVE  /\ Older(ages) \in SUBSET Age
         /\ 0 \notin Older(ages)
         /\ Cardinality(Older(ages)) <= Cardinality(ages)
         /\ Recent(Older(Recent(ages))) = Recent(Older(ages))
<1> DEFINE f == [a \in ages |-> IF a > Window THEN a ELSE a + 1]
<1>1. Older(ages) \in SUBSET Age /\ 0 \notin Older(ages)
  BY PolicyAssumption DEF Older, Age
<1>2. f \in Surjection(ages, Older(ages))
  BY DEF Surjection, Older
<1>3. Cardinality(Older(ages)) <= Cardinality(ages)
  BY <1>2, AgesAreFinite, FS_Surjection
<1>4. Recent(Older(Recent(ages))) = Recent(Older(ages))
  BY PolicyAssumption DEF Older, Recent, Age
<1> QED
  BY <1>1, <1>3, <1>4

LEMMA RecentAges ==
  ASSUME NEW ages \in SUBSET Age
  PROVE  /\ Recent(ages) \in SUBSET Age
         /\ Recent(ages) \subseteq 0 .. Window
         /\ Recent(ages) \subseteq ages
         /\ Cardinality(Recent(ages)) <= Cardinality(ages)
         /\ Recent(Recent(ages)) = Recent(ages)
         /\ ages \subseteq 0 .. Window => Recent(ages) = ages
<1>1. Recent(ages) \in SUBSET ages
  BY DEF Recent
<1>2. Cardinality(Recent(ages)) <= Cardinality(ages)
  BY <1>1, AgesAreFinite, FS_Subset
<1>3. Recent(ages) \subseteq 0 .. Window
  <2>1. ASSUME NEW a \in Recent(ages) PROVE a \in 0 .. Window
    <3>1. a \in 0 .. Window + 1 /\ a <= Window
      BY DEF Recent, Age
    <3> QED
      BY <3>1, PolicyAssumption
  <2> QED
    BY <2>1
<1>4. Recent(Recent(ages)) = Recent(ages)
  BY DEF Recent
<1>5. ASSUME ages \subseteq 0 .. Window PROVE Recent(ages) = ages
  <2>1. ASSUME NEW a \in ages PROVE a <= Window
    BY <1>5, PolicyAssumption
  <2> QED
    BY <2>1 DEF Recent
<1> QED
  BY <1>1, <1>2, <1>3, <1>4, <1>5

LEMMA ChargedAges ==
  ASSUME NEW ages \in SUBSET Age, 0 \notin ages
  PROVE  /\ ages \cup {0} \in SUBSET Age
         /\ Cardinality(ages \cup {0}) = Cardinality(ages) + 1
         /\ Recent(ages \cup {0}) = Recent(ages) \cup {0}
<1>1. Cardinality(ages \cup {0}) = Cardinality(ages) + 1
  BY AgesAreFinite, FS_AddElement
<1> QED
  BY <1>1, PolicyAssumption DEF Recent, Age

LEMMA NoEngineOK ==
  ASSUME NEW s PROVE EngineOK(NoEngine, s)
<1>1. Cardinality({}) = 0 /\ Recent({}) = {}
  BY FS_EmptySet DEF Recent
<1> QED
  BY <1>1, PolicyAssumption
  DEF EngineOK, ShutdownOK, BudgetOK, NoEngine, EngineState, Health, Running, Age

\* An action that writes one record and leaves the lock alone.
LEMMA SetOK ==
  ASSUME NEW c \in Instance, NEW e, HostInv, Set(c, e), EngineOK(e, step[c])
  PROVE  HostInv'
<1>1. LockTypeOK' /\ LockInv'
  BY DEF HostInv, Set, lockVars, LockTypeOK, LockInv, Holds
<1>2. engine' = [engine EXCEPT ![c] = e] /\ step' = step
  BY DEF Set, lockVars
<1>3. engine' = [d \in Instance |-> engine'[d]]
  BY <1>2 DEF HostInv
<1>4. ASSUME NEW d \in Instance PROVE EngineOK(engine'[d], step'[d])
  <2>1. engine'[d] = IF d = c THEN e ELSE engine[d]
    BY <1>2 DEF HostInv
  <2> QED
    BY <2>1, <1>2 DEF HostInv
<1> QED
  BY <1>1, <1>3, <1>4 DEF HostInv
-----------------------------------------------------------------------------
\* One lemma per action.
LEMMA SpawnEngineOK ==
  ASSUME NEW c \in Instance, HostInv, SpawnEngine(c)
  PROVE  HostInv'
<1> DEFINE monitored == [NoEngine EXCEPT !.child = "running", !.monitor = "sleeping"]
           unmonitored == [NoEngine EXCEPT !.child = "running", !.closing = "killing"]
<1>1. EngineOK(NoEngine, "Owned") /\ step[c] = "Owned"
  BY NoEngineOK DEF SpawnEngine
<1>2. EngineOK(monitored, "Owned") /\ EngineOK(unmonitored, "Owned")
  BY <1>1 DEF EngineOK, ShutdownOK, BudgetOK, NoEngine, EngineState
<1> QED
  BY <1>1, <1>2, SetOK DEF SpawnEngine

LEMMA EngineExitsOK ==
  ASSUME NEW c \in Instance, HostInv, EngineExits(c)
  PROVE  HostInv'
<1> DEFINE e == [engine[c] EXCEPT !.child = "exited"]
<1>1. EngineOK(engine[c], step[c]) /\ engine[c].child = "running"
  BY DEF HostInv, EngineExits
<1>2. EngineOK(e, step[c])
  BY <1>1 DEF EngineOK, ShutdownOK, BudgetOK, EngineState
<1> QED
  BY <1>2, SetOK DEF EngineExits

LEMMA BeginPollOK ==
  ASSUME NEW c \in Instance, HostInv, BeginPoll(c)
  PROVE  HostInv'
<1> DEFINE e == engine[c]
           stopped == [e EXCEPT !.monitor = "done"]
           health == IF Kept(e) # e.restarts /\ e.health.kind = "Running"
                     THEN Running(Cardinality(Kept(e))) ELSE e.health
           polled == [e EXCEPT !.monitor = "checking", !.restarts = Kept(e),
                               !.health = health]
<1>1. EngineOK(e, step[c]) /\ e.monitor = "awake"
  BY DEF HostInv, BeginPoll
<1>2. EngineOK(stopped, step[c])
  BY <1>1 DEF EngineOK, ShutdownOK, BudgetOK, EngineState
<1>3. e.restarts \in SUBSET Age
  BY <1>1 DEF EngineOK, EngineState
<1>4. /\ Kept(e) \in SUBSET Age /\ Kept(e) \subseteq 0 .. Window
      /\ Kept(e) \subseteq e.restarts
      /\ Cardinality(Kept(e)) <= Cardinality(e.restarts)
      /\ Recent(Kept(e)) = Kept(e)
  BY <1>3, RecentAges DEF Kept
<1>5. Cardinality(Kept(e)) \in 0 .. MaxRestarts
  BY <1>1, <1>3, <1>4, AgesAreFinite, PolicyAssumption DEF EngineOK, BudgetOK
<1>6. health \in Health
  BY <1>1, <1>5 DEF EngineOK, EngineState, Health, Running
<1>7. polled \in EngineState
  <2> HIDE DEF health
  <2> QED
    BY <1>1, <1>4, <1>6 DEF EngineOK, EngineState
<1>8. ShutdownOK(polled, step[c])
  BY <1>1 DEF EngineOK, ShutdownOK, EngineState
<1>9. BudgetOK(polled)
  <2>1. e.attempts = Kept(e) /\ 0 \notin e.restarts
    BY <1>1 DEF EngineOK, BudgetOK, Kept
  <2>2. /\ polled.attempts = e.attempts /\ polled.restarts = Kept(e)
        /\ polled.monitor = "checking"
    BY <1>1 DEF EngineOK, EngineState
  <2> HIDE DEF polled
  <2> QED
    BY <1>4, <1>5, <2>1, <2>2 DEF BudgetOK
<1>10. Set(c, stopped) \/ Set(c, polled)
  BY <1>1 DEF BeginPoll
<1> HIDE DEF polled, stopped
<1> QED
  BY <1>2, <1>7, <1>8, <1>9, <1>10, SetOK DEF EngineOK

LEMMA GaveUpOK ==
  ASSUME NEW e, NEW s, NEW reason \in {"probe", "exit"},
         EngineOK(e, s) \/ (e \in EngineState /\ ShutdownOK(e, s)
                             /\ e.attempts = Recent(e.restarts)
                             /\ Cardinality(e.restarts) <= MaxRestarts),
         e.child # "none"
  PROVE  EngineOK(GaveUp(e, reason), s)
<1>1. /\ e \in EngineState /\ ShutdownOK(e, s)
      /\ e.attempts = Recent(e.restarts)
      /\ Cardinality(e.restarts) <= MaxRestarts
  BY DEF EngineOK, BudgetOK
<1>2. Count(e) \in 0 .. MaxRestarts
  BY <1>1, AgesAreFinite, PolicyAssumption DEF EngineState, Count
<1>3. Failed(Count(e), reason) \in Health
  BY <1>2 DEF Failed, Health
<1>4. GaveUp(e, reason) \in EngineState
  BY <1>1, <1>3 DEF GaveUp, EngineState
<1>5. ShutdownOK(GaveUp(e, reason), s)
  BY <1>1 DEF GaveUp, ShutdownOK, EngineState
<1>6. BudgetOK(GaveUp(e, reason))
  BY <1>1 DEF GaveUp, BudgetOK, EngineState
<1> QED
  BY <1>4, <1>5, <1>6 DEF EngineOK

LEMMA CheckChildOK ==
  ASSUME NEW c \in Instance, HostInv, CheckChild(c)
  PROVE  HostInv'
<1> DEFINE e == engine[c]
           asleep == [e EXCEPT !.monitor = "sleeping"]
           restarting == [e EXCEPT !.monitor = "restarting",
                                   !.health = Restarting(Count(e) + 1)]
<1>1. EngineOK(e, step[c]) /\ e.monitor = "checking" /\ e.child # "none"
  BY DEF HostInv, CheckChild, EngineOK, ShutdownOK
<1>2. Count(e) \in Nat
  BY <1>1, AgesAreFinite DEF EngineOK, EngineState, Count
<1>3. EngineOK(asleep, step[c])
  BY <1>1 DEF EngineOK, ShutdownOK, BudgetOK, EngineState
<1>4. ASSUME NEW reason \in {"probe", "exit"}
      PROVE  EngineOK(GaveUp(e, reason), step[c])
  BY <1>1, GaveUpOK
<1>5. ASSUME e.child = "exited", ~Spent(e)
      PROVE  EngineOK(restarting, step[c])
  <2>1. Count(e) + 1 \in 0 .. MaxRestarts /\ Cardinality(e.restarts) < MaxRestarts
    BY <1>2, <1>5, PolicyAssumption DEF Spent, Count
  <2>2. Restarting(Count(e) + 1) \in Health
    BY <2>1 DEF Restarting, Health
  <2>3. restarting \in EngineState
    BY <1>1, <2>2 DEF EngineOK, EngineState
  <2>4. ShutdownOK(restarting, step[c])
    BY <1>1, <1>5 DEF EngineOK, ShutdownOK, EngineState
  <2>5. BudgetOK(restarting)
    BY <1>1, <1>5, <2>1 DEF EngineOK, BudgetOK, EngineState
  <2> QED
    BY <2>3, <2>4, <2>5 DEF EngineOK
<1> HIDE DEF asleep, restarting
<1>6. CASE Set(c, asleep)
  BY <1>3, <1>6, SetOK
<1>7. CASE \E reason \in {"probe", "exit"} : Set(c, GaveUp(e, reason))
  BY <1>4, <1>7, SetOK
<1>8. CASE e.child = "exited" /\ ~Spent(e) /\ Set(c, restarting)
  BY <1>5, <1>8, SetOK
<1>9. Set(c, asleep) \/ (\E reason \in {"probe", "exit"} : Set(c, GaveUp(e, reason)))
        \/ (e.child = "exited" /\ ~Spent(e) /\ Set(c, restarting))
  BY DEF CheckChild, asleep, restarting
<1> QED
  BY <1>6, <1>7, <1>8, <1>9

\* Charging a restart before its outcome is known: the budget is not passed,
\* because the monitor is only here with a restart to spare.
LEMMA ChargeOK ==
  ASSUME NEW e, NEW s, EngineOK(e, s), e.monitor = "restarting"
  PROVE  /\ Charge(e) \in EngineState /\ ShutdownOK(Charge(e), s)
         /\ Charge(e).monitor = "restarting" /\ Charge(e).child = "exited"
         /\ s = "Owned"
         /\ Charge(e).attempts = Recent(Charge(e).restarts)
         /\ Charge(e).attempts = Charge(e).restarts
         /\ Count(Charge(e)) \in 0 .. MaxRestarts
         /\ Count(Charge(e)) = Cardinality(e.restarts) + 1
<1>1. /\ e.restarts \in SUBSET Age /\ e.attempts \in SUBSET Age
      /\ 0 \notin e.restarts /\ e.attempts = Recent(e.restarts)
      /\ e.restarts \subseteq 0 .. Window /\ Cardinality(e.restarts) < MaxRestarts
      /\ e.child = "exited" /\ s = "Owned"
  BY DEF EngineOK, EngineState, BudgetOK, ShutdownOK
<1>2. /\ e.restarts \cup {0} \in SUBSET Age
      /\ Cardinality(e.restarts \cup {0}) = Cardinality(e.restarts) + 1
      /\ Recent(e.restarts \cup {0}) = e.attempts \cup {0}
      /\ e.attempts = e.restarts
  BY <1>1, ChargedAges, RecentAges
<1>3. /\ Charge(e).restarts = e.restarts \cup {0}
      /\ Charge(e).attempts = e.attempts \cup {0}
      /\ Charge(e).monitor = "restarting" /\ Charge(e).child = "exited"
  BY <1>1 DEF Charge, EngineOK, EngineState
<1>4. Charge(e) \in EngineState
  BY <1>2 DEF Charge, EngineOK, EngineState
<1>5. ShutdownOK(Charge(e), s)
  BY DEF Charge, EngineOK, ShutdownOK, EngineState
<1>6. Count(Charge(e)) \in 0 .. MaxRestarts
  BY <1>1, <1>2, <1>3, AgesAreFinite, PolicyAssumption DEF Count
<1> QED
  BY <1>1, <1>2, <1>3, <1>4, <1>5, <1>6 DEF Count

LEMMA RestartChildOK ==
  ASSUME NEW c \in Instance, HostInv, RestartChild(c)
  PROVE  HostInv'
<1> DEFINE e == Charge(engine[c])
           asleep == [e EXCEPT !.monitor = "sleeping"]
<1>1. EngineOK(engine[c], step[c]) /\ engine[c].monitor = "restarting"
  <2>1. e.monitor = engine[c].monitor
    BY DEF HostInv, EngineOK, EngineState, Charge
  <2> QED
    BY <2>1 DEF HostInv, RestartChild
<1>2. /\ e \in EngineState /\ ShutdownOK(e, step[c])
      /\ e.monitor = "restarting" /\ e.child = "exited" /\ step[c] = "Owned"
      /\ e.attempts = Recent(e.restarts)
      /\ Count(e) \in 0 .. MaxRestarts
  BY <1>1, ChargeOK
<1>3. Set(c, Restarted(e)) \/ Set(c, GaveUp(e, "exit")) \/ Set(c, asleep)
  BY DEF RestartChild
<1> HIDE DEF e
<1>4. Cardinality(e.restarts) <= MaxRestarts
  BY <1>2, PolicyAssumption DEF Count
<1>5. EngineOK(GaveUp(e, "exit"), step[c])
  BY <1>2, <1>4, GaveUpOK
<1>6. EngineOK(asleep, step[c])
  BY <1>2, <1>4 DEF EngineOK, ShutdownOK, BudgetOK, EngineState
<1>7. EngineOK(Restarted(e), step[c])
  <2>1. Running(Count(e)) \in Health
    BY <1>2 DEF Running, Health
  <2>2. Restarted(e) \in EngineState
    BY <1>2, <2>1 DEF Restarted, EngineState
  <2>3. ShutdownOK(Restarted(e), step[c])
    BY <1>2 DEF Restarted, ShutdownOK, EngineState
  <2>4. BudgetOK(Restarted(e))
    BY <1>2, <1>4 DEF Restarted, BudgetOK, EngineState
  <2> QED
    BY <2>2, <2>3, <2>4 DEF EngineOK
<1> HIDE DEF asleep
<1> QED
  BY <1>3, <1>5, <1>6, <1>7, SetOK

LEMMA ClosingOK ==
  ASSUME NEW c \in Instance, HostInv,
         StopMonitoring(c) \/ JoinMonitor(c) \/ AskShutdown(c) \/ KillEngine(c)
  PROVE  HostInv'
<1> DEFINE e == engine[c]
           joining == [e EXCEPT !.closing = "joining"]
           asking == [e EXCEPT !.closing = "asking"]
           Asked(child) == [e EXCEPT !.closing = "killing", !.child = child]
           stopped == [e EXCEPT !.closing = "stopped", !.child = "exited"]
           abandoned == [e EXCEPT !.closing = "abandoned"]
<1>1. EngineOK(e, step[c])
  BY DEF HostInv
<1>2. CASE StopMonitoring(c)
  <2>1. e.monitor # "none" /\ e.closing = "no" /\ Set(c, joining)
    BY <1>2 DEF StopMonitoring
  <2>2. EngineOK(joining, step[c])
    BY <1>1, <2>1 DEF EngineOK, ShutdownOK, BudgetOK, EngineState
  <2> QED
    BY <2>1, <2>2, SetOK
<1>3. CASE JoinMonitor(c)
  <2>1. e.monitor = "done" /\ e.closing = "joining" /\ Set(c, asking)
    BY <1>3 DEF JoinMonitor, Joined
  <2>2. EngineOK(asking, step[c])
    BY <1>1, <2>1 DEF EngineOK, ShutdownOK, BudgetOK, EngineState
  <2> QED
    BY <2>1, <2>2, SetOK
<1>4. CASE AskShutdown(c)
  <2>1. PICK child \in {e.child, "exited"} : e.closing = "asking" /\ Set(c, Asked(child))
    BY <1>4 DEF AskShutdown
  <2>2. EngineOK(Asked(child), step[c])
    BY <1>1, <2>1 DEF EngineOK, ShutdownOK, BudgetOK, EngineState
  <2> QED
    BY <2>1, <2>2, SetOK
<1>5. CASE KillEngine(c)
  <2>1. e.closing = "killing" /\ (Set(c, stopped) \/ Set(c, abandoned))
    BY <1>5 DEF KillEngine
  <2>2. EngineOK(stopped, step[c]) /\ EngineOK(abandoned, step[c])
    BY <1>1, <2>1 DEF EngineOK, ShutdownOK, BudgetOK, EngineState
  <2> QED
    BY <2>1, <2>2, SetOK
<1> QED
  BY <1>2, <1>3, <1>4, <1>5

LEMMA TickOK ==
  ASSUME HostInv, Tick
  PROVE  HostInv'
<1> DEFINE Aged(e) == [e EXCEPT !.monitor = IF @ = "sleeping" THEN "awake" ELSE @,
                                !.restarts = Older(@),
                                !.attempts = Recent(Older(@))]
<1>1. engine' = [c \in Instance |-> Aged(engine[c])] /\ UNCHANGED lockVars
  BY DEF Tick
<1>2. LockTypeOK' /\ LockInv'
  BY <1>1 DEF HostInv, lockVars, LockTypeOK, LockInv, Holds
<1>3. ASSUME NEW c \in Instance PROVE EngineOK(engine'[c], step'[c])
  <2> DEFINE e == engine[c]
             monitor == IF e.monitor = "sleeping" THEN "awake" ELSE e.monitor
  <2>1. EngineOK(e, step[c]) /\ e.monitor \notin {"checking", "restarting"}
    BY DEF HostInv, Tick
  <2>2. e.restarts \in SUBSET Age
    BY <2>1 DEF EngineOK, EngineState
  <2>3. /\ Older(e.restarts) \in SUBSET Age /\ 0 \notin Older(e.restarts)
        /\ Cardinality(Older(e.restarts)) <= Cardinality(e.restarts)
        /\ Recent(Older(e.restarts)) \in SUBSET Age
    BY <2>2, OlderAges, RecentAges
  <2>4. Recent(Older(e.attempts)) = Recent(Older(e.restarts))
    BY <2>1, <2>2, OlderAges DEF EngineOK, BudgetOK
  <2>5. Cardinality(Older(e.restarts)) <= MaxRestarts
    BY <2>1, <2>2, <2>3, AgesAreFinite, PolicyAssumption DEF EngineOK, BudgetOK
  <2>6. Aged(e) = [e EXCEPT !.monitor = monitor, !.restarts = Older(e.restarts),
                            !.attempts = Recent(Older(e.restarts))]
    BY <2>1, <2>4 DEF EngineOK, EngineState
  <2>7. /\ Aged(e) \in EngineState
        /\ Aged(e).restarts = Older(e.restarts)
        /\ Aged(e).attempts = Recent(Older(e.restarts))
        /\ Aged(e).monitor = monitor
        /\ Aged(e).child = e.child /\ Aged(e).closing = e.closing
    <3> HIDE DEF Aged
    <3>1. monitor \in {"none", "awake", "done"}
      BY <2>1 DEF EngineOK, EngineState
    <3> HIDE DEF monitor
    <3> QED
      BY <2>1, <2>3, <2>6, <3>1 DEF EngineOK, EngineState
  <2>8. monitor \notin {"sleeping", "checking", "restarting"}
          /\ (monitor \in {"none", "done"} <=> e.monitor \in {"none", "done"})
          /\ (monitor = "none" <=> e.monitor = "none")
    BY <2>1
  <2>9. engine'[c] = Aged(e) /\ step'[c] = step[c]
    BY <1>1 DEF lockVars
  <2> HIDE DEF Aged, monitor
  <2>10. ShutdownOK(Aged(e), step[c])
    BY <2>1, <2>7, <2>8 DEF EngineOK, ShutdownOK
  <2>11. BudgetOK(Aged(e))
    BY <2>3, <2>5, <2>7, <2>8 DEF BudgetOK
  <2> QED
    BY <2>7, <2>9, <2>10, <2>11 DEF EngineOK
<1>4. engine' = [c \in Instance |-> engine'[c]]
  BY <1>1
<1> QED
  BY <1>2, <1>3, <1>4 DEF HostInv
-----------------------------------------------------------------------------
\* The lock.  An instance that holds a handle protects its file, so nobody
\* else can be in its way.
LEMMA CreateOK ==
  ASSUME NEW c \in Instance, LockTypeOK, LockInv, CreateNew(c),
         step[c] \in {"Starting", "Removed"}, UNCHANGED seen
  PROVE  /\ LockTypeOK' /\ LockInv'
         /\ step[c] \notin {"Owned", "Dead"}
         /\ \A d \in Instance \ {c} : step'[d] = step[d]
<1>1. step' = [step EXCEPT ![c] = "Created"] /\ file' = c /\ record' = Nobody
        /\ file = NoFile
  BY DEF CreateNew, At
<1>2. LockTypeOK'
  BY <1>1 DEF LockTypeOK, Step
<1>3. ASSUME ExclusiveHandles, NEW d \in Instance
      PROVE  (Holds(d) => file = d)' /\ (step[d] = "Owned" => record = d)'
  <2>1. ~Holds(d)
    BY <1>1, <1>3, LockAssumption DEF LockInv
  <2>2. step'[d] = IF d = c THEN "Created" ELSE step[d]
    BY <1>1 DEF LockTypeOK
  <2> QED
    BY <1>1, <2>1, <2>2 DEF Holds
<1> QED
  BY <1>1, <1>2, <1>3 DEF LockInv, LockTypeOK

LEMMA AcquireLock ==
  ASSUME NEW c \in Instance, HostInv, Acquire(c)
  PROVE  /\ LockTypeOK' /\ LockInv'
         /\ step[c] \notin {"Owned", "Dead"}
         /\ \A d \in Instance \ {c} : step'[d] = step[d]
<1> USE DEF At, Holds
<1>1. LockTypeOK /\ LockInv
  BY DEF HostInv
<1>2. CASE CreateLock(c)
  <2>1. CASE CreateNew(c)
    BY <1>1, <1>2, <2>1, CreateOK DEF CreateLock
  <2>2. CASE UNCHANGED <<file, record>> /\ step[c] = "Starting"
             /\ \E s \in {"Exists", "Failed"} : At(c, s)
    BY <1>1, <1>2, <2>2 DEF CreateLock, LockTypeOK, LockInv, Step
  <2> QED
    BY <1>2, <2>1, <2>2 DEF CreateLock
<1>3. CASE WriteRecord(c)
  BY <1>1, <1>3 DEF WriteRecord, Written, LockTypeOK, LockInv, Step
<1>4. CASE ReadRecord(c)
  BY <1>1, <1>4 DEF ReadRecord, LockTypeOK, LockInv, Step
<1>5. CASE CheckOwner(c)
  BY <1>1, <1>5 DEF CheckOwner, LockTypeOK, LockInv, Step
<1>6. CASE RemoveStale(c)
  BY <1>1, <1>6 DEF RemoveStale, Unlink, CannotUnlink, Protected, LockTypeOK, LockInv, Step
<1>7. CASE Recreate(c)
  <2>1. CASE CreateNew(c)
    BY <1>1, <1>7, <2>1, CreateOK DEF Recreate
  <2>2. CASE UNCHANGED <<file, record>> /\ step[c] = "Removed" /\ At(c, "Refused")
    BY <1>1, <1>7, <2>2 DEF Recreate, LockTypeOK, LockInv, Step
  <2> QED
    BY <1>7, <2>1, <2>2 DEF Recreate
<1> QED
  BY <1>2, <1>3, <1>4, <1>5, <1>6, <1>7 DEF Acquire

LEMMA DropLock ==
  ASSUME NEW c \in Instance, HostInv, CloseLock(c) \/ UnlinkLock(c) \/ Die(c)
  PROVE  /\ LockTypeOK' /\ LockInv'
         /\ \A d \in Instance \ {c} : step'[d] = step[d]
<1> USE DEF At, Holds
<1>1. LockTypeOK /\ LockInv
  BY DEF HostInv
<1>2. CASE CloseLock(c)
  BY <1>1, <1>2 DEF CloseLock, LockTypeOK, LockInv, Step
<1>3. CASE UnlinkLock(c)
  BY <1>1, <1>3 DEF UnlinkLock, Unlink, CannotUnlink, Protected, LockTypeOK, LockInv, Step
<1>4. CASE Die(c)
  BY <1>1, <1>4 DEF Die, LockTypeOK, LockInv, Step
<1> QED
  BY <1>2, <1>3, <1>4

\* The lock may move on below an engine that runs only as far as its owner
\* or an orphan allows.
LEMMA TakeLockOK ==
  ASSUME NEW c \in Instance, HostInv, TakeLock(c)
  PROVE  HostInv'
<1>1. /\ LockTypeOK' /\ LockInv' /\ UNCHANGED engine
      /\ step[c] \notin {"Owned", "Dead"}
      /\ \A d \in Instance \ {c} : step'[d] = step[d]
  BY AcquireLock DEF TakeLock
<1>2. EngineOK(engine[c], step'[c])
  <2>1. EngineOK(engine[c], step[c])
    BY DEF HostInv
  <2> QED
    BY <1>1, <2>1 DEF EngineOK, ShutdownOK
<1> QED
  BY <1>1, <1>2 DEF HostInv

LEMMA ReleaseLockOK ==
  ASSUME NEW c \in Instance, HostInv, ReleaseLock(c) \/ ForgetLock(c)
  PROVE  HostInv'
<1>1. /\ LockTypeOK' /\ LockInv' /\ UNCHANGED engine
      /\ \A d \in Instance \ {c} : step'[d] = step[d]
  BY DropLock DEF ReleaseLock, ForgetLock
<1>2. EngineOK(engine[c], step[c])
  BY DEF HostInv
<1>3. CASE ReleaseLock(c)
  <2>1. Droppable(engine[c])
    BY <1>3 DEF ReleaseLock
  <2>2. EngineOK(engine[c], step'[c])
    BY <1>2, <2>1 DEF Droppable, EngineOK, ShutdownOK, EngineState
  <2> QED
    BY <1>1, <2>2 DEF HostInv
<1>4. CASE ForgetLock(c)
  <2>1. step[c] = "Closed"
    BY <1>4 DEF ForgetLock, UnlinkLock
  <2>2. EngineOK(engine[c], step'[c])
    BY <1>2, <2>1 DEF EngineOK, ShutdownOK
  <2> QED
    BY <1>1, <2>2 DEF HostInv
<1> QED
  BY <1>3, <1>4

LEMMA CrashOK ==
  ASSUME NEW c \in Instance, HostInv, Crash(c)
  PROVE  HostInv'
<1>1. /\ LockTypeOK' /\ LockInv'
      /\ \A d \in Instance \ {c} : step'[d] = step[d]
  BY DropLock DEF Crash
<1>2. engine' = [engine EXCEPT ![c] = Orphan(c)] /\ step'[c] = "Dead"
  BY DEF Crash, Die, At, HostInv, LockTypeOK
<1>3. EngineOK(engine[c], step[c]) /\ EngineOK(NoEngine, "Dead")
  BY NoEngineOK DEF HostInv
<1>4. EngineOK(Orphan(c), "Dead")
  <2>1. Orphan(c) \in EngineState
    BY <1>3 DEF Orphan, EngineOK, EngineState, NoEngine
  <2>2. ShutdownOK(Orphan(c), "Dead")
    BY <1>3 DEF Orphan, EngineOK, ShutdownOK, EngineState, NoEngine
  <2>3. BudgetOK(Orphan(c))
    BY <1>3 DEF Orphan, EngineOK, BudgetOK, NoEngine
  <2> QED
    BY <2>1, <2>2, <2>3 DEF EngineOK
<1>5. engine' = [d \in Instance |-> engine'[d]]
  BY <1>2 DEF HostInv
<1>6. ASSUME NEW d \in Instance PROVE EngineOK(engine'[d], step'[d])
  <2>1. engine'[d] = IF d = c THEN Orphan(c) ELSE engine[d]
    BY <1>2 DEF HostInv
  <2> QED
    BY <1>1, <1>2, <1>4, <2>1 DEF HostInv
<1> QED
  BY <1>1, <1>5, <1>6 DEF HostInv
-----------------------------------------------------------------------------
LEMMA InitOK == Init => HostInv
<1> SUFFICES ASSUME Init PROVE HostInv
  OBVIOUS
<1>1. LockTypeOK /\ LockInv
  BY DEF Init, LockInit, LockTypeOK, LockInv, Holds, Step
<1>2. engine = [c \in Instance |-> engine[c]]
  BY DEF Init
<1>3. ASSUME NEW c \in Instance PROVE EngineOK(engine[c], step[c])
  BY NoEngineOK DEF Init
<1> QED
  BY <1>1, <1>2, <1>3 DEF HostInv

LEMMA NextOK == HostInv /\ [Next]_vars => HostInv'
<1> SUFFICES ASSUME HostInv, [Next]_vars PROVE HostInv'
  OBVIOUS
<1>1. CASE UNCHANGED vars
  BY <1>1 DEF vars, HostInv, LockTypeOK, LockInv, Holds
<1>2. CASE Tick
  BY <1>2, TickOK
<1>3. ASSUME NEW c \in Instance,
             \/ TakeLock(c) \/ SpawnEngine(c) \/ EngineExits(c) \/ Monitor(c)
             \/ StopMonitoring(c) \/ Shutdown(c) \/ Crash(c)
      PROVE  HostInv'
  <2>1. CASE TakeLock(c)
    BY <2>1, TakeLockOK
  <2>2. CASE SpawnEngine(c)
    BY <2>2, SpawnEngineOK
  <2>3. CASE EngineExits(c)
    BY <2>3, EngineExitsOK
  <2>4. CASE Monitor(c)
    BY <2>4, BeginPollOK, CheckChildOK, RestartChildOK DEF Monitor
  <2>5. CASE StopMonitoring(c)
    BY <2>5, ClosingOK
  <2>6. CASE Shutdown(c)
    BY <2>6, ClosingOK, ReleaseLockOK DEF Shutdown
  <2>7. CASE Crash(c)
    BY <2>7, CrashOK
  <2> QED
    BY <1>3, <2>1, <2>2, <2>3, <2>4, <2>5, <2>6, <2>7
<1> QED
  BY <1>1, <1>2, <1>3 DEF Next

\* HostInv holds in every state the engine host can reach.
THEOREM HostInvariant == Spec => []HostInv
BY InitOK, NextOK, PTL DEF Spec

\* Every variable of lock and engines keeps its type: in particular no count
\* the views are shown exceeds the budget.
THEOREM HostTypeCorrect == Spec => []TypeOK
<1>1. HostInv => TypeOK
  BY DEF HostInv, TypeOK, EngineOK
<1> QED
  BY <1>1, HostInvariant, PTL

\* With the file handles of Windows, the lock file always names the owner,
\* for any number of contenders, crashes and late drops.
THEOREM HostOwnerIsOnRecord ==
  ASSUME ExclusiveHandles
  PROVE  Spec => []OwnerIsOnRecord
<1>1. HostInv => OwnerIsOnRecord
  BY DEF HostInv, LockInv, Holds, OwnerIsOnRecord
<1> QED
  BY <1>1, HostInvariant, PTL

\* So no two instances own the profile: what the comment of the lock says
\* holds where open files cannot be removed.
THEOREM HostExclusiveOwner ==
  ASSUME ExclusiveHandles
  PROVE  Spec => []ExclusiveOwner
<1>1. HostInv => ExclusiveOwner
  BY DEF HostInv, LockInv, Holds, ExclusiveOwner
<1> QED
  BY <1>1, HostInvariant, PTL

\* On every platform, an aria2 that a live AriaDeck has started runs only
\* while that AriaDeck holds the lock, unless it could not be killed.
THEOREM HostRunningEngineIsOwned == Spec => []RunningEngineIsOwned
<1>1. HostInv => RunningEngineIsOwned
  BY DEF HostInv, EngineOK, ShutdownOK, RunningEngineIsOwned, Alive
<1> QED
  BY <1>1, HostInvariant, PTL

\* No more restarts within a window than the policy allows, for any policy.
THEOREM HostRestartsAreLimited == Spec => []RestartsAreLimited
<1>1. HostInv => RestartsAreLimited
  <2> SUFFICES ASSUME HostInv, NEW c \in Instance
               PROVE  Cardinality(engine[c].attempts) <= MaxRestarts
    BY DEF RestartsAreLimited
  <2>1. EngineOK(engine[c], step[c])
    BY DEF HostInv
  <2>2. /\ engine[c].restarts \in SUBSET Age
        /\ engine[c].attempts \in SUBSET Age
        /\ engine[c].attempts = Recent(engine[c].restarts)
        /\ Cardinality(engine[c].restarts) <= MaxRestarts
    BY <2>1 DEF EngineOK, EngineState, BudgetOK
  <2>3. Cardinality(engine[c].attempts) <= Cardinality(engine[c].restarts)
    BY <2>2, RecentAges
  <2> QED
    BY <2>2, <2>3, AgesAreFinite, PolicyAssumption
<1> QED
  BY <1>1, HostInvariant, PTL
-----------------------------------------------------------------------------
\* Which actions start aria2: a spawn, when there was none, and a restart of
\* the monitor, which holds out against shutdown until it is joined.
LEMMA StartsOnlyWhenOpen ==
  ASSUME HostInv, Next, NEW c \in Instance,
         engine[c].child # "running", engine'[c].child = "running"
  PROVE  engine[c].closing \in {"no", "joining"}
<1>1. engine = [d \in Instance |-> engine[d]] /\ EngineOK(engine[c], step[c])
  BY DEF HostInv
<1>2. CASE Tick
  <2>1. engine[c].child = engine'[c].child
    BY <1>1, <1>2 DEF Tick, EngineOK, EngineState
  <2> QED
    BY <2>1
<1>3. ASSUME NEW d \in Instance,
             \/ TakeLock(d) \/ SpawnEngine(d) \/ EngineExits(d) \/ Monitor(d)
             \/ StopMonitoring(d) \/ Shutdown(d) \/ Crash(d)
      PROVE  engine[c].closing \in {"no", "joining"}
  <2> DEFINE e == engine[d]
  <2>0. e \in EngineState /\ ShutdownOK(e, step[d])
    BY DEF HostInv, EngineOK
  <2>1. ASSUME NEW f, Set(d, f), f.child = e.child \/ f.child = "exited"
        PROVE  FALSE
    BY <1>1, <2>1 DEF Set
  <2>2. CASE UNCHANGED engine
    BY <2>2
  <2>3. CASE SpawnEngine(d)
    <3>1. e.closing = "no"
      BY <2>0, <2>3 DEF SpawnEngine, ShutdownOK
    <3>2. d = c
      BY <1>1, <2>3 DEF SpawnEngine, Set
    <3> QED
      BY <3>1, <3>2
  <2>4. CASE EngineExits(d)
    BY <2>0, <2>1, <2>4 DEF EngineExits, EngineState
  <2>5. CASE BeginPoll(d)
    BY <2>0, <2>1, <2>5 DEF BeginPoll, EngineState
  <2>6. CASE CheckChild(d)
    BY <2>0, <2>1, <2>6 DEF CheckChild, GaveUp, EngineState
  <2>7. CASE RestartChild(d)
    <3>1. e.monitor = "restarting" /\ d = c
      BY <1>1, <2>0, <2>7 DEF RestartChild, Charge, Set, EngineState
    <3> QED
      BY <2>0, <3>1 DEF ShutdownOK, EngineState
  <2>8. CASE StopMonitoring(d) \/ JoinMonitor(d) \/ KillEngine(d)
    BY <2>0, <2>1, <2>8 DEF StopMonitoring, JoinMonitor, KillEngine, EngineState
  <2>9. CASE AskShutdown(d)
    BY <2>0, <2>1, <2>9 DEF AskShutdown, EngineState
  <2>10. CASE Crash(d)
    BY <1>1, <2>0, <2>10 DEF Crash, Orphan, NoEngine, EngineState
  <2> QED
    BY <1>3, <2>2, <2>3, <2>4, <2>5, <2>6, <2>7, <2>8, <2>9, <2>10
    DEF TakeLock, Monitor, Shutdown, ReleaseLock, ForgetLock
<1> QED
  BY <1>2, <1>3 DEF Next

\* Once shutdown is past the join, nothing starts aria2 again.
THEOREM HostStoppedForGood == Spec => StoppedForGood
<1>1. HostInv /\ [Next]_vars =>
        [\A c \in Instance :
           engine[c].closing \notin {"no", "joining"} /\ engine[c].child # "running"
             => engine'[c].child # "running"]_vars
  BY StartsOnlyWhenOpen
<1> QED
  BY <1>1, HostInvariant, PTL DEF Spec, StoppedForGood

\* What leads to giving aria2 up for its exits: the deque is at its limit,
\* and nothing in it is older than the window.
LEMMA GivesUpWhenSpent ==
  ASSUME HostInv, Next, NEW c \in Instance,
         engine[c].health.reason # "exit", engine'[c].health.reason = "exit"
  PROVE  Cardinality(engine'[c].attempts) >= MaxRestarts
<1>1. engine = [d \in Instance |-> engine[d]] /\ EngineOK(engine[c], step[c])
  BY DEF HostInv
<1>2. CASE Tick
  <2>1. engine[c].health = engine'[c].health
    BY <1>1, <1>2 DEF Tick, EngineOK, EngineState
  <2> QED
    BY <2>1
<1>3. ASSUME NEW d \in Instance,
             \/ TakeLock(d) \/ SpawnEngine(d) \/ EngineExits(d) \/ Monitor(d)
             \/ StopMonitoring(d) \/ Shutdown(d) \/ Crash(d)
      PROVE  Cardinality(engine'[c].attempts) >= MaxRestarts
  <2> DEFINE e == engine[d]
  <2>0. e \in EngineState /\ EngineOK(e, step[d])
    BY DEF HostInv, EngineOK
  <2>1. ASSUME NEW f, Set(d, f),
               f.health.reason = e.health.reason \/ f.health.reason # "exit"
        PROVE  FALSE
    BY <1>1, <2>1 DEF Set
  <2>2. CASE UNCHANGED engine
    BY <2>2
  <2>3. CASE SpawnEngine(d)
    BY <2>1, <2>3 DEF SpawnEngine, NoEngine, Running
  <2>4. CASE EngineExits(d)
    BY <2>0, <2>1, <2>4 DEF EngineExits, EngineState
  <2>5. CASE BeginPoll(d)
    BY <2>0, <2>1, <2>5 DEF BeginPoll, EngineState, Running
  <2>6. CASE CheckChild(d)
    <3>1. Spent(e) /\ Set(d, GaveUp(e, "exit")) /\ e.monitor = "checking"
      BY <2>0, <2>1, <2>6 DEF CheckChild, GaveUp, Failed, Restarting, EngineState
    <3>2. engine'[c].attempts = e.attempts
      BY <1>1, <2>0, <3>1 DEF Set, GaveUp, EngineState
    <3>3. e.attempts = e.restarts
      BY <2>0, <3>1, RecentAges DEF EngineOK, BudgetOK, EngineState
    <3> QED
      BY <3>1, <3>2, <3>3 DEF Spent, Count
  <2>7. CASE RestartChild(d)
    <3> DEFINE g == Charge(e)
    <3>1. e.monitor = "restarting"
      BY <2>0, <2>7 DEF RestartChild, Charge, EngineState
    <3>2. g \in EngineState /\ g.attempts = g.restarts
      BY <2>0, <3>1, ChargeOK
    <3>3. g.health = e.health
      BY <2>0 DEF Charge, EngineState
    <3>4. Spent(g) /\ Set(d, GaveUp(g, "exit"))
      BY <2>1, <2>7, <3>2, <3>3 DEF RestartChild, Restarted, Running, EngineState
    <3> HIDE DEF g
    <3>5. engine'[c].attempts = g.attempts
      BY <1>1, <3>2, <3>4 DEF Set, GaveUp, EngineState
    <3> QED
      BY <3>2, <3>4, <3>5 DEF Spent, Count
  <2>8. CASE StopMonitoring(d) \/ JoinMonitor(d) \/ KillEngine(d)
    BY <2>0, <2>1, <2>8 DEF StopMonitoring, JoinMonitor, KillEngine, EngineState
  <2>9. CASE AskShutdown(d)
    BY <2>0, <2>1, <2>9 DEF AskShutdown, EngineState
  <2>10. CASE Crash(d)
    BY <1>1, <2>10 DEF Crash, Orphan, NoEngine, Running
  <2> QED
    BY <1>3, <2>2, <2>3, <2>4, <2>5, <2>6, <2>7, <2>8, <2>9, <2>10
    DEF TakeLock, Monitor, Shutdown, ReleaseLock, ForgetLock
<1> QED
  BY <1>2, <1>3 DEF Next

\* Isolated crashes never add up: aria2 is given up for its exits only after
\* as many restarts within one window as the policy allows.
THEOREM HostGivesUpOnlyWhenSpent == Spec => GivesUpOnlyWhenSpent
<1>1. HostInv /\ [Next]_vars =>
        [\A c \in Instance :
           engine'[c].health.reason = "exit" /\ engine[c].health.reason # "exit"
             => Cardinality(engine'[c].attempts) >= MaxRestarts]_vars
  BY GivesUpWhenSpent
<1> QED
  BY <1>1, HostInvariant, PTL DEF Spec, GivesUpOnlyWhenSpent
-----------------------------------------------------------------------------
\* What the views show, at every step of the monitor.
ShowsTheTruth(e) ==
  \/ e.health.kind = "Restarting" /\ e.child = "exited"
  \/ /\ e.health.kind = "Running"
     /\ e.restarts \subseteq 0 .. Window => e.health.restarts = Cardinality(e.restarts)

HealthOK(e) ==
  /\ e.monitor \in {"sleeping", "awake", "checking"} => ShowsTheTruth(e)
  /\ e.monitor = "restarting" => e.health.kind = "Restarting"
  /\ e.monitor = "done" /\ e.closing = "no" => e.health.kind = "Failed"
  /\ e.health.kind = "Failed" => e.monitor = "done"

HealthInv == \A c \in Instance : HealthOK(engine[c])

\* Ages that have not left the window are as many as they were.
LEMMA OlderIsAsMany ==
  ASSUME NEW ages \in SUBSET Age, Older(ages) \subseteq 0 .. Window
  PROVE  ages \subseteq 0 .. Window /\ Cardinality(Older(ages)) = Cardinality(ages)
<1>1. ASSUME NEW a \in ages PROVE a \in 0 .. Window /\ a + 1 \in Older(ages)
  <2>1. (IF a > Window THEN a ELSE a + 1) \in 0 .. Window
    BY DEF Older
  <2>2. a \in 0 .. Window + 1
    BY DEF Age
  <2>3. a \in 0 .. Window
    BY <2>1, <2>2, PolicyAssumption
  <2>4. (IF a > Window THEN a ELSE a + 1) = a + 1
    BY <2>3, PolicyAssumption
  <2> QED
    BY <2>3, <2>4 DEF Older
<1> DEFINE f == [a \in ages |-> a + 1]
<1>2. f \in Bijection(ages, Older(ages))
  <2>1. f \in Surjection(ages, Older(ages))
    BY <1>1, PolicyAssumption DEF Surjection, Older
  <2>2. \A a, b \in ages : f[a] = f[b] => a = b
    BY <1>1, PolicyAssumption
  <2> QED
    BY <2>1, <2>2 DEF Bijection, Injection, IsInjective, Surjection
<1>3. Cardinality(Older(ages)) = Cardinality(ages)
  BY <1>2, AgesAreFinite, FS_Bijection DEF ExistsBijection
<1> QED
  BY <1>1, <1>3

LEMMA TickHealth ==
  ASSUME HostInv, HealthInv, Tick PROVE HealthInv'
<1> SUFFICES ASSUME NEW c \in Instance PROVE HealthOK(engine[c])'
  BY DEF HealthInv
<1> DEFINE e == engine[c]
<1>1. e \in EngineState /\ e.restarts \in SUBSET Age /\ HealthOK(e)
  BY DEF HostInv, HealthInv, EngineOK, EngineState
<1>2. PICK f : f = engine'[c]
  OBVIOUS
<1>3. /\ f.monitor = IF e.monitor = "sleeping" THEN "awake" ELSE e.monitor
      /\ f.restarts = Older(e.restarts)
      /\ f.health = e.health /\ f.child = e.child /\ f.closing = e.closing
  BY <1>1, <1>2 DEF Tick, EngineState
<1>4. f.restarts \subseteq 0 .. Window =>
        e.restarts \subseteq 0 .. Window /\ Cardinality(f.restarts) = Cardinality(e.restarts)
  BY <1>1, <1>3, OlderIsAsMany
<1>5. HealthOK(f)
  BY <1>1, <1>3, <1>4 DEF HealthOK, ShowsTheTruth
<1> QED
  BY <1>2, <1>5 DEF HealthOK, ShowsTheTruth

LEMMA HealthStep ==
  ASSUME HostInv, HealthInv, [Next]_vars PROVE HealthInv'
<1>1. engine = [d \in Instance |-> engine[d]]
  BY DEF HostInv
<1>2. CASE UNCHANGED engine
  BY <1>2 DEF HealthInv, HealthOK, ShowsTheTruth
<1>3. ASSUME NEW d \in Instance,
             \/ TakeLock(d) \/ SpawnEngine(d) \/ EngineExits(d) \/ Monitor(d)
             \/ StopMonitoring(d) \/ Shutdown(d) \/ Crash(d)
      PROVE  HealthInv'
  <2> DEFINE e == engine[d]
  <2>0. e \in EngineState /\ EngineOK(e, step[d]) /\ HealthOK(e)
    BY DEF HostInv, EngineOK, HealthInv
  <2>1. ASSUME NEW f, engine' = [engine EXCEPT ![d] = f], HealthOK(f)
        PROVE  HealthInv'
    <3>1. ASSUME NEW c \in Instance PROVE HealthOK(engine'[c])
      <4>1. engine'[c] = IF c = d THEN f ELSE engine[c]
        BY <1>1, <2>1
      <4> QED
        BY <2>1, <4>1 DEF HealthInv
    <3> QED
      BY <3>1 DEF HealthInv, HealthOK, ShowsTheTruth
  <2>2. CASE SpawnEngine(d)
    <3> DEFINE f == [NoEngine EXCEPT !.child = "running", !.monitor = "sleeping"]
               g == [NoEngine EXCEPT !.child = "running", !.closing = "killing"]
    <3>1. HealthOK(f) /\ HealthOK(g)
      BY FS_EmptySet DEF NoEngine, Running, HealthOK, ShowsTheTruth
    <3>2. engine' = [engine EXCEPT ![d] = f] \/ engine' = [engine EXCEPT ![d] = g]
      BY <2>2 DEF SpawnEngine, Set
    <3> HIDE DEF f, g
    <3> QED
      BY <2>1, <3>1, <3>2
  <2>3. CASE EngineExits(d)
    <3> DEFINE f == [e EXCEPT !.child = "exited"]
    <3>1. HealthOK(f)
      BY <2>0 DEF HealthOK, ShowsTheTruth, EngineState
    <3> QED
      BY <2>1, <2>3, <3>1 DEF EngineExits, Set
  <2>4. CASE BeginPoll(d)
    <3>1. CASE StopSeen(e)
      <4> DEFINE f == [e EXCEPT !.monitor = "done"]
      <4>1. HealthOK(f)
        BY <2>0, <3>1 DEF HealthOK, StopSeen, EngineState
      <4> QED
        BY <2>1, <2>4, <3>1, <4>1 DEF BeginPoll, Set
    <3>2. CASE ~StopSeen(e)
      <4>1. e.monitor = "awake" /\ ShowsTheTruth(e)
        BY <2>0, <2>4 DEF BeginPoll, HealthOK
      <4>2. PICK f : f = [e EXCEPT !.monitor = "checking", !.restarts = Kept(e),
                                   !.health = IF Kept(e) # e.restarts /\ @.kind = "Running"
                                              THEN Running(Cardinality(Kept(e))) ELSE @]
        OBVIOUS
      <4>3. /\ f.monitor = "checking" /\ f.restarts = Kept(e) /\ f.child = e.child
            /\ f.health = IF Kept(e) # e.restarts /\ e.health.kind = "Running"
                          THEN Running(Cardinality(Kept(e))) ELSE e.health
        BY <2>0, <4>2 DEF EngineState
      <4>4. HealthOK(f)
        <5>1. CASE e.health.kind = "Restarting" /\ e.child = "exited"
          BY <4>3, <5>1 DEF HealthOK, ShowsTheTruth
        <5>2. CASE e.health.kind = "Running" /\ Kept(e) = e.restarts
          BY <4>1, <4>3, <5>2 DEF HealthOK, ShowsTheTruth
        <5>3. CASE e.health.kind = "Running" /\ Kept(e) # e.restarts
          BY <4>3, <5>3 DEF HealthOK, ShowsTheTruth, Running
        <5> QED
          BY <4>1, <5>1, <5>2, <5>3 DEF ShowsTheTruth
      <4> QED
        BY <2>1, <2>4, <3>2, <4>2, <4>4 DEF BeginPoll, Set
    <3> QED
      BY <3>1, <3>2
  <2>5. CASE CheckChild(d)
    <3>1. ASSUME NEW reason, Set(d, GaveUp(e, reason)) PROVE HealthInv'
      <4>1. HealthOK(GaveUp(e, reason))
        BY <2>0 DEF GaveUp, Failed, HealthOK, EngineState
      <4> QED
        BY <2>1, <3>1, <4>1 DEF Set
    <3>2. CASE e.child = "running" /\ Set(d, [e EXCEPT !.monitor = "sleeping"])
      <4>1. e.monitor = "checking"
        BY <2>5 DEF CheckChild
      <4>2. HealthOK([e EXCEPT !.monitor = "sleeping"])
        BY <2>0, <4>1 DEF HealthOK, ShowsTheTruth, EngineState
      <4> QED
        BY <2>1, <3>2, <4>2 DEF Set
    <3>3. CASE Set(d, [e EXCEPT !.monitor = "restarting", !.health = Restarting(Count(e) + 1)])
      <4>1. HealthOK([e EXCEPT !.monitor = "restarting", !.health = Restarting(Count(e) + 1)])
        BY <2>0 DEF HealthOK, Restarting, EngineState
      <4> QED
        BY <2>1, <3>3, <4>1 DEF Set
    <3> QED
      BY <2>5, <3>1, <3>2, <3>3 DEF CheckChild
  <2>6. CASE RestartChild(d)
    <3> DEFINE g == Charge(e)
    <3>1. e.monitor = "restarting" /\ g.monitor = "restarting"
      BY <2>0, <2>6 DEF RestartChild, Charge, EngineState
    <3>2. g \in EngineState /\ g.child = "exited" /\ g.health.kind = "Restarting"
      <4>1. g \in EngineState
        BY <2>0, <3>1, ChargeOK
      <4>2. g.child = e.child /\ g.health = e.health
        BY <2>0 DEF Charge, EngineState
      <4> QED
        BY <2>0, <3>1, <4>1, <4>2 DEF EngineOK, BudgetOK, HealthOK
    <3>3. \/ Set(d, Restarted(g)) \/ Set(d, GaveUp(g, "exit"))
          \/ Set(d, [g EXCEPT !.monitor = "sleeping"])
      BY <2>6 DEF RestartChild
    <3> HIDE DEF g
    <3>4. HealthOK(Restarted(g))
      BY <3>2 DEF Restarted, Running, Count, HealthOK, ShowsTheTruth, EngineState
    <3>5. HealthOK(GaveUp(g, "exit"))
      BY <3>2 DEF GaveUp, Failed, HealthOK, EngineState
    <3>6. HealthOK([g EXCEPT !.monitor = "sleeping"])
      BY <3>2 DEF HealthOK, ShowsTheTruth, EngineState
    <3> QED
      BY <2>1, <3>3, <3>4, <3>5, <3>6 DEF Set
  <2>7. CASE StopMonitoring(d) \/ JoinMonitor(d)
    <3>1. PICK z \in {"joining", "asking"} : engine' = [engine EXCEPT ![d] = [e EXCEPT !.closing = z]]
      BY <2>7 DEF StopMonitoring, JoinMonitor, Set
    <3>2. HealthOK([e EXCEPT !.closing = z])
      BY <2>0, <3>1 DEF HealthOK, ShowsTheTruth, EngineState
    <3> QED
      BY <2>1, <3>1, <3>2
  <2>8. CASE AskShutdown(d)
    <3>1. PICK child \in {e.child, "exited"} :
             engine' = [engine EXCEPT ![d] = [e EXCEPT !.closing = "killing", !.child = child]]
      BY <2>8 DEF AskShutdown, Set
    <3>2. HealthOK([e EXCEPT !.closing = "killing", !.child = child])
      BY <2>0, <3>1 DEF HealthOK, ShowsTheTruth, EngineState
    <3> QED
      BY <2>1, <3>1, <3>2
  <2>9. CASE KillEngine(d)
    <3>1. HealthOK([e EXCEPT !.closing = "stopped", !.child = "exited"])
      BY <2>0 DEF HealthOK, ShowsTheTruth, EngineState
    <3>2. HealthOK([e EXCEPT !.closing = "abandoned"])
      BY <2>0 DEF HealthOK, ShowsTheTruth, EngineState
    <3> QED
      BY <2>1, <2>9, <3>1, <3>2 DEF KillEngine, Set
  <2>10. CASE Crash(d)
    <3>1. Orphan(d).monitor = "none" /\ Orphan(d).health.kind = "Running"
      BY DEF Orphan, NoEngine, Running
    <3>2. HealthOK(Orphan(d))
      BY <3>1 DEF HealthOK
    <3> QED
      BY <2>1, <2>10, <3>2 DEF Crash
  <2> QED
    BY <1>2, <1>3, <2>2, <2>3, <2>4, <2>5, <2>6, <2>7, <2>8, <2>9, <2>10
    DEF TakeLock, Monitor, Shutdown, ReleaseLock, ForgetLock
<1> QED
  BY <1>2, <1>3, TickHealth DEF Next, vars

\* Between two polls the views show the truth, for any budget and any window:
\* no restart is claimed while aria2 runs, the count is that of the deque, and
\* Failed means that the monitor gave up.
THEOREM HostHealthIsHonest == Spec => []HealthIsHonest
<1>1. Init => HealthInv
  <2>1. HealthOK(NoEngine)
    <3>1. NoEngine.monitor = "none" /\ NoEngine.health.kind = "Running"
      BY DEF NoEngine, Running
    <3> QED
      BY <3>1 DEF HealthOK
  <2> QED
    BY <2>1 DEF Init, HealthInv
<1>2. HostInv /\ HealthInv /\ [Next]_vars => HealthInv'
  BY HealthStep
<1>3. HealthInv => HealthIsHonest
  <2> SUFFICES ASSUME HealthInv, NEW c \in Instance
               PROVE  /\ engine[c].monitor \in {"sleeping", "awake"} => ShowsTheTruth(engine[c])
                      /\ engine[c].monitor = "done" /\ engine[c].closing = "no"
                           => engine[c].health.kind = "Failed"
                      /\ engine[c].health.kind = "Failed" => engine[c].monitor = "done"
    BY DEF HealthIsHonest, ShowsTheTruth
  <2> QED
    BY DEF HealthInv, HealthOK
<1> QED
  BY <1>1, <1>2, <1>3, HostInvariant, PTL DEF Spec
=============================================================================
