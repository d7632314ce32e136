------------------------------ MODULE EngineHost ------------------------------
(***************************************************************************)
(* The local aria2 of a profile and its supervisor (ariadeck-engine,       *)
(* LocalEngineProcess and LocalEngineSupervisor, with the order in which   *)
(* the desktop shuts them down).  The process holds the profile lock, its  *)
(* monitor thread polls the child and restarts it within a budget, and     *)
(* shutdown joins the monitor before it stops the child and drops the      *)
(* lock.                                                                   *)
(*                                                                         *)
(* Time is counted in poll intervals.  A restart is remembered by its age, *)
(* so that no clock grows; an age beyond the window is all the same.       *)
(***************************************************************************)
EXTENDS ProfileLock, Naturals, FiniteSets

CONSTANTS
  MaxRestarts,  \* LocalRestartPolicy::max_restarts
  Window        \* LocalRestartPolicy::window, in poll intervals

ASSUME PolicyAssumption == MaxRestarts \in Nat /\ Window \in Nat

VARIABLE engine  \* per instance: child, monitor, health and shutdown

vars == <<step, file, record, seen, engine>>

Age == 0 .. Window + 1
Older(ages) == {IF a > Window THEN a ELSE a + 1 : a \in ages}
Recent(ages) == {a \in ages : a <= Window}

Running(n) == [kind |-> "Running", restarts |-> n, reason |-> "none"]
Restarting(n) == [kind |-> "Restarting", restarts |-> n, reason |-> "none"]
Failed(n, reason) == [kind |-> "Failed", restarts |-> n, reason |-> reason]

\* child: the aria2 process.  monitor: where the thread is in its loop.
\* restarts: the deque of the monitor.  attempts: every restart it tried
\* within the last Window, whether or not the monitor still counts it.
\* closing: how far shutdown is; "no" before stop is set.
NoEngine ==
  [child |-> "none", monitor |-> "none", health |-> Running(0),
   restarts |-> {}, attempts |-> {}, closing |-> "no"]

\* All that is left of the engine when its AriaDeck is gone.
Orphan(c) ==
  [NoEngine EXCEPT
    !.child = engine[c].child,
    !.closing = IF engine[c].closing = "abandoned" THEN "abandoned" ELSE "no"]

Init == LockInit /\ engine = [c \in Instance |-> NoEngine]

Set(c, e) == engine' = [engine EXCEPT ![c] = e] /\ UNCHANGED lockVars

\* spawn once the lock is held.  When the monitor thread cannot be started
\* the process is dropped again, which shuts the child down.
SpawnEngine(c) ==
  /\ step[c] = "Owned" /\ engine[c].child = "none"
  /\ \/ Set(c, [NoEngine EXCEPT !.child = "running", !.monitor = "sleeping"])
     \/ Set(c, [NoEngine EXCEPT !.child = "running", !.closing = "killing"])

\* aria2 crashes, or is ended by somebody else.
EngineExits(c) ==
  /\ engine[c].child = "running"
  /\ Set(c, [engine[c] EXCEPT !.child = "exited"])

\* One poll interval passes.  The monitors sleep it out; the part of their
\* loop that follows takes no time of its own.
Tick ==
  /\ \A c \in Instance : engine[c].monitor \notin {"checking", "restarting"}
  /\ engine' = [c \in Instance |->
       [engine[c] EXCEPT
         !.monitor = IF @ = "sleeping" THEN "awake" ELSE @,
         !.restarts = Older(@),
         !.attempts = Recent(Older(@))]]
  /\ UNCHANGED lockVars

\* The loop after its sleep: stop ends it, restarts that left the window are
\* forgotten.
StopIgnored(e) == FALSE
StopSeen(e) == e.closing # "no"

KeptAll(e) == e.restarts
Kept(e) == Recent(e.restarts)

BeginPoll(c) ==
  LET e == engine[c] IN
  /\ e.monitor = "awake"
  /\ \/ StopSeen(e) /\ Set(c, [e EXCEPT !.monitor = "done"])
     \/ /\ ~StopSeen(e)
        /\ Set(c, [e EXCEPT
             !.monitor = "checking",
             !.restarts = Kept(e),
             !.health = IF Kept(e) # e.restarts /\ @.kind = "Running"
                        THEN Running(Cardinality(Kept(e))) ELSE @])

\* try_wait, under the mutex of the process.
Count(e) == Cardinality(e.restarts)

Spent(e) == Count(e) >= MaxRestarts

GaveUpSilently(e, reason) == [e EXCEPT !.monitor = "done"]
GaveUp(e, reason) ==
  [e EXCEPT !.monitor = "done", !.health = Failed(Count(e), reason)]

CheckChild(c) ==
  LET e == engine[c] IN
  /\ e.monitor = "checking"
  /\ \/ e.child = "running" /\ Set(c, [e EXCEPT !.monitor = "sleeping"])
     \/ Set(c, GaveUp(e, "probe"))
     \/ e.child = "exited" /\ Spent(e) /\ Set(c, GaveUp(e, "exit"))
     \/ /\ e.child = "exited" /\ ~Spent(e)
        /\ Set(c, [e EXCEPT !.monitor = "restarting",
                            !.health = Restarting(Count(e) + 1)])

\* process.restart(): succeeded or not, it is charged to the budget.
ChargeNothing(e) == [e EXCEPT !.attempts = @ \cup {0}]
Charge(e) == [e EXCEPT !.restarts = @ \cup {0}, !.attempts = @ \cup {0}]

RestartedQuietly(e) == [e EXCEPT !.child = "running", !.monitor = "sleeping"]
Restarted(e) == [e EXCEPT !.child = "running", !.monitor = "sleeping",
                          !.health = Running(Count(e))]

RestartChild(c) ==
  LET e == Charge(engine[c]) IN
  /\ e.monitor = "restarting"
  /\ \/ Set(c, Restarted(e))
     \/ Spent(e) /\ Set(c, GaveUp(e, "exit"))
     \/ ~Spent(e) /\ Set(c, [e EXCEPT !.monitor = "sleeping"])

\* The desktop closes: stop is set, the monitor joined, aria2 asked to end
\* over RPC (which may fail), and killed when it has not.
StopMonitoring(c) ==
  /\ step[c] = "Owned" /\ engine[c].monitor # "none" /\ engine[c].closing = "no"
  /\ Set(c, [engine[c] EXCEPT !.closing = "joining"])

JoinedAtOnce(e) == TRUE
Joined(e) == e.monitor = "done"

JoinMonitor(c) ==
  /\ engine[c].closing = "joining" /\ Joined(engine[c])
  /\ Set(c, [engine[c] EXCEPT !.closing = "asking"])

AskShutdown(c) ==
  /\ engine[c].closing = "asking"
  /\ \E child \in {engine[c].child, "exited"} :
       Set(c, [engine[c] EXCEPT !.closing = "killing", !.child = child])

\* LocalEngineProcess::shutdown.  An error is logged, or ignored by Drop.
KillEngine(c) ==
  /\ engine[c].closing = "killing"
  /\ \/ Set(c, [engine[c] EXCEPT !.closing = "stopped", !.child = "exited"])
     \/ Set(c, [engine[c] EXCEPT !.closing = "abandoned"])

\* The process is dropped, after a shutdown or because aria2 could not be
\* started: the lock goes with it.
DroppableBeforeKill(e) == e.child = "none" \/ e.closing # "no"
Droppable(e) == e.child = "none" \/ e.closing \in {"stopped", "abandoned"}

ReleaseLock(c) ==
  /\ Droppable(engine[c])
  /\ CloseLock(c)
  /\ UNCHANGED engine

ForgetLock(c) == UnlinkLock(c) /\ UNCHANGED engine

TakeLock(c) == Acquire(c) /\ UNCHANGED engine

\* aria2 is not told that AriaDeck died, and keeps running.
Crash(c) ==
  /\ Die(c)
  /\ engine' = [engine EXCEPT ![c] = Orphan(c)]

Monitor(c) == BeginPoll(c) \/ CheckChild(c) \/ RestartChild(c)
Shutdown(c) ==
  JoinMonitor(c) \/ AskShutdown(c) \/ KillEngine(c) \/ ReleaseLock(c)
    \/ ForgetLock(c)

Next ==
  \/ Tick
  \/ \E c \in Instance :
       \/ TakeLock(c) \/ SpawnEngine(c) \/ EngineExits(c) \/ Monitor(c)
       \/ StopMonitoring(c) \/ Shutdown(c) \/ Crash(c)

Fairness ==
  /\ WF_vars(Tick)
  /\ \A c \in Instance :
       /\ WF_vars(TakeLock(c))
       /\ WF_vars(Monitor(c))
       /\ WF_vars(Shutdown(c))

Spec == Init /\ [][Next]_vars
FairSpec == Spec /\ Fairness
-----------------------------------------------------------------------------
Health == [kind : {"Running", "Restarting", "Failed"},
           restarts : 0 .. MaxRestarts,
           reason : {"none", "probe", "exit"}]

EngineState ==
  [child : {"none", "running", "exited"},
   monitor : {"none", "sleeping", "awake", "checking", "restarting", "done"},
   health : Health,
   restarts : SUBSET Age,
   attempts : SUBSET Age,
   closing : {"no", "joining", "asking", "killing", "stopped", "abandoned"}]

\* Every variable has its type; no count exceeds the budget.
TypeOK == LockTypeOK /\ engine \in [Instance -> EngineState]

\* An aria2 that writes the session of the profile belongs to the instance
\* that owns the profile.  Excepted are the aria2 of a dead AriaDeck, which
\* nothing ends, and one that could not be killed.
RunningEngineIsOwned ==
  \A c \in Instance :
    engine[c].child = "running" /\ Alive(c) /\ engine[c].closing # "abandoned"
      => step[c] = "Owned"

\* Once shutdown goes past the join, nothing starts aria2 again: an exit that
\* was asked for is never taken for a crash, wherever stop found the monitor.
StoppedForGood ==
  [][\A c \in Instance :
       engine[c].closing \notin {"no", "joining"} /\ engine[c].child # "running"
         => engine'[c].child # "running"]_vars

\* No more than MaxRestarts restarts are tried within any Window, those that
\* failed included.
RestartsAreLimited ==
  \A c \in Instance : Cardinality(engine[c].attempts) <= MaxRestarts

\* aria2 is given up only after MaxRestarts restarts within one Window, or
\* because its state could not be read: isolated crashes never add up.
GivesUpOnlyWhenSpent ==
  [][\A c \in Instance :
       engine'[c].health.reason = "exit" /\ engine[c].health.reason # "exit"
         => Cardinality(engine'[c].attempts) >= MaxRestarts]_vars

\* Between two polls the health that the views show is the truth: Restarting
\* only while aria2 is down, Running with the count of the deque, Failed if
\* and only if the monitor gave up rather than was stopped.
HealthIsHonest ==
  \A c \in Instance :
    LET e == engine[c] IN
    /\ e.monitor \in {"sleeping", "awake"} =>
         \/ e.health.kind = "Restarting" /\ e.child = "exited"
         \/ /\ e.health.kind = "Running"
            /\ e.restarts \subseteq 0 .. Window
                 => e.health.restarts = Cardinality(e.restarts)
    /\ e.monitor = "done" /\ e.closing = "no" => e.health.kind = "Failed"
    /\ e.health.kind = "Failed" => e.monitor = "done"

\* A crash of aria2 does not go unnoticed: it is followed by a restart, or the
\* health stops saying Running, unless the desktop closes or dies first.  It
\* need not end in Failed: polls delayed beyond the window never spend the
\* budget, however often a restart fails.
CrashIsNoticed ==
  \A c \in Instance :
    (step[c] = "Owned" /\ engine[c].child = "exited")
      ~> \/ engine[c].child = "running"
         \/ engine[c].health.kind # "Running"
         \/ engine[c].closing # "no"
         \/ step[c] # "Owned"

\* Closing the desktop ends: the join does not wait for a monitor that waits
\* for something else, and the profile is free afterwards.
ShutdownCompletes ==
  \A c \in Instance :
    engine[c].closing # "no" ~> step[c] \in {"Released", "Dead"}
=============================================================================
