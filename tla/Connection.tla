------------------------------ MODULE Connection ------------------------------
(***************************************************************************)
(* The connection loop of run_coordinator (application/src/sync.rs): one   *)
(* attempt after another to connect, take the initial snapshot and serve   *)
(* the session, with exponential backoff between automatic retries and a   *)
(* manual retry after a failure that is permanent or one too many.         *)
(* What the loop does to the store is BeginSession and SetStale; what an   *)
(* initial snapshot puts into it is a parameter here, see SyncCoordinator. *)
(***************************************************************************)
EXTENDS DownloadStore

CONSTANTS
  MaxAttempts,  \* ReconnectPolicy::max_attempts
  Unlimited,    \* its None
  MaxGen        \* bound: the last generation

ASSUME MaxAttemptsIsOptional == MaxAttempts \in Nat \/ MaxAttempts = Unlimited
ASSUME UnlimitedIsNoNumber == Unlimited \notin Nat
ASSUME MaxGenIsNatural == MaxGen \in Nat

VARIABLES
  phase,      \* the await run_coordinator is suspended at
  state,      \* the ConnectionState it last announced
  attempt,    \* ReconnectBackoff::attempt
  first,      \* first_attempt
  cancelled,  \* the cancellation flag, or every SyncHandle dropped
  store

connectionVars == <<phase, state, attempt, first, cancelled, store>>

Phase == {"LoopHead", "Connecting", "Snapshot", "Connected",
          "RetryDelay", "ManualRetry", "Stopped"}
ConnectionState == {"Disconnected", "Connecting", "Reconnecting",
                    "Authenticating", "Connected", "Failed"}

ConnectionTypeOK ==
  /\ phase \in Phase
  /\ state \in ConnectionState
  /\ attempt \in Nat
  /\ first \in BOOLEAN
  /\ cancelled \in BOOLEAN
  /\ store \in Store

\* The store is seeded with the history rows H before the first attempt.
InitConnection(H) ==
  /\ phase = "LoopHead"
  /\ state = "Disconnected"
  /\ attempt = 0
  /\ first = TRUE
  /\ cancelled = FALSE
  /\ store = SeedLocalHistory(NewStore(0), H, [x \in Gid |-> "Complete"])

-----------------------------------------------------------------------------
\* At an await: every select is biased towards cancellation.
Awaiting(p) == phase = p /\ ~cancelled

BeginAttemptWhenDisconnected ==
  /\ Awaiting("LoopHead")
  /\ state = "Disconnected"
  /\ phase' = "Connecting"
  /\ state' = IF first THEN "Connecting" ELSE "Reconnecting"
  /\ first' = FALSE
  /\ store' = IF first THEN store ELSE BeginSession(store, store.gen + 1)
  /\ UNCHANGED <<attempt, cancelled>>
BeginAttempt ==
  /\ Awaiting("LoopHead")
  /\ phase' = "Connecting"
  /\ state' = IF first THEN "Connecting" ELSE "Reconnecting"
  /\ first' = FALSE
  /\ store' = IF first THEN store ELSE BeginSession(store, store.gen + 1)
  /\ UNCHANGED <<attempt, cancelled>>

\* reconnect_limit_reached
LimitPassed(n)  == MaxAttempts # Unlimited /\ n > MaxAttempts
LimitReached(n) == IF MaxAttempts = Unlimited THEN FALSE ELSE n >= MaxAttempts

\* handle_connection_failure and the three ways on, after n failed attempts:
\* a permanent error and the last allowed attempt wait for the user, any
\* other failure waits for the backoff delay.
KeepFresh(s) == s
MarkStale(s) == SetStale(s, TRUE)

FailAfter(n, retryable) ==
  /\ store' = MarkStale(store)
  /\ \/ /\ retryable /\ ~LimitReached(n + 1)
        /\ state' = "Disconnected" /\ phase' = "RetryDelay" /\ attempt' = n + 1
     \/ /\ ~retryable \/ LimitReached(n + 1)
        /\ state' = "Failed" /\ phase' = "ManualRetry" /\ attempt' = n
  /\ UNCHANGED <<first, cancelled>>

\* Bound: requests fail in the generations below MaxGen only.
MayFail == store.gen < MaxGen

ConnectSucceeds ==
  /\ Awaiting("Connecting")
  /\ phase' = "Snapshot"
  /\ state' = "Authenticating"
  /\ UNCHANGED <<attempt, first, cancelled, store>>

\* connect or initial_snapshot returned an error, or apply_initial_snapshot
\* refused the answer: that error is always a permanent one.
AttemptFails ==
  /\ Awaiting("Connecting") \/ Awaiting("Snapshot")
  /\ MayFail
  /\ \E retryable \in BOOLEAN : FailAfter(attempt, retryable)

\* The snapshot is in the store, as s; nothing can fail before Connected.
SnapshotApplied(s) ==
  /\ Awaiting("Snapshot")
  /\ phase' = "Connected"
  /\ state' = "Connected"
  /\ store' = SetStale(s, FALSE)
  /\ UNCHANGED <<attempt, first, cancelled>>

\* run_connected returned Retry(error).  A session that outlived reset_after
\* starts the count of attempts again.
SessionLost(retryable) ==
  /\ Awaiting("Connected")
  /\ \E outlived \in BOOLEAN : FailAfter(IF outlived THEN 0 ELSE attempt, retryable)

\* wait_for_retry_delay: the delay is over, or the user forces a refresh.
RetryDelayEnds ==
  /\ Awaiting("RetryDelay")
  /\ phase' = "LoopHead"
  /\ UNCHANGED <<state, attempt, first, cancelled, store>>

\* wait_for_manual_retry returned true, and backoff.reset().
\* Bound: the user retries MaxGen times at most.
ManualRetry ==
  /\ Awaiting("ManualRetry")
  /\ store.gen < MaxGen
  /\ phase' = "LoopHead"
  /\ attempt' = 0
  /\ UNCHANGED <<state, first, cancelled, store>>

Cancel ==
  /\ ~cancelled
  /\ phase # "Stopped"
  /\ cancelled' = TRUE
  /\ UNCHANGED <<phase, state, attempt, first, store>>

StopUnlessDelayed ==
  /\ cancelled
  /\ phase \notin {"RetryDelay", "Stopped"}
  /\ phase' = "Stopped"
  /\ state' = IF phase = "Connected" THEN "Disconnected" ELSE state
  /\ UNCHANGED <<attempt, first, cancelled, store>>
\* Every await returns from run_coordinator; only a connected one says so.
Stop ==
  /\ cancelled
  /\ phase # "Stopped"
  /\ phase' = "Stopped"
  /\ state' = IF phase = "Connected" THEN "Disconnected" ELSE state
  /\ UNCHANGED <<attempt, first, cancelled, store>>
=============================================================================
