----------------------------- MODULE DesktopProofs -----------------------------
(***************************************************************************)
(* PowerAction acts only when it should, for any actions and any countdown, *)
(* ProfileSettings survives a restart anywhere, for any profiles,           *)
(* ShellCommands removes the task it asked about, for any tasks,            *)
(* DetailsDrawer shows the details of its row, for any tasks and answers,   *)
(* and LaunchQueue loses nothing it answered for, for any forwarders,       *)
(* requests and cap.                                                        *)
(***************************************************************************)
EXTENDS PowerAction, ProfileSettings, ShellCommands, DetailsDrawer, LaunchQueue,
        FiniteSetTheorems, SequenceTheorems, TLAPS

-----------------------------------------------------------------------------
(***************************************************************************)
(* The power action.                                                        *)
(***************************************************************************)
\* The tasks of this generation have counted what the dialog has counted; so
\* there is at most one of them.
OneTaskCounts ==
  countdown # NoPower =>
    /\ left > 0
    /\ \A t \in tickers : t.mine => t.counted + left = Seconds

\* Unless the result of a save interfered, the shell holds the user's choice,
\* counts down to it, and does so only while nothing is downloading.
HeldIsChosen ==
  ~undone => /\ action = word
             /\ countdown # NoPower => countdown = word /\ downloading = 0

PowerInv ==
  /\ PowerTypeOK
  /\ OneTaskCounts
  /\ HeldIsChosen
  /\ ActsOnlyWhenDone

USE PowerAssumption

\* The records the actions build have their types.
LEMMA DeedTyped ==
  ASSUME PowerTypeOK, NEW asked \in BOOLEAN
  PROVE  [what |-> countdown, word |-> word, downloading |-> downloading, asked |-> asked,
          undone |-> undone] \in Deed
BY DEF PowerTypeOK, Deed

LEMMA OlderTyped == PowerTypeOK => Older \subseteq Counter
BY DEF PowerTypeOK, Older, Counter

LEMMA CountingTyped == [mine |-> TRUE, counted |-> 0] \in Counter
BY DEF Counter

LEMMA RequestTyped ==
  ASSUME PowerTypeOK, NEW a \in Choice, RequestSave(a)
  PROVE  save' \in {NoSave} \cup SaveRequest
BY DEF PowerTypeOK, RequestSave, SaveRequest

LEMMA NobodyActed ==
  [what |-> NoPower, word |-> NoPower, downloading |-> 0, asked |-> TRUE, undone |-> FALSE] \in Deed
BY DEF Deed, Choice

LEMMA PowerInitInv == PowerInit => PowerInv
<1> SUFFICES ASSUME PowerInit PROVE PowerInv
  OBVIOUS
<1>1. PowerTypeOK
  <2>1. action \in Choice /\ countdown \in Choice /\ word \in Choice
    BY DEF PowerInit, Choice
  <2>2. left \in 0 .. Seconds /\ downloading \in {0, 1}
    BY DEF PowerInit
  <2>3. had \in BOOLEAN /\ undone \in BOOLEAN
    BY DEF PowerInit
  <2>4. tickers \subseteq Counter /\ save \in {NoSave} \cup SaveRequest /\ acted \in Deed
    BY NobodyActed DEF PowerInit
  <2> QED
    BY <2>1, <2>2, <2>3, <2>4 DEF PowerTypeOK
<1>2. OneTaskCounts /\ HeldIsChosen /\ ActsOnlyWhenDone
  BY SMT DEF PowerInit, OneTaskCounts, HeldIsChosen, ActsOnlyWhenDone
<1> QED
  BY <1>1, <1>2 DEF PowerInv

\* The snapshots.
LEMMA SnapshotInv ==
  ASSUME PowerInv, NEW a \in {0, 1}, NEW queued \in {0, 1}, Snapshot(a, queued)
  PROVE  PowerInv'
<1>1. tickers' \subseteq Counter
  BY OlderTyped, CountingTyped DEF PowerInv, PowerTypeOK, Snapshot, StartCountdown, NoCountdown
<1>2. PowerTypeOK'
  <2>1. action' \in Choice /\ countdown' \in Choice /\ word' \in Choice
    BY DEF PowerInv, PowerTypeOK, Choice, Snapshot, StartCountdown, NoCountdown
  <2>2. left' \in 0 .. Seconds /\ downloading' \in {0, 1}
    BY DEF PowerInv, PowerTypeOK, OneTaskCounts, Snapshot, StartCountdown, NoCountdown
  <2>3. had' \in BOOLEAN /\ undone' \in BOOLEAN
    BY DEF PowerInv, PowerTypeOK, Snapshot, StartCountdown, NoCountdown
  <2>4. tickers' \subseteq Counter /\ save' \in {NoSave} \cup SaveRequest /\ acted' \in Deed
    BY <1>1 DEF PowerInv, PowerTypeOK, Snapshot, StartCountdown, NoCountdown
  <2> QED
    BY <2>1, <2>2, <2>3, <2>4 DEF PowerTypeOK
<1>3. OneTaskCounts'
  BY SMT DEF PowerInv, PowerTypeOK, OneTaskCounts, HeldIsChosen, ActsOnlyWhenDone, Choice, Counter,
     SaveRequest, Deed,
     Snapshot, StartCountdown, NoCountdown, Older
<1>4. HeldIsChosen' /\ ActsOnlyWhenDone'
  BY SMT DEF PowerInv, PowerTypeOK, OneTaskCounts, HeldIsChosen, ActsOnlyWhenDone, Choice, Counter,
     SaveRequest, Deed,
     Snapshot, StartCountdown, NoCountdown, Older
<1> QED
  BY <1>2, <1>3, <1>4 DEF PowerInv

\* The tasks.
LEMMA TickEndsInv ==
  ASSUME PowerInv, NEW t \in tickers, TickEnds(t)
  PROVE  PowerInv'
<1>1. PowerTypeOK'
  BY SMT DEF PowerInv, PowerTypeOK, OneTaskCounts, Choice, Counter, SaveRequest, TickEnds
<1>2. OneTaskCounts'
  BY SMT DEF PowerInv, PowerTypeOK, OneTaskCounts, HeldIsChosen, ActsOnlyWhenDone, Choice, Counter,
     SaveRequest, Deed,
     TickEnds
<1>3. HeldIsChosen' /\ ActsOnlyWhenDone'
  BY SMT DEF PowerInv, PowerTypeOK, OneTaskCounts, HeldIsChosen, ActsOnlyWhenDone, Choice, Counter,
     SaveRequest, Deed,
     TickEnds
<1> QED
  BY <1>1, <1>2, <1>3 DEF PowerInv

LEMMA TickInv ==
  ASSUME PowerInv, NEW t \in tickers, Tick(t)
  PROVE  PowerInv'
<1>1. PowerTypeOK'
  BY SMT DEF PowerInv, PowerTypeOK, OneTaskCounts, Choice, Counter, SaveRequest, Tick, IsCounted,
     Counts
<1>2. OneTaskCounts'
  BY SMT DEF PowerInv, PowerTypeOK, OneTaskCounts, HeldIsChosen, ActsOnlyWhenDone, Choice, Counter,
     SaveRequest, Deed,
     Tick, IsCounted, Counts
<1>3. HeldIsChosen' /\ ActsOnlyWhenDone'
  BY SMT DEF PowerInv, PowerTypeOK, OneTaskCounts, HeldIsChosen, ActsOnlyWhenDone, Choice, Counter,
     SaveRequest, Deed,
     Tick, IsCounted, Counts
<1> QED
  BY <1>1, <1>2, <1>3 DEF PowerInv

LEMMA LastTickInv ==
  ASSUME PowerInv, NEW t \in tickers, LastTick(t)
  PROVE  PowerInv'
<1>1. save' \in {NoSave} \cup SaveRequest
  BY RequestTyped DEF PowerInv, PowerTypeOK, Choice, LastTick, Disarm
<1>2. (t.counted + 1 = Seconds) \in BOOLEAN
  OBVIOUS
<1>3. acted' \in Deed
  BY <1>2, DeedTyped DEF PowerInv, Act, LastTick
<1>4. PowerTypeOK'
  <2>1. action' \in Choice /\ countdown' \in Choice /\ word' \in Choice
    BY DEF PowerInv, PowerTypeOK, Choice, LastTick, IsCounted, Counts, Disarm, Act
  <2>2. left' \in 0 .. Seconds /\ downloading' \in {0, 1}
    BY DEF PowerInv, PowerTypeOK, OneTaskCounts, LastTick, IsCounted, Counts, Disarm, Act
  <2>3. had' \in BOOLEAN /\ undone' \in BOOLEAN
    BY DEF PowerInv, PowerTypeOK, LastTick, IsCounted, Counts, Disarm, Act
  <2>4. tickers' \subseteq Counter /\ save' \in {NoSave} \cup SaveRequest /\ acted' \in Deed
    BY <1>1, <1>2, <1>3 DEF PowerInv, PowerTypeOK, LastTick, IsCounted, Counts, Disarm, Act
  <2> QED
    BY <2>1, <2>2, <2>3, <2>4 DEF PowerTypeOK
<1>5. OneTaskCounts'
  BY SMT DEF PowerInv, PowerTypeOK, OneTaskCounts, HeldIsChosen, ActsOnlyWhenDone, Choice, Counter,
     SaveRequest, Deed,
     LastTick, IsCounted, Counts, Disarm, Act, RequestSave
<1>6. HeldIsChosen' /\ ActsOnlyWhenDone'
  BY SMT DEF PowerInv, PowerTypeOK, OneTaskCounts, HeldIsChosen, ActsOnlyWhenDone, Choice, Counter,
     SaveRequest, Deed,
     LastTick, IsCounted, Counts, Disarm, Act, RequestSave
<1> QED
  BY <1>4, <1>5, <1>6 DEF PowerInv

\* The user.
LEMMA ExecuteNowInv ==
  ASSUME PowerInv, ExecuteNow
  PROVE  PowerInv'
<1>1. tickers' \subseteq Counter
  BY OlderTyped, CountingTyped DEF PowerInv, PowerTypeOK, ExecuteNow, NoCountdown
<1>2. save' \in {NoSave} \cup SaveRequest
  BY RequestTyped DEF PowerInv, PowerTypeOK, Choice, ExecuteNow, Disarm
<1>3. acted' \in Deed
  BY DeedTyped DEF PowerInv, Act, ExecuteNow
<1>4. PowerTypeOK'
  <2>1. action' \in Choice /\ countdown' \in Choice /\ word' \in Choice
    BY DEF PowerInv, PowerTypeOK, Choice, ExecuteNow, NoCountdown, Disarm, Act
  <2>2. left' \in 0 .. Seconds /\ downloading' \in {0, 1}
    BY DEF PowerInv, PowerTypeOK, OneTaskCounts, ExecuteNow, NoCountdown, Disarm, Act
  <2>3. had' \in BOOLEAN /\ undone' \in BOOLEAN
    BY DEF PowerInv, PowerTypeOK, ExecuteNow, NoCountdown, Disarm, Act
  <2>4. tickers' \subseteq Counter /\ save' \in {NoSave} \cup SaveRequest /\ acted' \in Deed
    BY <1>1, <1>2, <1>3 DEF PowerInv, PowerTypeOK, ExecuteNow, NoCountdown, Disarm, Act
  <2> QED
    BY <2>1, <2>2, <2>3, <2>4 DEF PowerTypeOK
<1>5. OneTaskCounts'
  BY SMT DEF PowerInv, PowerTypeOK, OneTaskCounts, HeldIsChosen, ActsOnlyWhenDone, Choice, Counter,
     SaveRequest, Deed,
     ExecuteNow, NoCountdown, Older, Disarm, Act, RequestSave
<1>6. HeldIsChosen' /\ ActsOnlyWhenDone'
  BY SMT DEF PowerInv, PowerTypeOK, OneTaskCounts, HeldIsChosen, ActsOnlyWhenDone, Choice, Counter,
     SaveRequest, Deed,
     ExecuteNow, NoCountdown, Older, Disarm, Act, RequestSave
<1> QED
  BY <1>4, <1>5, <1>6 DEF PowerInv

LEMMA CancelCountdownInv ==
  ASSUME PowerInv, CancelCountdown
  PROVE  PowerInv'
<1>1. tickers' \subseteq Counter
  BY OlderTyped, CountingTyped DEF PowerInv, PowerTypeOK, CancelCountdown, NoCountdown
<1>2. save' \in {NoSave} \cup SaveRequest
  BY RequestTyped DEF PowerInv, PowerTypeOK, Choice, CancelCountdown, Disarm
<1>3. PowerTypeOK'
  <2>1. action' \in Choice /\ countdown' \in Choice /\ word' \in Choice
    BY DEF PowerInv, PowerTypeOK, Choice, CancelCountdown, NoCountdown, Disarm
  <2>2. left' \in 0 .. Seconds /\ downloading' \in {0, 1}
    BY DEF PowerInv, PowerTypeOK, OneTaskCounts, CancelCountdown, NoCountdown, Disarm
  <2>3. had' \in BOOLEAN /\ undone' \in BOOLEAN
    BY DEF PowerInv, PowerTypeOK, CancelCountdown, NoCountdown, Disarm
  <2>4. tickers' \subseteq Counter /\ save' \in {NoSave} \cup SaveRequest /\ acted' \in Deed
    BY <1>1, <1>2 DEF PowerInv, PowerTypeOK, CancelCountdown, NoCountdown, Disarm
  <2> QED
    BY <2>1, <2>2, <2>3, <2>4 DEF PowerTypeOK
<1>4. OneTaskCounts'
  BY SMT DEF PowerInv, PowerTypeOK, OneTaskCounts, HeldIsChosen, ActsOnlyWhenDone, Choice, Counter,
     SaveRequest, Deed,
     CancelCountdown, NoCountdown, Older, Disarm, RequestSave
<1>5. HeldIsChosen' /\ ActsOnlyWhenDone'
  BY SMT DEF PowerInv, PowerTypeOK, OneTaskCounts, HeldIsChosen, ActsOnlyWhenDone, Choice, Counter,
     SaveRequest, Deed,
     CancelCountdown, NoCountdown, Older, Disarm, RequestSave
<1> QED
  BY <1>3, <1>4, <1>5 DEF PowerInv

LEMMA SelectInv ==
  ASSUME PowerInv, NEW a \in Choice, Select(a)
  PROVE  PowerInv'
<1>1. tickers' \subseteq Counter
  BY OlderTyped, CountingTyped DEF PowerInv, PowerTypeOK, Select, NoCountdown
<1>2. save' \in {NoSave} \cup SaveRequest
  BY RequestTyped DEF PowerInv, PowerTypeOK, Choice, Select
<1>3. PowerTypeOK'
  <2>1. action' \in Choice /\ countdown' \in Choice /\ word' \in Choice
    BY DEF PowerInv, PowerTypeOK, Choice, Select, NoCountdown
  <2>2. left' \in 0 .. Seconds /\ downloading' \in {0, 1}
    BY DEF PowerInv, PowerTypeOK, OneTaskCounts, Select, NoCountdown
  <2>3. had' \in BOOLEAN /\ undone' \in BOOLEAN
    <3>1. (downloading > 0) \in BOOLEAN /\ (undone /\ countdown # NoPower /\ a # NoPower) \in BOOLEAN
      OBVIOUS
    <3>2. undone' \in BOOLEAN
      BY <3>1, Zenon DEF Select
    <3>3. had' \in BOOLEAN
      BY <3>1, Zenon DEF PowerInv, PowerTypeOK, Select, NoCountdown
    <3> QED
      BY <3>2, <3>3
  <2>4. tickers' \subseteq Counter /\ save' \in {NoSave} \cup SaveRequest /\ acted' \in Deed
    BY <1>1, <1>2 DEF PowerInv, PowerTypeOK, Select, NoCountdown
  <2> QED
    BY <2>1, <2>2, <2>3, <2>4 DEF PowerTypeOK
<1>4. OneTaskCounts'
  BY SMT DEF PowerInv, PowerTypeOK, OneTaskCounts, HeldIsChosen, ActsOnlyWhenDone, Choice, Counter,
     SaveRequest, Deed,
     Select, NoCountdown, Older, RequestSave
<1>5. HeldIsChosen' /\ ActsOnlyWhenDone'
  BY SMT DEF PowerInv, PowerTypeOK, OneTaskCounts, HeldIsChosen, ActsOnlyWhenDone, Choice, Counter,
     SaveRequest, Deed,
     Select, NoCountdown, Older, RequestSave
<1> QED
  BY <1>3, <1>4, <1>5 DEF PowerInv

LEMMA SaveSettingsPageInv ==
  ASSUME PowerInv, NEW a \in Choice, SaveSettingsPage(a)
  PROVE  PowerInv'
<1>1. save' \in {NoSave} \cup SaveRequest
  BY RequestTyped DEF PowerInv, PowerTypeOK, Choice, SaveSettingsPage
<1>2. PowerTypeOK'
  <2>1. action' \in Choice /\ countdown' \in Choice /\ word' \in Choice
    BY DEF PowerInv, PowerTypeOK, Choice, SaveSettingsPage
  <2>2. left' \in 0 .. Seconds /\ downloading' \in {0, 1}
    BY DEF PowerInv, PowerTypeOK, OneTaskCounts, SaveSettingsPage
  <2>3. had' \in BOOLEAN /\ undone' \in BOOLEAN
    BY DEF PowerInv, PowerTypeOK, SaveSettingsPage
  <2>4. tickers' \subseteq Counter /\ save' \in {NoSave} \cup SaveRequest /\ acted' \in Deed
    BY <1>1 DEF PowerInv, PowerTypeOK, SaveSettingsPage
  <2> QED
    BY <2>1, <2>2, <2>3, <2>4 DEF PowerTypeOK
<1>3. OneTaskCounts'
  BY SMT DEF PowerInv, PowerTypeOK, OneTaskCounts, HeldIsChosen, ActsOnlyWhenDone, Choice, Counter,
     SaveRequest, Deed,
     SaveSettingsPage, RequestSave
<1>4. HeldIsChosen' /\ ActsOnlyWhenDone'
  BY SMT DEF PowerInv, PowerTypeOK, OneTaskCounts, HeldIsChosen, ActsOnlyWhenDone, Choice, Counter,
     SaveRequest, Deed,
     SaveSettingsPage, RequestSave
<1> QED
  BY <1>2, <1>3, <1>4 DEF PowerInv

\* The results of the saves.
LEMMA SaveSucceedsInv ==
  ASSUME PowerInv, SaveSucceeds
  PROVE  PowerInv'
<1>1. PowerTypeOK'
  BY SMT DEF PowerInv, PowerTypeOK, OneTaskCounts, Choice, Counter, SaveRequest, SaveSucceeds,
     NoSave
<1>2. OneTaskCounts'
  BY SMT DEF PowerInv, PowerTypeOK, OneTaskCounts, HeldIsChosen, ActsOnlyWhenDone, Choice, Counter,
     SaveRequest, Deed,
     SaveSucceeds, NoSave
<1>3. HeldIsChosen' /\ ActsOnlyWhenDone'
  BY SMT DEF PowerInv, PowerTypeOK, OneTaskCounts, HeldIsChosen, ActsOnlyWhenDone, Choice, Counter,
     SaveRequest, Deed,
     SaveSucceeds, NoSave
<1> QED
  BY <1>1, <1>2, <1>3 DEF PowerInv

LEMMA SaveIsRefusedInv ==
  ASSUME PowerInv, SaveIsRefused
  PROVE  PowerInv'
<1>1. PowerTypeOK'
  BY SMT DEF PowerInv, PowerTypeOK, OneTaskCounts, Choice, Counter, SaveRequest, SaveIsRefused,
     NoSave
<1>2. OneTaskCounts'
  BY SMT DEF PowerInv, PowerTypeOK, OneTaskCounts, HeldIsChosen, ActsOnlyWhenDone, Choice, Counter,
     SaveRequest, Deed,
     SaveIsRefused, NoSave
<1>3. HeldIsChosen' /\ ActsOnlyWhenDone'
  BY SMT DEF PowerInv, PowerTypeOK, OneTaskCounts, HeldIsChosen, ActsOnlyWhenDone, Choice, Counter,
     SaveRequest, Deed,
     SaveIsRefused, NoSave
<1> QED
  BY <1>1, <1>2, <1>3 DEF PowerInv

LEMMA PowerStutterInv == PowerInv /\ UNCHANGED powerVars => PowerInv'
BY SMT DEF PowerInv, PowerTypeOK, OneTaskCounts, HeldIsChosen, ActsOnlyWhenDone, Choice, powerVars

LEMMA PowerStepInv == PowerInv /\ [PowerNext]_powerVars => PowerInv'
<1> SUFFICES ASSUME PowerInv, [PowerNext]_powerVars PROVE PowerInv'
  OBVIOUS
<1>1. ASSUME NEW a \in {0, 1}, NEW queued \in {0, 1}, Snapshot(a, queued) PROVE PowerInv'
  BY <1>1, SnapshotInv
<1>2. ASSUME NEW t \in tickers, TickEnds(t) \/ Tick(t) \/ LastTick(t) PROVE PowerInv'
  BY <1>2, TickEndsInv, TickInv, LastTickInv
<1>3. CASE ExecuteNow \/ CancelCountdown
  BY <1>3, ExecuteNowInv, CancelCountdownInv
<1>4. ASSUME NEW a \in Choice, Select(a) \/ SaveSettingsPage(a) PROVE PowerInv'
  BY <1>4, SelectInv, SaveSettingsPageInv
<1>5. CASE SaveSucceeds \/ SaveIsRefused
  BY <1>5, SaveSucceedsInv, SaveIsRefusedInv
<1>6. CASE UNCHANGED powerVars
  BY <1>6, PowerStutterInv
<1> QED
  BY <1>1, <1>2, <1>3, <1>4, <1>5, <1>6 DEF PowerNext

\* The invariant holds in every reachable state.
THEOREM PowerInvariant == PowerSpec => []PowerInv
BY PowerInitInv, PowerStepInv, PTL DEF PowerSpec

\* Every variable keeps its type: the countdown never goes below zero.
THEOREM PowerTypeCorrect == PowerSpec => []PowerTypeOK
<1>1. PowerInv => PowerTypeOK
  BY DEF PowerInv
<1> QED
  BY <1>1, PowerInvariant, PTL

\* A power action is the one the user chose last, after the whole countdown or
\* at the user's word, with nothing downloading.
THEOREM PowerActsOnlyWhenDone == PowerSpec => []ActsOnlyWhenDone
<1>1. PowerInv => ActsOnlyWhenDone
  BY DEF PowerInv
<1> QED
  BY <1>1, PowerInvariant, PTL

-----------------------------------------------------------------------------
(***************************************************************************)
(* The settings, of a user who waits for a save to end.  Then a save is     *)
(* with the worker, or its result with the UI thread, or a profile is being *)
(* switched, or nothing is under way.                                       *)
(***************************************************************************)
HIDE PowerAssumption

Result   == [save : Save, ok : BOOLEAN]
Switch   == [at : Stage, to : Profile, prev : Profile, env : Env]
IsKept(p)     == live.env = kept[p] /\ live.env.owner = p
EngineHas(e)  == current /\ ~unsure => engine = e

\* The bags hold what was reported as saved, each for its profile; the profile
\* a restart finds has one.
BagsAreKept ==
  /\ \A p \in Profile : bag[p] = kept[p] /\ (bag[p] # NoBag => bag[p].owner = p)
  /\ bag[onDisk] # NoBag

Resting ==
  /\ switch = Idle /\ queue = <<>> /\ work = "preflight" /\ results = <<>>
  /\ IsKept(active)
  /\ EngineHas(live.env)

\* The save is of the active profile's settings.
Saving(s) ==
  /\ switch = Idle /\ queue = <<s>> /\ results = <<>>
  /\ IsKept(active)
  /\ s.profile = active /\ s.next.env.owner = active /\ s.previous.env = live.env
  /\ ~s.apply => s.next.env = live.env /\ work # "apply"
  /\ EngineHas(IF work \in {"preflight", "apply"} THEN live.env ELSE s.next.env)

Answered(r) ==
  /\ switch = Idle /\ queue = <<>> /\ work = "preflight" /\ results = <<r>>
  /\ r.ok  => /\ r.save.next.env = kept[active] /\ r.save.next.env.owner = active
              /\ EngineHas(r.save.next.env)
  /\ ~r.ok => IsKept(active) /\ EngineHas(live.env)

Switching ==
  /\ switch \in Switch /\ queue = <<>> /\ work = "preflight" /\ results = <<>>
  /\ IsKept(switch.prev) /\ switch.to # switch.prev
  /\ active = IF switch.at = "leave" THEN switch.prev ELSE switch.to
  /\ switch.at \in {"catalog", "mirror", "bag"} =>
       bag[switch.to] # NoBag /\ switch.env = bag[switch.to]
  /\ EngineHas(live.env)

OneThingAtATime ==
  \/ Resting
  \/ \E s \in Save : Saving(s)
  \/ \E r \in Result : Answered(r)
  \/ Switching

SettingsInv == SettingsTypeOK /\ BagsAreKept /\ OneThingAtATime

LEMMA SingleFacts ==
  ASSUME NEW S, NEW x \in S
  PROVE  /\ <<x>> \in Seq(S) /\ <<x>> # <<>> /\ Head(<<x>>) = x
         /\ Tail(<<x>>) = <<>> /\ Append(<<>>, x) = <<x>>
<1>1. <<x>> \in Seq(S)
  OBVIOUS
<1>2. <<x>> # <<>>
  OBVIOUS
<1>3. Head(<<x>>) = x
  OBVIOUS
<1>4. Tail(<<x>>) = <<>>
  OBVIOUS
<1>5. Append(<<>>, x) = <<x>>
  OBVIOUS
<1> QED
  BY <1>1, <1>2, <1>3, <1>4, <1>5

LEMMA SwitchIsNotIdle == ASSUME NEW w \in Switch PROVE w # Idle
<1>1. "prev" \in DOMAIN w /\ "prev" \notin DOMAIN Idle
  BY DEF Switch, Idle
<1> QED
  BY <1>1

LEMMA SettingsInvSuffices == SettingsInv => RestartIsCoherent /\ EngineFollowsSettings
<1> SUFFICES ASSUME SettingsInv PROVE RestartIsCoherent /\ EngineFollowsSettings
  OBVIOUS
<1>1. EachProfileOwnsItsBag
  BY DEF SettingsInv, BagsAreKept, EachProfileOwnsItsBag
<1>2. bag[onDisk] # NoBag /\ Restarted = bag[onDisk] /\ bag[onDisk] = kept[onDisk]
  BY DEF SettingsInv, SettingsTypeOK, BagsAreKept, Restarted
<1>3. RestartIsCoherent
  BY <1>1, <1>2 DEF RestartIsCoherent
<1>4. EngineFollowsSettings
  <2> SUFFICES ASSUME Quiet, UiIsFree, current, ~unsure, active = onDisk
               PROVE  engine = live.env /\ live.env = Restarted
    BY DEF EngineFollowsSettings
  <2>1. Resting
    <3>1. ~ \E s \in Save : Saving(s)
      BY SingleFacts DEF Saving, Quiet
    <3>2. ~ \E r \in Result : Answered(r)
      BY SingleFacts DEF Answered, Quiet
    <3>3. ~Switching
      BY SwitchIsNotIdle DEF Switching, UiIsFree
    <3> QED
      BY <3>1, <3>2, <3>3 DEF SettingsInv, OneThingAtATime
  <2> QED
    BY <1>2, <2>1 DEF Resting, IsKept, EngineHas
<1> QED
  BY <1>3, <1>4

LEMMA SettingsInitInv == SettingsInit => SettingsInv
<1> SUFFICES ASSUME SettingsInit PROVE SettingsInv
  OBVIOUS
<1> DEFINE e == [owner |-> First, ver |-> 0]
<1>1. e \in Env /\ e # NoBag /\ e.owner = First
  BY FirstIsAProfile, EditsAreBounded, NoBagIsNone DEF Env
<1>2. bag = [p \in Profile |-> IF p = First THEN e ELSE NoBag] /\ kept = bag /\ tried = bag
  BY DEF SettingsInit
<1>3. live = [env |-> e, ui |-> 0] /\ file = live /\ engine = e /\ active = First /\ onDisk = First
  BY DEF SettingsInit
<1> HIDE DEF e
<1>4. SettingsTypeOK
  <2>1. live \in Settings
    BY <1>1, <1>3, EditsAreBounded DEF Settings
  <2>2. bag \in [Profile -> Env \cup {NoBag}]
    BY <1>1, <1>2
  <2>3. current \in BOOLEAN /\ unsure \in BOOLEAN /\ pending \in BOOLEAN
    BY DEF SettingsInit
  <2>4. queue \in Seq(Save) /\ results \in Seq([save : Save, ok : BOOLEAN]) /\ work = "preflight"
        /\ switch = Idle /\ edits \in 0 .. MaxEdits
    BY EditsAreBounded DEF SettingsInit
  <2> QED
    BY <1>1, <1>2, <1>3, <2>1, <2>2, <2>3, <2>4, FirstIsAProfile DEF SettingsTypeOK
<1>5. BagsAreKept
  BY <1>1, <1>2, <1>3, FirstIsAProfile DEF BagsAreKept
<1>6. Resting
  <2>1. IsKept(active)
    BY <1>1, <1>2, <1>3, FirstIsAProfile DEF IsKept
  <2>2. EngineHas(live.env)
    BY <1>3 DEF EngineHas
  <2> QED
    BY <2>1, <2>2 DEF SettingsInit, Resting
<1> QED
  BY <1>4, <1>5, <1>6 DEF SettingsInv, OneThingAtATime

-----------------------------------------------------------------------------
\* What is under way, from what there is to see of it.
LEMMA AtRest == SettingsInv /\ Quiet /\ switch = Idle => Resting
<1> SUFFICES ASSUME SettingsInv, Quiet, switch = Idle PROVE Resting
  OBVIOUS
<1>1. ~ \E s \in Save : Saving(s)
  BY SingleFacts DEF Saving, Quiet
<1>2. ~ \E r \in Result : Answered(r)
  BY SingleFacts DEF Answered, Quiet
<1>3. ~Switching
  BY SwitchIsNotIdle DEF Switching
<1> QED
  BY <1>1, <1>2, <1>3 DEF SettingsInv, OneThingAtATime

LEMMA TheSave == SettingsInv /\ queue # <<>> => \E s \in Save : Saving(s)
BY DEF SettingsInv, OneThingAtATime, Resting, Answered, Switching

LEMMA TheResult == SettingsInv /\ results # <<>> => \E r \in Result : Answered(r)
BY DEF SettingsInv, OneThingAtATime, Resting, Saving, Switching

LEMMA TheSwitch == SettingsInv /\ switch # Idle => Switching
BY DEF SettingsInv, OneThingAtATime, Resting, Saving, Answered

\* The records.
LEMMA SettingsFields ==
  ASSUME NEW l \in Settings
  PROVE  l.env \in Env /\ l.env # NoBag /\ l.env.owner \in Profile /\ l.ui \in 0 .. MaxEdits
BY NoBagIsNone DEF Settings, Env

LEMMA SettingsWithEnv ==
  ASSUME NEW l \in Settings, NEW e \in Env
  PROVE  [l EXCEPT !.env = e] \in Settings /\ [l EXCEPT !.env = e].env = e
BY DEF Settings

LEMMA SettingsWithUi ==
  ASSUME NEW l \in Settings, NEW n \in 0 .. MaxEdits
  PROVE  [l EXCEPT !.ui = n] \in Settings /\ [l EXCEPT !.ui = n].env = l.env
BY DEF Settings

LEMMA SettingsWithVersion ==
  ASSUME NEW l \in Settings, NEW n \in 0 .. MaxEdits
  PROVE  /\ [l EXCEPT !.env.ver = n] \in Settings
         /\ [l EXCEPT !.env.ver = n].env \in Env
         /\ [l EXCEPT !.env.ver = n].env.owner = l.env.owner
BY DEF Settings, Env

LEMMA SaveFields ==
  ASSUME NEW s \in Save
  PROVE  /\ s.next \in Settings /\ s.previous \in Settings /\ s.profile \in Profile
         /\ s.apply \in BOOLEAN /\ s.shell \in BOOLEAN
<1>1. s.next \in Settings /\ s.previous \in Settings /\ s.profile \in Profile
  BY DEF Save
<1>2. s.apply \in BOOLEAN
  BY Zenon DEF Save
<1>3. s.shell \in BOOLEAN
  BY Zenon DEF Save
<1> QED
  BY <1>1, <1>2, <1>3

LEMMA SaveTyped ==
  ASSUME NEW n \in Settings, NEW v \in Settings, NEW p \in Profile,
         NEW a \in BOOLEAN, NEW b \in BOOLEAN
  PROVE  [shell |-> b, next |-> n, previous |-> v, apply |-> a, profile |-> p] \in Save
BY Zenon DEF Save

LEMMA ResultTyped ==
  ASSUME NEW s \in Save, NEW ok \in BOOLEAN
  PROVE  [save |-> s, ok |-> ok] \in Result
BY Zenon DEF Result

LEMMA ResultFields ==
  ASSUME NEW r \in Result
  PROVE  r.save \in Save /\ r.ok \in BOOLEAN
<1>1. r.save \in Save
  BY DEF Result
<1>2. r.ok \in BOOLEAN
  BY Zenon DEF Result
<1> QED
  BY <1>1, <1>2

LEMMA Finished ==
  ASSUME NEW s \in Save, Saving(s), NEW ok \in BOOLEAN, Finish(ok)
  PROVE  LET r == [save |-> s, ok |-> ok] IN
         /\ queue' = <<>> /\ work' = "preflight" /\ results' = <<r>>
         /\ r \in Result /\ queue' \in Seq(Save) /\ results' \in Seq(Result)
<1> DEFINE r == [save |-> s, ok |-> ok]
<1>1. r \in Result
  BY ResultTyped
<1>2. queue = <<s>> /\ results = <<>>
  BY DEF Saving
<1>3. results' = <<r>>
  <2>1. Head(queue) = s
    BY <1>2, SingleFacts
  <2>2. results' = Append(<<>>, r)
    BY <1>2, <2>1 DEF Finish
  <2> QED
    BY <2>2, <1>1, SingleFacts
<1>4. queue' = <<>> /\ work' = "preflight"
  BY <1>2, SingleFacts DEF Finish
<1>5. queue' \in Seq(Save)
  BY <1>4
<1>6. results' \in Seq(Result)
  BY <1>1, <1>3, SingleFacts
<1> QED
  BY <1>1, <1>3, <1>4, <1>5, <1>6

-----------------------------------------------------------------------------
\* A save that was put in the queue of a worker at rest.
LEMMA SaveBegins ==
  ASSUME SettingsInv, Resting, NEW n \in Settings, NEW a \in BOOLEAN, NEW b \in BOOLEAN,
         Queue(n, a, b), n.env.owner = active, ~a => n.env = live.env,
         UNCHANGED <<active, switch, work, results, engine, current, unsure>>,
         live'.env = live.env, kept' = kept
  PROVE  OneThingAtATime' /\ queue' \in Seq(Save)
<1> DEFINE s == [shell |-> b, next |-> n, previous |-> live, apply |-> a, profile |-> active]
<1>1. s \in Save
  BY SaveTyped DEF SettingsInv, SettingsTypeOK
<1>2. queue' = <<s>>
  <2>1. queue' = Append(queue, s) /\ queue = <<>>
    BY DEF Queue, Resting
  <2> QED
    BY <2>1, <1>1, SingleFacts
<1>3. PICK z \in Save : z = s
  BY <1>1
<1>4. z.profile = active /\ z.next = n /\ z.previous = live
  BY <1>3
<1>5. z.apply <=> a
  BY <1>3
<1>6. queue' = <<z>>
  BY <1>2, <1>3
<1> HIDE DEF s
<1>7. IsKept(active)' /\ EngineHas(live.env)'
  BY DEF Resting, IsKept, EngineHas
<1>8. work' = "preflight" /\ switch' = Idle /\ results' = <<>>
  BY DEF Resting
<1>9. z.next.env.owner = active' /\ z.previous.env = live'.env /\ z.profile = active'
  BY <1>4
<1>10. ~z.apply => z.next.env = live'.env /\ work' # "apply"
  BY <1>4, <1>5, <1>8
<1>11. Saving(z)'
  BY <1>6, <1>7, <1>8, <1>9, <1>10 DEF Saving, EngineHas
<1>12. queue' \in Seq(Save)
  BY <1>6, SingleFacts
<1> QED
  BY <1>11, <1>12 DEF OneThingAtATime

LEMMA SaveSettingsStep ==
  ASSUME SettingsInv, ~Overlap, SaveSettings PROVE SettingsInv'
<1>1. Resting
  BY AtRest DEF SaveSettings, MayAct, UiIsFree
<1>2. live \in Settings /\ active \in Profile /\ edits' \in 0 .. MaxEdits
  BY EditsAreBounded DEF SettingsInv, SettingsTypeOK, SaveSettings
<1>3. PICK n \in Settings : n = [live EXCEPT !.env.ver = edits']
  BY <1>2, SettingsWithVersion
<1>4. n.env \in Env /\ n.env.owner = active
  BY <1>1, <1>2, <1>3, SettingsWithVersion DEF Resting, IsKept
<1>5. OneThingAtATime' /\ queue' \in Seq(Save)
  <2>1. Queue(n, TRUE, TRUE)
    BY <1>3 DEF SaveSettings
  <2> QED
    BY <1>1, <1>4, <2>1, SaveBegins DEF SaveSettings, memory, engineSide
<1>6. tried' \in [Profile -> Env \cup {NoBag}]
  BY <1>2, <1>3, <1>4 DEF SaveSettings, SettingsInv, SettingsTypeOK
<1>7. pending' \in BOOLEAN
  BY DEF SaveSettings
<1>8. SettingsTypeOK'
  BY <1>2, <1>5, <1>6, <1>7 DEF SaveSettings, SettingsInv, SettingsTypeOK, memory, disk, engineSide
<1>9. BagsAreKept'
  BY DEF SaveSettings, SettingsInv, BagsAreKept, disk
<1> QED
  BY <1>5, <1>8, <1>9 DEF SettingsInv

LEMMA SavePreferencesStep ==
  ASSUME SettingsInv, ~Overlap, SavePreferences PROVE SettingsInv'
<1>1. Resting
  BY AtRest DEF SavePreferences, MayAct, UiIsFree
<1>2. live \in Settings /\ active \in Profile /\ edits' \in 0 .. MaxEdits
  BY EditsAreBounded DEF SettingsInv, SettingsTypeOK, SavePreferences
<1>3. live' \in Settings /\ live'.env = live.env
  BY <1>2, SettingsWithUi DEF SavePreferences
<1>4. PICK n \in Settings : n = live'
  BY <1>3
<1>5. n.env.owner = active
  BY <1>1, <1>3, <1>4 DEF Resting, IsKept
<1>6. OneThingAtATime' /\ queue' \in Seq(Save)
  <2>1. Queue(n, FALSE, FALSE)
    BY <1>4 DEF SavePreferences
  <2> QED
    BY <1>1, <1>3, <1>4, <1>5, <2>1, SaveBegins DEF SavePreferences, engineSide, history
<1>7. SettingsTypeOK'
  BY <1>2, <1>3, <1>6 DEF SavePreferences, SettingsInv, SettingsTypeOK, disk, engineSide, history
<1>8. BagsAreKept'
  BY DEF SavePreferences, SettingsInv, BagsAreKept, disk, history
<1> QED
  BY <1>6, <1>7, <1>8 DEF SettingsInv

-----------------------------------------------------------------------------
\* A save that fails leaves the settings as they are; what the engine was given
\* is taken back, or that failed too and is known.
LEMMA SaveFails ==
  ASSUME SettingsInv, NEW s \in Save, Saving(s), Finish(FALSE),
         UNCHANGED <<active, live, switch, kept>>, EngineHas(live.env)'
  PROVE  /\ OneThingAtATime' /\ work' = "preflight"
         /\ queue' \in Seq(Save) /\ results' \in Seq(Result)
<1>1. PICK r \in Result : r = [save |-> s, ok |-> FALSE]
  BY ResultTyped
<1>2. queue' = <<>> /\ work' = "preflight" /\ results' = <<r>>
      /\ queue' \in Seq(Save) /\ results' \in Seq(Result)
  BY <1>1, Finished
<1>3. ~r.ok
  BY <1>1
<1>4. switch' = Idle /\ IsKept(active)'
  BY DEF Saving, IsKept
<1>5. Answered(r)'
  BY <1>2, <1>3, <1>4 DEF Answered
<1> QED
  BY <1>2, <1>5 DEF OneThingAtATime

LEMMA PreflightRefusesStep == ASSUME SettingsInv, PreflightRefuses PROVE SettingsInv'
<1>1. PICK s \in Save : Saving(s)
  BY TheSave DEF PreflightRefuses, Working
<1>2. EngineHas(live.env)'
  BY <1>1 DEF PreflightRefuses, Working, Saving, EngineHas, memory, engineSide
<1>3. OneThingAtATime' /\ work' = "preflight" /\ queue' \in Seq(Save) /\ results' \in Seq(Result)
  BY <1>1, <1>2, SaveFails DEF PreflightRefuses, memory, history
<1>4. SettingsTypeOK'
  BY <1>3 DEF PreflightRefuses, SettingsInv, SettingsTypeOK, Result, memory, disk, engineSide,
     history
<1>5. BagsAreKept'
  BY DEF PreflightRefuses, SettingsInv, BagsAreKept, disk, history
<1> QED
  BY <1>3, <1>4, <1>5 DEF SettingsInv

LEMMA PreflightStep == ASSUME SettingsInv, Preflight PROVE SettingsInv'
<1>1. PICK s \in Save : Saving(s)
  BY TheSave DEF Preflight, Working
<1>2. Head(queue) = s
  BY <1>1, SingleFacts DEF Saving
<1>3. work' = IF s.apply THEN "apply" ELSE "file"
  BY <1>2 DEF Preflight, Goes
<1>4. Saving(s)'
  <2>1. work = "preflight" /\ UNCHANGED <<active, live, switch, kept, queue, results>>
        /\ UNCHANGED <<engine, current, unsure>>
    BY DEF Preflight, Working, Goes, memory, history, engineSide
  <2>2. CASE s.apply
    <3>1. work' = "apply"
      BY <1>3, <2>2
    <3> QED
      BY <1>1, <2>1, <2>2, <3>1 DEF Saving, IsKept, EngineHas
  <2>3. CASE ~s.apply
    <3>1. work' = "file" /\ s.next.env = live.env
      BY <1>1, <1>3, <2>3 DEF Saving
    <3> QED
      BY <1>1, <2>1, <2>3, <3>1 DEF Saving, IsKept, EngineHas
  <2> QED
    BY <2>2, <2>3
<1>5. SettingsTypeOK'
  <2>1. work' \in {"apply", "file"}
    BY <1>3
  <2> QED
    BY <2>1 DEF Preflight, Goes, SettingsInv, SettingsTypeOK, memory, disk, engineSide, history
<1>6. BagsAreKept'
  BY DEF Preflight, SettingsInv, BagsAreKept, disk, history
<1> QED
  BY <1>4, <1>5, <1>6 DEF SettingsInv, OneThingAtATime

LEMMA ApplyToEngineStep == ASSUME SettingsInv, ApplyToEngine PROVE SettingsInv'
<1>1. PICK s \in Save : Saving(s)
  BY TheSave DEF ApplyToEngine, Working
<1>2. Head(queue) = s
  BY <1>1, SingleFacts DEF Saving
<1>3. engine' = s.next.env /\ work' = "file"
  BY <1>2 DEF ApplyToEngine, Goes
<1>4. s.next.env \in Env
  BY SaveFields, SettingsFields
<1>5. s.apply
  BY <1>1 DEF ApplyToEngine, Working, Saving
<1>6. Saving(s)'
  <2>1. UNCHANGED <<active, live, switch, kept, queue, results>>
    BY DEF ApplyToEngine, Goes, memory, history
  <2> QED
    BY <1>1, <1>3, <1>5, <2>1 DEF Saving, IsKept, EngineHas
<1>7. SettingsTypeOK'
  BY <1>3, <1>4 DEF ApplyToEngine, Goes, SettingsInv, SettingsTypeOK, memory, disk, history
<1>8. BagsAreKept'
  BY DEF ApplyToEngine, SettingsInv, BagsAreKept, disk, history
<1> QED
  BY <1>6, <1>7, <1>8 DEF SettingsInv, OneThingAtATime

LEMMA ApplyFailsStep == ASSUME SettingsInv, ApplyFails PROVE SettingsInv'
<1>1. PICK s \in Save : Saving(s)
  BY TheSave DEF ApplyFails, Working
<1>2. Head(queue) = s
  BY <1>1, SingleFacts DEF Saving
<1>3. s.previous.env = live.env /\ work = "apply" /\ EngineHas(live.env)
  BY <1>1 DEF Saving, ApplyFails, Working, EngineHas
<1>4. s.next.env \in Env /\ s.previous.env \in Env
  BY SaveFields, SettingsFields
<1>5. /\ engine' \in Env /\ unsure' \in BOOLEAN
      /\ engine' = live.env \/ (engine' = engine /\ unsure' = unsure) \/ unsure' = TRUE
  <2>1. engine \in Env /\ unsure \in BOOLEAN
    BY DEF SettingsInv, SettingsTypeOK
  <2>2. CASE UNCHANGED <<engine, unsure>>
    BY <2>1, <2>2
  <2>3. CASE engine' = Head(queue).previous.env /\ UNCHANGED unsure
    BY <1>2, <1>3, <1>4, <2>1, <2>3
  <2>4. CASE engine' = Head(queue).next.env /\ unsure' = TRUE
    BY <1>2, <1>4, <2>4
  <2> QED
    BY <2>2, <2>3, <2>4 DEF ApplyFails
<1>6. UNCHANGED <<active, live, onDisk, file, bag, current, pending, switch, edits, kept, tried>>
  BY DEF ApplyFails, memory, disk, history
<1>7. EngineHas(live.env)'
  BY <1>3, <1>5, <1>6 DEF EngineHas
<1>8. OneThingAtATime' /\ work' = "preflight" /\ queue' \in Seq(Save) /\ results' \in Seq(Result)
  BY <1>1, <1>6, <1>7, SaveFails DEF ApplyFails
<1>9. SettingsTypeOK'
  BY <1>5, <1>6, <1>8 DEF SettingsInv, SettingsTypeOK, Result
<1>10. BagsAreKept'
  BY <1>6 DEF SettingsInv, BagsAreKept
<1> QED
  BY <1>8, <1>9, <1>10 DEF SettingsInv

LEMMA WriteFileStep == ASSUME SettingsInv, WriteFile PROVE SettingsInv'
<1>1. PICK s \in Save : Saving(s)
  BY TheSave DEF WriteFile, Working
<1>2. Head(queue) = s
  BY <1>1, SingleFacts DEF Saving
<1>3. file' \in Settings /\ work' = "bag"
  BY <1>2, SaveFields DEF WriteFile, Goes
<1>4. UNCHANGED <<active, live, onDisk, bag, engine, current, unsure, pending, switch, edits,
                  queue, results, kept, tried>>
  BY DEF WriteFile, Goes, memory, engineSide, history
<1>5. Saving(s)'
  BY <1>1, <1>3, <1>4 DEF WriteFile, Working, Saving, IsKept, EngineHas
<1>6. SettingsTypeOK'
  BY <1>3, <1>4 DEF SettingsInv, SettingsTypeOK
<1>7. BagsAreKept'
  BY <1>4 DEF SettingsInv, BagsAreKept
<1> QED
  BY <1>5, <1>6, <1>7 DEF SettingsInv, OneThingAtATime

LEMMA WriteBagStep == ASSUME SettingsInv, WriteBag PROVE SettingsInv'
<1>1. PICK s \in Save : Saving(s)
  BY TheSave DEF WriteBag, Working
<1>2. Head(queue) = s /\ s.profile = active
  BY <1>1, SingleFacts DEF Saving
<1>3. s.next.env \in Env /\ s.next.env # NoBag /\ s.next.env.owner = active /\ active \in Profile
  BY <1>1, SaveFields, SettingsFields DEF Saving, SettingsInv, SettingsTypeOK
<1>4. /\ bag' = [bag EXCEPT ![active] = s.next.env]
      /\ kept' = [kept EXCEPT ![active] = s.next.env]
  BY <1>2 DEF WriteBag
<1>5. UNCHANGED <<active, live, onDisk, file, engine, current, unsure, pending, switch, edits, tried>>
  BY DEF WriteBag, memory, engineSide
<1>6. PICK r \in Result : r = [save |-> s, ok |-> TRUE]
  BY ResultTyped
<1>7. queue' = <<>> /\ work' = "preflight" /\ results' = <<r>>
      /\ queue' \in Seq(Save) /\ results' \in Seq(Result)
  BY <1>1, <1>6, Finished DEF WriteBag
<1>8. bag' \in [Profile -> Env \cup {NoBag}] /\ kept' \in [Profile -> Env \cup {NoBag}]
      /\ kept'[active] = s.next.env
  BY <1>3, <1>4 DEF SettingsInv, SettingsTypeOK
<1>9. Answered(r)'
  <2>1. r.ok /\ r.save = s
    BY <1>6
  <2>2. EngineHas(s.next.env)'
    <3>1. EngineHas(s.next.env)
      BY <1>1 DEF Saving, EngineHas, WriteBag, Working
    <3> QED
      BY <1>5, <3>1 DEF EngineHas
  <2>3. switch' = Idle
    BY <1>1, <1>5 DEF Saving
  <2>4. r.save.next.env = kept'[active'] /\ r.save.next.env.owner = active'
    BY <1>3, <1>5, <1>8, <2>1
  <2>5. EngineHas(r.save.next.env)'
    BY <2>1, <2>2 DEF EngineHas
  <2> QED
    BY <1>7, <2>1, <2>3, <2>4, <2>5 DEF Answered
<1>10. SettingsTypeOK'
  BY <1>5, <1>7, <1>8 DEF SettingsInv, SettingsTypeOK, Result
<1>11. BagsAreKept'
  <2>1. ASSUME NEW p \in Profile
        PROVE  bag'[p] = kept'[p] /\ (bag'[p] # NoBag => bag'[p].owner = p)
    BY <1>3, <1>4 DEF SettingsInv, SettingsTypeOK, BagsAreKept
  <2>2. bag'[onDisk] # NoBag
    BY <1>3, <1>4 DEF SettingsInv, SettingsTypeOK, BagsAreKept
  <2> QED
    BY <1>5, <2>1, <2>2 DEF BagsAreKept
<1> QED
  BY <1>9, <1>10, <1>11 DEF SettingsInv, OneThingAtATime

LEMMA WriteFailsStep == ASSUME SettingsInv, WriteFails PROVE SettingsInv'
<1>1. PICK s \in Save : Saving(s)
  BY TheSave DEF WriteFails, Working
<1>2. Head(queue) = s
  BY <1>1, SingleFacts DEF Saving
<1>3. s.previous.env = live.env /\ s.previous.env \in Env /\ EngineHas(s.next.env)
      /\ (~s.apply => s.next.env = live.env)
  BY <1>1, SaveFields, SettingsFields DEF Saving, WriteFails, Working, EngineHas
<1>4. engine \in Env /\ unsure \in BOOLEAN
  BY DEF SettingsInv, SettingsTypeOK
<1>5. UNCHANGED <<active, live, onDisk, file, bag, current, pending, switch, edits, kept, tried>>
  BY DEF WriteFails, memory, disk, history
<1>6. engine' \in Env /\ unsure' \in BOOLEAN /\ EngineHas(live.env)'
  <2>1. CASE s.apply
    <3>1. \/ engine' = live.env /\ unsure' = unsure
          \/ unsure' = TRUE /\ engine' = engine
      BY <1>2, <1>3, <2>1 DEF WriteFails, RollBack
    <3> QED
      BY <1>3, <1>4, <1>5, <3>1 DEF EngineHas
  <2>2. CASE ~s.apply
    <3>1. engine' = engine /\ unsure' = unsure
      BY <1>2, <2>2 DEF WriteFails, RollBack
    <3> QED
      BY <1>3, <1>4, <1>5, <2>2, <3>1 DEF EngineHas
  <2> QED
    BY <2>1, <2>2
<1>7. OneThingAtATime' /\ work' = "preflight" /\ queue' \in Seq(Save) /\ results' \in Seq(Result)
  BY <1>1, <1>5, <1>6, SaveFails DEF WriteFails
<1>8. SettingsTypeOK'
  BY <1>5, <1>6, <1>7 DEF SettingsInv, SettingsTypeOK, Result
<1>9. BagsAreKept'
  BY <1>5 DEF SettingsInv, BagsAreKept
<1> QED
  BY <1>7, <1>8, <1>9 DEF SettingsInv

LEMMA TakeResultStep == ASSUME SettingsInv, TakeResult PROVE SettingsInv'
<1>1. PICK r \in Result : Answered(r)
  BY TheResult DEF TakeResult
<1>2. Head(results) = r /\ results' = <<>>
  BY <1>1, SingleFacts DEF Answered, TakeResult
<1>3. UNCHANGED <<active, onDisk, file, bag, engine, current, unsure, queue, work, switch, edits,
                  kept, tried>>
  BY DEF TakeResult, disk, engineSide, history
<1>4. live' = IF r.ok THEN r.save.next ELSE live
  BY <1>2 DEF TakeResult
<1>5. live' \in Settings
  BY <1>4, ResultFields, SaveFields DEF SettingsInv, SettingsTypeOK
<1>6. pending' \in BOOLEAN
  BY Zenon DEF TakeResult
<1>7. Resting'
  <2>1. CASE r.ok
    <3>1. live'.env = kept[active] /\ live'.env.owner = active /\ EngineHas(live'.env)
      BY <1>1, <1>4, <2>1 DEF Answered, EngineHas
    <3>2. IsKept(active)' /\ EngineHas(live.env)'
      BY <1>3, <3>1 DEF IsKept, EngineHas
    <3> QED
      BY <1>1, <1>2, <1>3, <3>2 DEF Answered, Resting
  <2>2. CASE ~r.ok
    <3>1. IsKept(active)' /\ EngineHas(live.env)'
      BY <1>1, <1>3, <1>4, <2>2 DEF Answered, IsKept, EngineHas
    <3> QED
      BY <1>1, <1>2, <1>3, <3>1 DEF Answered, Resting
  <2> QED
    BY <2>1, <2>2
<1>8. SettingsTypeOK'
  BY <1>2, <1>3, <1>5, <1>6 DEF SettingsInv, SettingsTypeOK
<1>9. BagsAreKept'
  BY <1>3 DEF SettingsInv, BagsAreKept
<1> QED
  BY <1>7, <1>8, <1>9 DEF SettingsInv, OneThingAtATime

-----------------------------------------------------------------------------
LEMMA SwitchProfileStep ==
  ASSUME SettingsInv, ~Overlap, NEW q \in Profile, SwitchProfile(q) PROVE SettingsInv'
<1>1. Resting
  BY AtRest DEF SwitchProfile, MayAct, UiIsFree
<1>2. active \in Profile /\ live.env \in Env
  BY SettingsFields DEF SettingsInv, SettingsTypeOK
<1>3. /\ switch' \in Switch /\ switch'.at = "leave" /\ switch'.to = q /\ switch'.prev = active
  BY <1>2 DEF SwitchProfile, Switch, Stage
<1>4. UNCHANGED <<active, live, onDisk, file, bag, engine, current, unsure, pending, queue, work,
                  results, edits, kept, tried>>
  BY DEF SwitchProfile, Others, memory, disk, engineSide, workerSide
<1>5. Switching'
  BY <1>1, <1>3, <1>4 DEF SwitchProfile, Resting, Switching, IsKept, EngineHas
<1>6. SettingsTypeOK'
  BY <1>3, <1>4 DEF SettingsInv, SettingsTypeOK, Switch
<1>7. BagsAreKept'
  BY <1>4 DEF SettingsInv, BagsAreKept
<1> QED
  BY <1>5, <1>6, <1>7 DEF SettingsInv, OneThingAtATime

LEMMA SwitchOnwards ==
  ASSUME NEW w \in Switch, NEW stage \in Stage
  PROVE  LET v == [w EXCEPT !.at = stage] IN
         v \in Switch /\ v.at = stage /\ v.to = w.to /\ v.prev = w.prev /\ v.env = w.env
BY DEF Switch

LEMMA LeaveBagStep == ASSUME SettingsInv, LeaveBag PROVE SettingsInv'
<1>1. Switching /\ switch.at = "leave"
  BY TheSwitch DEF LeaveBag, At
<1>2. /\ switch \in Switch /\ switch.prev \in Profile /\ switch.to \in Profile
      /\ live.env \in Env /\ live.env # NoBag
  BY <1>1, SettingsFields DEF Switching, Switch, SettingsInv, SettingsTypeOK
<1>3. bag' = bag
  BY <1>1, <1>2 DEF LeaveBag, SettingsInv, SettingsTypeOK, BagsAreKept, Switching, IsKept
<1>4. /\ switch' \in Switch /\ switch'.at = "load"
      /\ switch'.to = switch.to /\ switch'.prev = switch.prev
  BY <1>2, SwitchOnwards DEF LeaveBag, Onwards, Stage
<1>5. active' = switch.to
  BY DEF LeaveBag
<1>6. UNCHANGED <<live, onDisk, file, kept, engine, current, unsure, pending, queue, work, results,
                  edits, tried>>
  BY DEF LeaveBag, Others, engineSide, workerSide
<1>7. Switching'
  BY <1>1, <1>4, <1>5, <1>6 DEF Switching, IsKept, EngineHas
<1>8. SettingsTypeOK'
  BY <1>2, <1>3, <1>4, <1>5, <1>6 DEF SettingsInv, SettingsTypeOK, Switch
<1>9. BagsAreKept'
  BY <1>3, <1>6 DEF SettingsInv, BagsAreKept
<1> QED
  BY <1>7, <1>8, <1>9 DEF SettingsInv, OneThingAtATime

LEMMA LoadBagStep == ASSUME SettingsInv, LoadBag PROVE SettingsInv'
<1>1. Switching /\ switch.at = "load"
  BY TheSwitch DEF LoadBag, At
<1>2. /\ switch \in Switch /\ switch.prev \in Profile /\ switch.to \in Profile
      /\ live.env \in Env /\ switch.to # switch.prev
  BY <1>1, SettingsFields DEF Switching, Switch, SettingsInv, SettingsTypeOK
<1> DEFINE adopted == Adopt(live.env, switch.to)
<1>3. adopted \in Env /\ adopted # NoBag /\ adopted.owner = switch.to
  BY <1>2, NoBagIsNone DEF Adopt, Env
<1>4. /\ bag \in [Profile -> Env \cup {NoBag}] /\ kept \in [Profile -> Env \cup {NoBag}]
      /\ bag[onDisk] # NoBag /\ onDisk \in Profile
      /\ \A p \in Profile : bag[p] = kept[p] /\ (bag[p] # NoBag => bag[p].owner = p)
  BY DEF SettingsInv, SettingsTypeOK, BagsAreKept
<1> HIDE DEF adopted
<1>5. /\ bag' \in [Profile -> Env \cup {NoBag}] /\ kept' \in [Profile -> Env \cup {NoBag}]
      /\ bag'[switch.to] # NoBag /\ bag'[onDisk] # NoBag /\ kept'[switch.prev] = kept[switch.prev]
      /\ \A p \in Profile : bag'[p] = kept'[p] /\ (bag'[p] # NoBag => bag'[p].owner = p)
  <2>1. CASE bag[switch.to] = NoBag
    <3>1. bag' = [bag EXCEPT ![switch.to] = adopted]
      BY <2>1 DEF LoadBag, adopted
    <3>2. kept' = [kept EXCEPT ![switch.to] = adopted]
      BY <1>2, <1>4, <2>1, <3>1 DEF LoadBag
    <3> QED
      BY <1>2, <1>3, <1>4, <3>1, <3>2
  <2>2. CASE bag[switch.to] # NoBag
    <3>1. bag' = bag /\ kept' = kept
      BY <2>2 DEF LoadBag
    <3> QED
      BY <1>2, <1>4, <2>2, <3>1
  <2> QED
    BY <2>1, <2>2
<1>6. bag'[switch.to] \in Env
  BY <1>2, <1>5
<1>7. /\ switch' \in Switch /\ switch'.at = "catalog" /\ switch'.env = bag'[switch.to]
      /\ switch'.to = switch.to /\ switch'.prev = switch.prev
  BY <1>2, <1>6 DEF LoadBag, Switch, Stage
<1>8. UNCHANGED <<active, live, onDisk, file, engine, current, unsure, pending, queue, work, results,
                  edits, tried>>
  BY DEF LoadBag, Others, memory, engineSide, workerSide
<1>9. Switching'
  BY <1>1, <1>5, <1>7, <1>8 DEF Switching, IsKept, EngineHas
<1>10. SettingsTypeOK'
  BY <1>5, <1>7, <1>8 DEF SettingsInv, SettingsTypeOK, Switch
<1>11. BagsAreKept'
  BY <1>5, <1>8 DEF BagsAreKept
<1> QED
  BY <1>9, <1>10, <1>11 DEF SettingsInv, OneThingAtATime

LEMMA SaveCatalogStep == ASSUME SettingsInv, SaveCatalog PROVE SettingsInv'
<1>1. Switching /\ switch.at = "catalog"
  BY TheSwitch DEF SaveCatalog, At
<1>2. /\ switch' \in Switch /\ switch'.at = "mirror" /\ switch'.env = switch.env
      /\ switch'.to = switch.to /\ switch'.prev = switch.prev
  BY <1>1, SwitchOnwards DEF Switching, SaveCatalog, Onwards, Stage
<1>3. onDisk' = active /\ active = switch.to
  BY <1>1 DEF SaveCatalog, Switching
<1>4. UNCHANGED <<active, live, file, bag, kept, engine, current, unsure, pending, queue, work,
                  results, edits, tried>>
  BY DEF SaveCatalog, Others, memory, engineSide, workerSide
<1>5. Switching'
  BY <1>1, <1>2, <1>4 DEF Switching, IsKept, EngineHas
<1>6. SettingsTypeOK'
  BY <1>2, <1>3, <1>4 DEF SettingsInv, SettingsTypeOK, Switch
<1>7. BagsAreKept'
  BY <1>1, <1>3, <1>4 DEF SettingsInv, BagsAreKept, Switching
<1> QED
  BY <1>5, <1>6, <1>7 DEF SettingsInv, OneThingAtATime

LEMMA MirrorIntoFileStep == ASSUME SettingsInv, MirrorIntoFile PROVE SettingsInv'
<1>1. Switching /\ switch.at = "mirror"
  BY TheSwitch DEF MirrorIntoFile, At
<1>2. /\ switch' \in Switch /\ switch'.at = "bag" /\ switch'.env = switch.env
      /\ switch'.to = switch.to /\ switch'.prev = switch.prev
  BY <1>1, SwitchOnwards DEF Switching, MirrorIntoFile, Onwards, Stage
<1>3. file' \in Settings
  <2>1. switch.env \in Env
    BY <1>1 DEF Switching, Switch
  <2> QED
    BY <2>1, SettingsWithEnv DEF MirrorIntoFile, SettingsInv, SettingsTypeOK
<1>4. UNCHANGED <<active, live, onDisk, bag, kept, engine, current, unsure, pending, queue, work,
                  results, edits, tried>>
  BY DEF MirrorIntoFile, Others, memory, engineSide, workerSide
<1>5. Switching'
  BY <1>1, <1>2, <1>4 DEF Switching, IsKept, EngineHas
<1>6. SettingsTypeOK'
  BY <1>2, <1>3, <1>4 DEF SettingsInv, SettingsTypeOK, Switch
<1>7. BagsAreKept'
  BY <1>4 DEF SettingsInv, BagsAreKept
<1> QED
  BY <1>5, <1>6, <1>7 DEF SettingsInv, OneThingAtATime

LEMMA SaveLoadedBagStep == ASSUME SettingsInv, SaveLoadedBag PROVE SettingsInv'
<1>1. Switching /\ switch.at = "bag"
  BY TheSwitch DEF SaveLoadedBag, At
<1>2. /\ switch.to \in Profile /\ active = switch.to /\ switch.env \in Env
      /\ bag[switch.to] # NoBag /\ switch.env = bag[switch.to]
  BY <1>1 DEF Switching, Switch
<1>3. bag' = bag
  BY <1>2 DEF SaveLoadedBag, SettingsInv, SettingsTypeOK
<1>4. live' \in Settings /\ live'.env = switch.env
  BY <1>2, SettingsWithEnv DEF SaveLoadedBag, SettingsInv, SettingsTypeOK
<1>5. switch' = Idle /\ current' = FALSE
  BY DEF SaveLoadedBag
<1>6. UNCHANGED <<active, onDisk, file, kept, engine, unsure, pending, queue, work, results, edits,
                  tried>>
  BY DEF SaveLoadedBag, workerSide, history
<1>7. IsKept(active)'
  BY <1>2, <1>4, <1>6 DEF IsKept, SettingsInv, BagsAreKept
<1>8. Resting'
  BY <1>1, <1>5, <1>6, <1>7 DEF Resting, Switching, EngineHas
<1>9. SettingsTypeOK'
  BY <1>3, <1>4, <1>5, <1>6 DEF SettingsInv, SettingsTypeOK
<1>10. BagsAreKept'
  BY <1>3, <1>6 DEF SettingsInv, BagsAreKept
<1> QED
  BY <1>8, <1>9, <1>10 DEF SettingsInv, OneThingAtATime

LEMMA SwitchFailsStep == ASSUME SettingsInv, SwitchFails PROVE SettingsInv'
<1>1. Switching
  BY TheSwitch DEF SwitchFails
<1>2. switch.prev \in Profile /\ live.env # NoBag
  BY <1>1, SettingsFields DEF Switching, Switch, SettingsInv, SettingsTypeOK
<1>3. active' = switch.prev /\ onDisk' \in {switch.prev, onDisk} /\ switch' = Idle
  BY DEF SwitchFails, BackToPrevious
<1>4. UNCHANGED <<live, file, bag, kept, engine, current, unsure, pending, queue, work, results,
                  edits, tried>>
  BY DEF SwitchFails, Others, engineSide, workerSide
<1>5. Resting'
  BY <1>1, <1>3, <1>4 DEF Resting, Switching, IsKept, EngineHas
<1>6. SettingsTypeOK'
  BY <1>2, <1>3, <1>4 DEF SettingsInv, SettingsTypeOK
<1>7. BagsAreKept'
  BY <1>1, <1>2, <1>3, <1>4 DEF SettingsInv, BagsAreKept, Switching, IsKept
<1> QED
  BY <1>5, <1>6, <1>7 DEF SettingsInv, OneThingAtATime

\* The bag of the active profile wins over settings.json, whatever that holds.
LEMMA RestartStep == ASSUME SettingsInv, Restart PROVE SettingsInv'
<1>1. /\ bag[onDisk] # NoBag /\ Restarted = bag[onDisk] /\ onDisk \in Profile
      /\ bag[onDisk] \in Env /\ bag[onDisk].owner = onDisk /\ bag[onDisk] = kept[onDisk]
  BY DEF SettingsInv, SettingsTypeOK, BagsAreKept, Restarted
<1>2. bag' = bag /\ kept' = kept
  BY <1>1 DEF Restart, SettingsInv, SettingsTypeOK
<1>3. live' \in Settings /\ live'.env = bag[onDisk]
  BY <1>1, SettingsWithEnv DEF Restart, SettingsInv, SettingsTypeOK
<1>4. /\ active' = onDisk /\ engine' = bag[onDisk]
      /\ current' \in BOOLEAN /\ unsure' \in BOOLEAN /\ pending' \in BOOLEAN
      /\ queue' = <<>> /\ work' = "preflight" /\ results' = <<>> /\ switch' = Idle
      /\ UNCHANGED <<onDisk, file, edits, tried>>
  BY <1>1 DEF Restart
<1>5. Resting'
  BY <1>1, <1>2, <1>3, <1>4 DEF Resting, IsKept, EngineHas
<1>6. SettingsTypeOK'
  BY <1>1, <1>2, <1>3, <1>4 DEF SettingsInv, SettingsTypeOK
<1>7. BagsAreKept'
  BY <1>2, <1>4 DEF SettingsInv, BagsAreKept
<1> QED
  BY <1>5, <1>6, <1>7 DEF SettingsInv, OneThingAtATime

LEMMA SettingsStutter == ASSUME SettingsInv, UNCHANGED settingsVars PROVE SettingsInv'
<1>1. UNCHANGED <<active, onDisk, live, file, bag, engine, current, unsure, pending,
                  queue, work, results, switch, edits, kept, tried>>
  BY DEF settingsVars
<1>2. SettingsTypeOK' /\ BagsAreKept'
  BY <1>1 DEF SettingsInv, SettingsTypeOK, BagsAreKept
<1>3. OneThingAtATime'
  <2>1. CASE Resting
    BY <1>1, <2>1 DEF Resting, IsKept, EngineHas, OneThingAtATime
  <2>2. ASSUME NEW s \in Save, Saving(s) PROVE Saving(s)'
    BY <1>1, <2>2 DEF Saving, IsKept, EngineHas
  <2>3. ASSUME NEW r \in Result, Answered(r) PROVE Answered(r)'
    BY <1>1, <2>3 DEF Answered, IsKept, EngineHas
  <2>4. CASE Switching
    BY <1>1, <2>4 DEF Switching, IsKept, EngineHas, OneThingAtATime
  <2> QED
    BY <2>1, <2>2, <2>3, <2>4 DEF OneThingAtATime, SettingsInv
<1> QED
  BY <1>2, <1>3 DEF SettingsInv

LEMMA SettingsStepInv ==
  ASSUME SettingsInv, ~Overlap, [SettingsNext]_settingsVars PROVE SettingsInv'
BY SettingsStutter, SaveSettingsStep, SavePreferencesStep, PreflightRefusesStep, PreflightStep,
   ApplyToEngineStep, ApplyFailsStep, WriteFileStep, WriteBagStep, WriteFailsStep, TakeResultStep,
   SwitchProfileStep, LeaveBagStep, LoadBagStep, SaveCatalogStep, MirrorIntoFileStep,
   SaveLoadedBagStep, SwitchFailsStep, RestartStep
DEF SettingsNext

\* With one save at a time the settings are consistent at every step.
THEOREM SettingsInvariant == ASSUME ~Overlap PROVE SettingsSpec => []SettingsInv
<1>1. SettingsInit => SettingsInv
  BY SettingsInitInv
<1>2. SettingsInv /\ [SettingsNext]_settingsVars => SettingsInv'
  BY SettingsStepInv
<1> QED
  BY <1>1, <1>2, PTL DEF SettingsSpec

\* The settings of a user who waits have their types.
THEOREM SettingsTypeCorrect == ASSUME ~Overlap PROVE SettingsSpec => []SettingsTypeOK
<1>1. SettingsInv => SettingsTypeOK
  BY DEF SettingsInv
<1> QED
  BY <1>1, SettingsInvariant, PTL

\* Whatever write fails and wherever the desktop is killed, a restart loads the
\* environment last reported as saved, and no profile gets that of another.
THEOREM RestartsAreCoherent == ASSUME ~Overlap PROVE SettingsSpec => []RestartIsCoherent
<1>1. SettingsInv => RestartIsCoherent
  BY SettingsInvSuffices
<1> QED
  BY <1>1, SettingsInvariant, PTL

\* Between two saves aria2 runs with what a restart would load.
THEOREM EngineRunsWithSettings == ASSUME ~Overlap PROVE SettingsSpec => []EngineFollowsSettings
<1>1. SettingsInv => EngineFollowsSettings
  BY SettingsInvSuffices
<1> QED
  BY <1>1, SettingsInvariant, PTL

-----------------------------------------------------------------------------
(***************************************************************************)
(* The commands of the shell.                                               *)
(***************************************************************************)
\* What is under way in this session is awaited.
OwnIsAwaited ==
  \A c \in sent : c.session <= session /\ (c.session = session => awaited[c.scope] = {c})

\* Behind the dialog no answer moves the selection.
DialogIsAlone == removing # {} => awaited["task"] = {} /\ awaited["batch"] = {}

\* A dialog about one task: that task stays marked if anything is, unless
\* another followed it, and then the focus does not come back; and the focus
\* leaves the rows only when no marked task is left there.
DialogNames(t) ==
  /\ marked = {} \/ t \in marked \/ (Follows[t] # NoTask /\ focused # t)
  /\ focused = t /\ t \notin rows => InView = {}
DialogIsAboutOne == \A t \in Task : removing = {t} => DialogNames(t)

ShellInv ==
  ShellTypeOK /\ OwnIsAwaited /\ OneCommandPerSession /\ DialogIsAlone /\ DialogIsAboutOne

LEMMA ShellInitInv == ShellInit => ShellInv
<1> SUFFICES ASSUME ShellInit PROVE ShellInv
  OBVIOUS
<1>1. awaited \in [Scope -> SUBSET Command]
  BY DEF ShellInit
<1>2. ShellTypeOK
  <2>1. ready = FALSE /\ ready \in BOOLEAN /\ failures \in BOOLEAN /\ profile \in Profiles
    BY DEF ShellInit
  <2>2. session \in 0 .. MaxSessions /\ issued \in 0 .. MaxCommands
    BY ShellAssumption DEF ShellInit
  <2>3. /\ rows \subseteq Task /\ marked \subseteq Task /\ removing \subseteq Task
        /\ sent \subseteq Command /\ focused \in Task \cup {NoTask}
    BY DEF ShellInit
  <2> QED
    BY <1>1, <2>1, <2>2, <2>3 DEF ShellTypeOK
<1>3. OwnIsAwaited /\ OneCommandPerSession
  BY DEF ShellInit, OwnIsAwaited, OneCommandPerSession
<1>4. DialogIsAlone /\ DialogIsAboutOne
  BY DEF ShellInit, DialogIsAlone, DialogIsAboutOne
<1> QED
  BY <1>2, <1>3, <1>4 DEF ShellInv

\* How many tasks a set of them holds.
LEMMA FewTasks ==
  ASSUME NEW S \in SUBSET Task
  PROVE  /\ Cardinality(S) \in Nat
         /\ Cardinality(S) = 0 <=> S = {}
         /\ Cardinality(S) = 1 <=> \E t \in Task : S = {t}
<1>1. IsFiniteSet(S)
  BY ShellAssumption, FS_Subset
<1>2. Cardinality(S) = 1 => \E t \in Task : S = {t}
  BY <1>1, FS_Singleton
<1>3. \A t \in Task : Cardinality({t}) = 1
  BY FS_Singleton
<1> QED
  BY <1>1, <1>2, <1>3, FS_CardinalityType, FS_EmptySet

LEMMA TargetIsOfTasks ==
  ASSUME ShellTypeOK
  PROVE  InView \subseteq Task /\ Target \subseteq Task /\ Asked \subseteq Task
BY DEF ShellTypeOK, InView, Target, Asked

-----------------------------------------------------------------------------
\* A step that leaves the session and what is under way.
LEMMA SameCommands ==
  ASSUME ShellInv, UNCHANGED <<session, sent, awaited>>
  PROVE  OwnIsAwaited' /\ OneCommandPerSession'
BY DEF ShellInv, OwnIsAwaited, OneCommandPerSession

LEMMA LightSnapshotStep == ASSUME ShellInv, NEW ok \in BOOLEAN, LightSnapshot(ok) PROVE ShellInv'
<1> USE DEF LightSnapshot, selection, commands
<1>1. ShellTypeOK'
  BY DEF ShellInv, ShellTypeOK
<1>2. OwnIsAwaited' /\ OneCommandPerSession'
  BY SameCommands
<1>3. DialogIsAlone' /\ DialogIsAboutOne'
  BY DEF ShellInv, DialogIsAlone, DialogIsAboutOne, DialogNames, InView
<1> QED
  BY <1>1, <1>2, <1>3 DEF ShellInv

LEMMA MarksStep ==
  ASSUME ShellInv, NEW m \in SUBSET Task, NEW f \in Task \cup {NoTask}, Marks(m, f)
  PROVE  ShellInv'
<1> USE DEF Marks, ListInReach, snapshot, commands
<1>1. ShellTypeOK'
  BY DEF ShellInv, ShellTypeOK
<1>2. OwnIsAwaited' /\ OneCommandPerSession'
  BY SameCommands
<1>3. DialogIsAlone' /\ DialogIsAboutOne'
  BY DEF DialogIsAlone, DialogIsAboutOne
<1> QED
  BY <1>1, <1>2, <1>3 DEF ShellInv

LEMMA SelectionSteps ==
  ASSUME ShellInv,
         \/ \E t \in Task : \/ Click(t) \/ Toggle(t) \/ OpenContextMenu(t)
                            \/ \E r \in SUBSET Task : MarkRange(t, r)
         \/ SelectAll \/ ToggleAll \/ ClearMarks
  PROVE  ShellInv'
<1>1. rows \subseteq Task /\ marked \subseteq Task /\ focused \in Task \cup {NoTask}
  BY DEF ShellInv, ShellTypeOK
<1>2. ASSUME NEW t \in Task, Click(t) PROVE ShellInv'
  BY <1>1, <1>2, MarksStep DEF Click
<1>3. ASSUME NEW t \in Task, Toggle(t) PROVE ShellInv'
  <2>1. CASE t \in marked
    BY <1>1, <1>3, <2>1, MarksStep DEF Toggle
  <2>2. CASE t \notin marked
    BY <1>1, <1>3, <2>2, MarksStep DEF Toggle
  <2> QED
    BY <2>1, <2>2
<1>4. ASSUME NEW t \in Task, OpenContextMenu(t) PROVE ShellInv'
  <2>1. CASE t \in marked
    BY <1>1, <1>4, <2>1, MarksStep DEF OpenContextMenu
  <2>2. CASE t \notin marked
    BY <1>1, <1>4, <2>2, MarksStep DEF OpenContextMenu
  <2> QED
    BY <2>1, <2>2
<1>5. ASSUME NEW t \in Task, NEW r \in SUBSET Task, MarkRange(t, r) PROVE ShellInv'
  BY <1>5, MarksStep DEF MarkRange
<1>6. CASE SelectAll
  <2>1. PICK f \in rows : Marks(marked \cup rows, f)
    BY <1>6 DEF SelectAll
  <2> QED
    BY <1>1, <2>1, MarksStep
<1>7. CASE ToggleAll
  <2>1. PICK f \in rows \cup {focused} :
          Marks(IF rows \subseteq marked THEN marked \ rows ELSE marked \cup rows, f)
    BY <1>7 DEF ToggleAll
  <2>2. CASE rows \subseteq marked
    BY <1>1, <2>1, <2>2, MarksStep
  <2>3. CASE ~(rows \subseteq marked)
    BY <1>1, <2>1, <2>3, MarksStep
  <2> QED
    BY <2>2, <2>3
<1>8. CASE ClearMarks
  BY <1>1, <1>8, MarksStep DEF ClearMarks
<1> QED
  BY <1>2, <1>3, <1>4, <1>5, <1>6, <1>7, <1>8

-----------------------------------------------------------------------------
\* What a snapshot makes of the selection.
LEMMA SelectionInSnapshot ==
  ASSUME ShellTypeOK, NEW p \in Profiles, NEW new \in SUBSET Task
  PROVE  MarkedIn(p, new) \subseteq Task /\ FocusedIn(p, new) \in Task \cup {NoTask}
<1>1. \A t \in Task \cup {NoTask} : Successor(t, new) \in Task \cup {NoTask}
  BY DEF Successor
<1>2. \A t \in Task : Successor(t, new) \in Task
  BY DEF Successor
<1> QED
  BY <1>1, <1>2 DEF ShellTypeOK, MarkedIn, FocusedIn

LEMMA SetSnapshotStep ==
  ASSUME ShellInv, NEW p \in Profiles, NEW new \in SUBSET Task, NEW s \in 0 .. MaxSessions,
         NEW ok \in BOOLEAN, SetSnapshot(p, new, s, ok)
  PROVE  ShellInv'
<1> DEFINE shown == MarkedIn(p, new) \cap new
           f     == FocusedIn(p, new)
<1>1. /\ rows' = new /\ profile' = p /\ session' = s /\ ready' = ok
      /\ marked' = MarkedIn(p, new)
      /\ focused' \in IF f \notin new /\ shown # {} THEN shown ELSE {f}
      /\ awaited' = GivesUpOlder(s)
      /\ failures' = (failures /\ ~Forgets(p))
      /\ UNCHANGED <<removing, sent, issued>>
      /\ s \in session .. MaxSessions
  BY DEF SetSnapshot
<1>2. ShellTypeOK
  BY DEF ShellInv
<1>3. MarkedIn(p, new) \subseteq Task /\ f \in Task \cup {NoTask}
  BY <1>2, SelectionInSnapshot
<1>4. focused' \in Task \cup {NoTask}
  BY <1>1, <1>3
<1>5. awaited' \in [Scope -> SUBSET Command]
  BY <1>1, <1>2 DEF ShellTypeOK, GivesUpOlder
<1>6. failures' \in BOOLEAN
  BY <1>1
<1>7. ShellTypeOK'
  <2>1. ready' \in BOOLEAN /\ (ready' => session' # 0)
    BY <1>1 DEF SetSnapshot
  <2> QED
    BY <1>1, <1>2, <1>3, <1>4, <1>5, <1>6, <2>1 DEF ShellTypeOK
<1>8. OwnIsAwaited' /\ OneCommandPerSession'
  <2>1. ASSUME NEW c \in sent
        PROVE  c.session <= s /\ (c.session = s => awaited'[c.scope] = {c})
    <3>1. /\ c.session <= session /\ (c.session = session => awaited[c.scope] = {c})
          /\ c.scope \in Scope /\ c.session \in Nat /\ session \in Nat /\ s \in Nat
          /\ session <= s
      BY <1>1, <1>2, ShellAssumption DEF ShellInv, OwnIsAwaited, ShellTypeOK, Command
    <3>2. c.session = s => s = session
      BY <3>1
    <3> QED
      BY <1>1, <3>1, <3>2 DEF GivesUpOlder
  <2> QED
    BY <1>1, <2>1 DEF ShellInv, OwnIsAwaited, OneCommandPerSession
<1>9. DialogIsAlone'
  BY <1>1 DEF ShellInv, DialogIsAlone, GivesUpOlder, Scope
<1>10. ASSUME NEW t \in Task, removing = {t} PROVE DialogNames(t)'
  <2>1. DialogNames(t)
    BY <1>10 DEF ShellInv, DialogIsAboutOne
  <2>2. ASSUME focused' = t, t \notin new PROVE marked' \cap new = {}
    BY <1>1, <2>2
  <2>3. marked' = {} \/ t \in marked' \/ (Follows[t] # NoTask /\ focused' # t)
    <3>1. CASE Forgets(p)
      BY <1>1, <3>1 DEF MarkedIn
    <3>2. CASE ~Forgets(p) /\ marked = {}
      BY <1>1, <3>2 DEF MarkedIn
    <3>3. CASE ~Forgets(p) /\ t \in marked /\ Follows[t] \notin new
      <4>1. Successor(t, new) = t
        BY <3>3 DEF Successor
      <4> QED
        BY <1>1, <3>3, <4>1 DEF MarkedIn
    <3>4. CASE ~Forgets(p) /\ Follows[t] # NoTask /\ (focused # t \/ Follows[t] \in new)
      <4>1. ASSUME t \notin marked' PROVE focused' # t
        <5>1. focused' = Successor(focused, new) \/ focused' \in marked'
          BY <1>1, <3>4 DEF FocusedIn
        <5>2. Successor(focused, new) # t
          BY <1>2, <3>4, ShellAssumption DEF Successor, ShellTypeOK
        <5> QED
          BY <4>1, <5>1, <5>2
      <4> QED
        BY <3>4, <4>1
    <3>5. Follows[t] \in new => Follows[t] # NoTask
      BY ShellAssumption
    <3> QED
      BY <2>1, <3>1, <3>2, <3>3, <3>4, <3>5 DEF DialogNames
  <2> QED
    BY <1>1, <2>2, <2>3 DEF DialogNames, InView
<1>11. DialogIsAboutOne'
  BY <1>1, <1>10 DEF DialogIsAboutOne
<1> QED
  BY <1>7, <1>8, <1>9, <1>11 DEF ShellInv

-----------------------------------------------------------------------------
\* A command joins those under way only when there is none in this session.
LEMMA IssueStep ==
  ASSUME ShellInv, NEW scope \in Scope, NEW kind \in CommandKind, CanBegin(scope),
         Issue(scope, kind)
  PROVE  /\ (removing' = {} => ShellInv')
         /\ \A c \in sent' \ sent : /\ c.scope = scope /\ c.kind = kind
                                    /\ c.tasks = Names(scope)
<1> DEFINE new == [id |-> issued + 1, session |-> session, scope |-> scope,
                   tasks |-> Names(scope), kind |-> kind]
<1>1. /\ issued < MaxCommands /\ issued' = issued + 1
      /\ awaited' = [awaited EXCEPT ![scope] = {new}]
      /\ sent' = sent \cup {new}
      /\ UNCHANGED <<rows, profile, session, ready, marked, focused, failures>>
  BY DEF Issue, snapshot, selection
<1>2. ShellTypeOK /\ session # 0
  BY DEF ShellInv, ShellTypeOK, CanBegin, MayBegin
<1>3. Names(scope) \subseteq Task
  BY <1>2, TargetIsOfTasks DEF Names, Scope
<1>4. new \in Command
  BY <1>1, <1>2, <1>3, ShellAssumption DEF ShellTypeOK, Command
<1>5. \A x \in Scope : awaited[x] = {}
  BY DEF CanBegin, MayBegin
<1>6. ASSUME removing' = {} PROVE ShellInv'
  <2>1. ShellTypeOK'
    BY <1>1, <1>2, <1>4, <1>6, ShellAssumption DEF ShellTypeOK
  <2>2. \A c \in sent : c.session # session
    BY <1>2, <1>5 DEF ShellInv, OwnIsAwaited, ShellTypeOK, Command
  <2>3. OwnIsAwaited'
    BY <1>1, <1>2, <2>2 DEF ShellInv, OwnIsAwaited, ShellTypeOK
  <2>4. OneCommandPerSession'
    BY <1>1, <2>2 DEF ShellInv, OneCommandPerSession
  <2>5. DialogIsAlone' /\ DialogIsAboutOne'
    BY <1>6 DEF DialogIsAlone, DialogIsAboutOne
  <2> QED
    BY <2>1, <2>3, <2>4, <2>5 DEF ShellInv
<1> QED
  BY <1>1, <1>6

LEMMA BeginStep ==
  ASSUME ShellInv, NEW scope \in Scope, NEW kind \in CommandKind, Begin(scope, kind)
  PROVE  ShellInv'
BY IssueStep DEF Begin, ListInReach

LEMMA ConfirmRemoveStep == ASSUME ShellInv, ConfirmRemove PROVE ShellInv'
<1>1. /\ removing' = Asked /\ Asked # {}
      /\ awaited["task"] = {} /\ awaited["batch"] = {}
      /\ UNCHANGED <<rows, profile, session, ready, marked, focused, awaited, failures, sent,
                     issued>>
  BY DEF ConfirmRemove, snapshot, selection, commands
<1>2. ShellTypeOK
  BY DEF ShellInv
<1>3. ShellTypeOK'
  BY <1>1, <1>2, TargetIsOfTasks DEF ShellTypeOK
<1>4. OwnIsAwaited' /\ OneCommandPerSession'
  BY <1>1, SameCommands
<1>5. DialogIsAlone'
  BY <1>1 DEF DialogIsAlone
<1>6. ASSUME NEW t \in Task, Asked = {t} PROVE DialogNames(t)
  <2>1. /\ Cardinality(InView) \in Nat /\ Cardinality({t}) = 1
        /\ Cardinality(InView) = 0 <=> InView = {}
    BY <1>2, FewTasks, TargetIsOfTasks
  <2>2. Target = {t} /\ ~(Cardinality(InView) > 1)
    BY <1>6, <2>1 DEF Asked
  <2>3. CASE Cardinality(InView) = 1
    BY <2>2, <2>3 DEF Target, InView, DialogNames
  <2>4. CASE Cardinality(InView) # 1
    <3>1. InView = {}
      BY <2>1, <2>2, <2>4
    <3>2. marked = {}
      BY <2>2, <2>4, <3>1 DEF Target
    <3> QED
      BY <3>1, <3>2 DEF DialogNames
  <2> QED
    BY <2>3, <2>4
<1>7. DialogIsAboutOne'
  BY <1>1, <1>6 DEF DialogIsAboutOne, DialogNames, InView
<1> QED
  BY <1>3, <1>4, <1>5, <1>7 DEF ShellInv

LEMMA CloseConfirmationStep ==
  ASSUME ShellInv, removing' = {}, UNCHANGED <<snapshot, selection, commands>>
  PROVE  ShellInv'
<1> USE DEF snapshot, selection, commands
<1>1. ShellTypeOK'
  BY DEF ShellInv, ShellTypeOK
<1>2. OwnIsAwaited' /\ OneCommandPerSession'
  BY SameCommands
<1>3. DialogIsAlone' /\ DialogIsAboutOne'
  BY DEF DialogIsAlone, DialogIsAboutOne
<1> QED
  BY <1>1, <1>2, <1>3 DEF ShellInv

LEMMA SubmitConfirmationStep == ASSUME ShellInv, SubmitConfirmation PROVE ShellInv'
<1>1. RemovalScope \in Scope /\ "remove" \in CommandKind
  BY DEF RemovalScope, Scope, CommandKind
<1>2. CASE SelectionMatches /\ CanBegin(RemovalScope) /\ Issue(RemovalScope, "remove")
  BY <1>1, <1>2, IssueStep DEF SubmitConfirmation
<1>3. CASE UNCHANGED <<snapshot, selection, commands>>
  BY <1>3, CloseConfirmationStep DEF SubmitConfirmation
<1> QED
  BY <1>2, <1>3 DEF SubmitConfirmation

-----------------------------------------------------------------------------
\* An answer takes one command away, and what waits for it.
LEMMA AnswerIsTaken ==
  ASSUME ShellInv, NEW c \in sent, Answers(c), IsAwaited(c), Settles(c),
         UNCHANGED <<snapshot, removing, issued>>
  PROVE  /\ awaited' \in [Scope -> SUBSET Command] /\ sent' \subseteq Command
         /\ OwnIsAwaited' /\ OneCommandPerSession' /\ DialogIsAlone'
         /\ c.scope # "all" => removing = {}
<1>1. /\ sent' = sent \ {c} /\ awaited' = [awaited EXCEPT ![c.scope] = {}]
      /\ awaited[c.scope] = {c} /\ UNCHANGED <<session, removing>>
  BY DEF Answers, IsAwaited, Settles, snapshot
<1>2. ShellTypeOK /\ c \in Command /\ c.scope \in Scope
  BY DEF ShellInv, ShellTypeOK, Command
<1>3. awaited' \in [Scope -> SUBSET Command] /\ sent' \subseteq Command
  BY <1>1, <1>2 DEF ShellTypeOK
<1>4. ASSUME NEW d \in sent, d # c, d.session = session PROVE awaited'[d.scope] = {d}
  <2>1. awaited[d.scope] = {d} /\ d.scope \in Scope
    BY <1>2, <1>4 DEF ShellInv, OwnIsAwaited, ShellTypeOK, Command
  <2>2. d.scope # c.scope
    BY <1>1, <1>4, <2>1
  <2> QED
    BY <1>1, <1>2, <2>1, <2>2 DEF ShellTypeOK
<1>5. OwnIsAwaited' /\ OneCommandPerSession'
  BY <1>1, <1>4 DEF ShellInv, OwnIsAwaited, OneCommandPerSession
<1>6. DialogIsAlone'
  BY <1>1, <1>2 DEF ShellInv, DialogIsAlone, ShellTypeOK, Scope
<1>7. c.scope # "all" => removing = {}
  BY <1>1, <1>2 DEF ShellInv, DialogIsAlone, Scope
<1> QED
  BY <1>3, <1>5, <1>6, <1>7

LEMMA AnswerSteps ==
  ASSUME ShellInv, NEW c \in sent,
         \/ AnswerKeepsSelection(c) \/ TaskRemoved(c)
         \/ \E t \in Task : TaskRetried(c, t)
         \/ \E failed, new \in SUBSET Task, whole \in BOOLEAN :
              BatchAnswered(c, failed, whole, new)
  PROVE  ShellInv'
<1> USE DEF snapshot
<1>1. ShellTypeOK /\ c \in Command
  BY DEF ShellInv, ShellTypeOK
<1>2. CASE AnswerKeepsSelection(c)
  <2>1. /\ Answers(c) /\ IsAwaited(c) /\ Settles(c)
        /\ UNCHANGED <<snapshot, marked, focused, removing, failures, issued>>
    BY <1>2 DEF AnswerKeepsSelection, selection
  <2>2. ShellTypeOK'
    BY <1>1, <2>1, AnswerIsTaken DEF ShellTypeOK
  <2>3. DialogIsAboutOne'
    BY <2>1 DEF ShellInv, DialogIsAboutOne, DialogNames, InView
  <2> QED
    BY <2>1, <2>2, <2>3, AnswerIsTaken DEF ShellInv
<1>3. ASSUME Answers(c), IsAwaited(c), Settles(c), c.scope # "all",
             UNCHANGED <<snapshot, removing, issued>>,
             marked' \subseteq Task, focused' \in Task \cup {NoTask}, failures' \in BOOLEAN
      PROVE  ShellInv'
  <2>1. ShellTypeOK'
    BY <1>1, <1>3, AnswerIsTaken DEF ShellTypeOK
  <2>2. DialogIsAboutOne'
    BY <1>3, AnswerIsTaken DEF DialogIsAboutOne
  <2> QED
    BY <1>3, <2>1, <2>2, AnswerIsTaken DEF ShellInv
<1>4. CASE TaskRemoved(c)
  <2>1. marked' \subseteq Task /\ focused' \in Task \cup {NoTask} /\ failures' \in BOOLEAN
    BY <1>1, <1>4 DEF TaskRemoved, ShellTypeOK
  <2> QED
    BY <1>3, <1>4, <2>1 DEF TaskRemoved
<1>5. ASSUME NEW t \in Task, TaskRetried(c, t) PROVE ShellInv'
  <2>1. marked' \subseteq Task /\ focused' \in Task \cup {NoTask} /\ failures' \in BOOLEAN
    BY <1>1, <1>5 DEF TaskRetried, ShellTypeOK
  <2> QED
    BY <1>3, <1>5, <2>1 DEF TaskRetried
<1>6. ASSUME NEW failed \in SUBSET Task, NEW new \in SUBSET Task, NEW whole \in BOOLEAN,
             BatchAnswered(c, failed, whole, new)
      PROVE  ShellInv'
  <2>1. marked' \subseteq Task
    BY <1>1, <1>6 DEF BatchAnswered, Unmarked, ShellTypeOK
  <2>2. focused' \in Task \cup {NoTask}
    BY <1>1, <1>6, <2>1 DEF BatchAnswered, ShellTypeOK
  <2>3. failures' \in BOOLEAN
    BY <1>6 DEF BatchAnswered
  <2> QED
    BY <1>3, <1>6, <2>1, <2>2, <2>3 DEF BatchAnswered
<1> QED
  BY <1>2, <1>4, <1>5, <1>6

LEMMA DropAnswerStep == ASSUME ShellInv, NEW c \in sent, DropAnswer(c) PROVE ShellInv'
<1> USE DEF DropAnswer, Answers, snapshot, selection
<1>1. ShellTypeOK'
  BY DEF ShellInv, ShellTypeOK
<1>2. OwnIsAwaited' /\ OneCommandPerSession'
  BY DEF ShellInv, OwnIsAwaited, OneCommandPerSession
<1>3. DialogIsAlone' /\ DialogIsAboutOne'
  BY DEF ShellInv, DialogIsAlone, DialogIsAboutOne, DialogNames, InView
<1> QED
  BY <1>1, <1>2, <1>3 DEF ShellInv

LEMMA CloseFailuresStep == ASSUME ShellInv, CloseFailures PROVE ShellInv'
<1> USE DEF CloseFailures, snapshot, selection
<1>1. ShellTypeOK'
  BY DEF ShellInv, ShellTypeOK
<1>2. OwnIsAwaited' /\ OneCommandPerSession'
  BY SameCommands
<1>3. DialogIsAlone' /\ DialogIsAboutOne'
  BY DEF ShellInv, DialogIsAlone, DialogIsAboutOne, DialogNames, InView
<1> QED
  BY <1>1, <1>2, <1>3 DEF ShellInv

LEMMA ShellStutter == ASSUME ShellInv, UNCHANGED shellVars PROVE ShellInv'
<1> USE DEF shellVars
<1>1. ShellTypeOK'
  BY DEF ShellInv, ShellTypeOK
<1>2. OwnIsAwaited' /\ OneCommandPerSession'
  BY SameCommands
<1>3. DialogIsAlone' /\ DialogIsAboutOne'
  BY DEF ShellInv, DialogIsAlone, DialogIsAboutOne, DialogNames, InView
<1> QED
  BY <1>1, <1>2, <1>3 DEF ShellInv

LEMMA ShellStepInv == ASSUME ShellInv, [ShellNext]_shellVars PROVE ShellInv'
BY LightSnapshotStep, SetSnapshotStep, SelectionSteps, BeginStep, ConfirmRemoveStep,
   CloseConfirmationStep, SubmitConfirmationStep, AnswerSteps, DropAnswerStep,
   CloseFailuresStep, ShellStutter
DEF ShellNext, CloseConfirmation

-----------------------------------------------------------------------------
\* The one task the dialog asks about is the target of the command.
LEMMA TargetIsNamed ==
  ASSUME ShellInv, NEW t \in Task, removing = {t}, focused = t, Target # {}
  PROVE  Target = {t}
<1>1. DialogNames(t) /\ ShellTypeOK
  BY DEF ShellInv, DialogIsAboutOne
<1>2. CASE Cardinality(InView) = 1
  <2>1. PICK u \in Task : InView = {u}
    BY <1>1, <1>2, FewTasks, TargetIsOfTasks
  <2>2. t \in InView
    BY <1>1, <2>1 DEF DialogNames, InView
  <2> QED
    BY <1>2, <2>1, <2>2 DEF Target
<1>3. CASE Cardinality(InView) # 1
  BY <1>3, ShellAssumption DEF Target
<1> QED
  BY <1>2, <1>3

LEMMA SubmitRemovesAsAsked ==
  ASSUME ShellInv, SubmitConfirmation, NEW c \in sent' \ sent, c.scope = "task"
  PROVE  c.tasks = removing
<1>1. /\ SelectionMatches /\ CanBegin(RemovalScope) /\ Issue(RemovalScope, "remove")
      /\ removing # {} /\ removing \subseteq Task
  BY DEF SubmitConfirmation, commands, ShellInv, ShellTypeOK
<1>2. c.scope = RemovalScope /\ c.tasks = Names(RemovalScope)
  BY <1>1, IssueStep DEF RemovalScope, Scope, CommandKind
<1>3. c.tasks = Target /\ Target # {} /\ ~(Cardinality(removing) > 1)
  BY <1>1, <1>2 DEF RemovalScope, Names, CanBegin
<1>4. PICK t \in Task : removing = {t}
  BY <1>1, <1>3, FewTasks
<1>5. focused = t
  BY <1>1, <1>3, <1>4 DEF SelectionMatches
<1> QED
  BY <1>3, <1>4, <1>5, TargetIsNamed

LEMMA RemovalsAreAsked ==
  ASSUME ShellInv, [ShellNext]_shellVars, NEW c \in sent' \ sent,
         c.kind = "remove", c.scope = "task"
  PROVE  c.tasks = removing
<1>1. CASE SubmitConfirmation
  BY <1>1, SubmitRemovesAsAsked
<1>2. ASSUME NEW scope \in Scope, NEW kind \in CommandKind, Begin(scope, kind) PROVE FALSE
  BY <1>2, IssueStep DEF Begin
<1>3. sent' \subseteq sent \/ SubmitConfirmation
        \/ \E scope \in Scope, kind \in CommandKind : Begin(scope, kind)
  BY DEF ShellNext, shellVars, LightSnapshot, SetSnapshot, Click, Toggle, OpenContextMenu,
     MarkRange, SelectAll, ToggleAll, ClearMarks, Marks, ConfirmRemove, CloseConfirmation,
     DropAnswer, AnswerKeepsSelection, TaskRemoved, TaskRetried, BatchAnswered, CloseFailures,
     Answers, commands
<1> QED
  BY <1>1, <1>2, <1>3

\* The selection, the dialog and the commands under way always fit together.
THEOREM ShellInvariant == ShellSpec => []ShellInv
<1>1. ShellInit => ShellInv
  BY ShellInitInv
<1>2. ShellInv /\ [ShellNext]_shellVars => ShellInv'
  BY ShellStepInv
<1> QED
  BY <1>1, <1>2, PTL DEF ShellSpec

\* The state of the shell has its types.
THEOREM ShellTypeCorrect == ShellSpec => []ShellTypeOK
<1>1. ShellInv => ShellTypeOK
  BY DEF ShellInv
<1> QED
  BY <1>1, ShellInvariant, PTL

\* The shell has at most one command under way in a session.
THEOREM OneCommandAtATime == ShellSpec => []OneCommandPerSession
<1>1. ShellInv => OneCommandPerSession
  BY DEF ShellInv
<1> QED
  BY <1>1, ShellInvariant, PTL

\* A dialog about one task removes that task, whatever snapshots came meanwhile.
THEOREM OneTaskRemovedAsAsked == ShellSpec => OneTaskIsRemovedAsAsked
<1>1. ShellInv /\ [ShellNext]_shellVars =>
        [\A c \in sent' \ sent :
           c.kind = "remove" /\ c.scope = "task" => c.tasks = removing]_shellVars
  BY RemovalsAreAsked
<1> QED
  BY <1>1, ShellInvariant, PTL DEF ShellSpec, OneTaskIsRemovedAsAsked

-----------------------------------------------------------------------------
(***************************************************************************)
(* The details drawer.                                                      *)
(***************************************************************************)
\* The answer to what the drawer d waits for is under way, and is no older than
\* the row, unless the row has moved on since or counts from 1 again.
WaitsFor(d, reqs) ==
  d.pending # 0 =>
    /\ \E c \in reqs : c.id = d.pending
    /\ ~d.restarted => d.source <= d.overview.revision
    /\ \A c \in reqs : c.id = d.pending =>
         /\ c.task = d.task /\ c.attempt = d.attempt
         /\ c.version # 0 /\ ~d.restarted /\ d.source = d.overview.revision
              => c.version >= d.overview.version

IsOwn(d) ==
  d.state = "Ready" => d.shown.task = d.task /\ d.shown.attempt = d.attempt

\* A refresh that was put off waits for nothing: no answer ever makes it up.
Fits(d, reqs, ver) ==
  /\ d \in Drawer
  /\ d.overview.version <= ver[d.task]
  /\ d.coalesced => d.pending = 0
  /\ WaitsFor(d, reqs)
  /\ IsOwn(d)

IsResting(d, ok) == ~ok => d.pending = 0 /\ d.state # "Ready"

IsCurrent(d) ==
  d.state = "Ready" /\ d.pending = 0 =>
    \/ d.coalesced \/ d.refused \/ d.restarted
    \/ d.shown.version >= d.overview.version

RowsAreOld ==
  /\ \A t \in Download : listed[t] # NoRow => listed[t].version <= version[t]
  /\ \A t \in Download : revision[t] <= version[t]

DetailsInv ==
  /\ DetailsTypeOK
  /\ RowsAreOld
  /\ drawer # NoDrawer => /\ Fits(drawer, requests, version)
                          /\ drawer.attempt = attempt
                          /\ IsResting(drawer, online)
                          /\ IsCurrent(drawer)

LEMMA DetailsInitInv == DetailsInit => DetailsInv
<1> SUFFICES ASSUME DetailsInit PROVE DetailsInv
  OBVIOUS
<1>1. version \in [Download -> State] /\ revision \in [Download -> 0 .. MaxVersion]
  BY DetailsAssumption DEF DetailsInit, State
<1>2. listed \in [Download -> Row \cup {NoRow}]
  BY DEF DetailsInit
<1>3. attempt \in Attempt
  BY DetailsAssumption DEF DetailsInit, Attempt
<1>4. RowsAreOld
  BY DEF DetailsInit, RowsAreOld
<1> QED
  BY <1>1, <1>2, <1>3, <1>4 DEF DetailsInit, DetailsInv, DetailsTypeOK

LEMMA DetailsInvSuffices == DetailsInv => DetailsAreCurrent
BY DEF DetailsInv, DetailsAreCurrent, IsReady, Fits, IsOwn, IsCurrent

\* Asking for details, or putting it off, leaves the drawer in order whatever
\* it showed before.
LEMMA AskFits ==
  ASSUME NEW d \in Drawer, NEW limited, NEW s \in Attempt, NEW ok \in BOOLEAN,
         NEW others \in SUBSET Request, version \in [Download -> State],
         \A c, e \in others : c.id = e.id => c = e,
         Fits(d, others, version), IsResting(d, ok), d.attempt = s,
         Ask(d, limited, s, ok, others)
  PROVE  /\ Fits(drawer', requests', version)
         /\ drawer'.attempt = s /\ IsResting(drawer', ok) /\ IsCurrent(drawer')
         /\ requests' \subseteq Request
         /\ \A c, e \in requests' : c.id = e.id => c = e
<1>1. CASE ~NotAsked(d) \/ ~ok
  BY <1>1 DEF Ask, NotAsked, IsResting, IsCurrent
<1>2. CASE NotAsked(d) /\ ok /\ TooSoon(d, limited)
  <2>1. drawer' = [d EXCEPT !.coalesced = TRUE] /\ requests' = others
    BY <1>2 DEF Ask
  <2> QED
    BY <1>2, <2>1 DEF Drawer, NotAsked, Fits, WaitsFor, IsOwn, IsResting, IsCurrent
<1>3. CASE NotAsked(d) /\ ok /\ ~TooSoon(d, limited)
  <2>1. PICK id \in Id :
          /\ \A c \in others : c.id # id
          /\ drawer' = Requested(d, id, s)
          /\ requests' = others \cup {[id |-> id, task |-> d.task, attempt |-> s, version |-> 0]}
    BY <1>3 DEF Ask
  <2>2. d.task \in Download /\ d.overview.revision \in State
    BY DEF Drawer, Row
  <2>3. [id |-> id, task |-> d.task, attempt |-> s, version |-> 0] \in Request
    BY <2>2, DetailsAssumption DEF Request
  <2>4. id # 0 /\ id \in 0 .. MaxUnderWay
    BY DEF Id
  <2>5. drawer' \in Drawer
    <3>1. d.overview.revision \in 0 .. MaxVersion
      BY <2>2, DetailsAssumption DEF State
    <3> QED
      BY <2>1, <2>4, <3>1 DEF Requested, Drawer
  <2>6. /\ drawer'.pending = id /\ drawer'.task = d.task /\ drawer'.attempt = s
        /\ drawer'.overview = d.overview /\ drawer'.source = d.overview.revision
        /\ drawer'.shown = d.shown /\ ~drawer'.coalesced
        /\ drawer'.state = "Ready" => d.state = "Ready"
    BY <2>1 DEF Requested, Drawer
  <2>7. WaitsFor(drawer', requests')
    <3>1. \A c \in requests' : c.id = id => c.version = 0 /\ c.task = d.task /\ c.attempt = s
      BY <2>1
    <3>2. \E c \in requests' : c.id = id
      <4> DEFINE c == [id |-> id, task |-> d.task, attempt |-> s, version |-> 0]
      <4>1. c \in requests' /\ c.id = id
        BY <2>1
      <4> QED
        BY <4>1
    <3>3. d.overview.revision <= d.overview.revision
      BY <2>2, DetailsAssumption DEF State
    <3> QED
      BY <2>6, <3>1, <3>2, <3>3 DEF WaitsFor
  <2>8. Fits(drawer', requests', version)
    BY <2>5, <2>6, <2>7 DEF Fits, IsOwn
  <2> QED
    BY <1>3, <2>1, <2>3, <2>4, <2>6, <2>8 DEF IsResting, IsCurrent
<1> QED
  BY <1>1, <1>2, <1>3

-----------------------------------------------------------------------------
\* A drawer that shows and awaits nothing is in order.
LEMMA NotReadyFits ==
  ASSUME NEW d \in Drawer, NEW reqs, version \in [Download -> State],
         d.overview.version <= version[d.task]
  PROVE  LET n == NotReady(d, "Stale")
         IN  /\ Fits(n, reqs, version)
             /\ n.attempt = d.attempt /\ n.task = d.task /\ n.overview = d.overview
             /\ n.pending = 0 /\ n.state = "Stale"
<1> DEFINE n == NotReady(d, "Stale")
<1>1. n \in Drawer
  <2>1. 0 \in 0 .. MaxVersion /\ 0 \in 0 .. MaxUnderWay
    BY DetailsAssumption
  <2>2. d.task \in Download /\ d.attempt \in Attempt
    BY DEF Drawer
  <2>3. [task |-> d.task, attempt |-> d.attempt, version |-> 0] \in Details
    BY <2>1, <2>2 DEF Details
  <2> QED
    BY <2>1, <2>3 DEF NotReady, Drawer
<1>2. /\ n.attempt = d.attempt /\ n.task = d.task /\ n.overview = d.overview
      /\ n.pending = 0 /\ n.state = "Stale"
  BY DEF NotReady, Drawer
<1> HIDE DEF n
<1>3. Fits(n, reqs, version)
  BY <1>1, <1>2 DEF Fits, WaitsFor, IsOwn
<1> QED
  BY <1>2, <1>3 DEF n

LEMMA FreshFits ==
  ASSUME DetailsInv, NEW t \in Download, listed[t] # NoRow
  PROVE  /\ Fits(Fresh(t), requests, version)
         /\ Fresh(t).attempt = attempt /\ IsResting(Fresh(t), online)
<1>1. listed[t] \in Row /\ attempt \in Attempt /\ listed[t].version <= version[t]
  BY DEF DetailsInv, DetailsTypeOK, RowsAreOld
<1>2. Fresh(t) \in Drawer
  BY <1>1, DetailsAssumption DEF Fresh, Drawer, Details
<1> QED
  BY <1>1, <1>2 DEF Fresh, Fits, WaitsFor, IsOwn, IsResting

-----------------------------------------------------------------------------
\* What set_snapshot makes of the drawer, step by step.
LEMMA OfSessionFits ==
  ASSUME DetailsInv, drawer # NoDrawer, NEW s \in Attempt
  PROVE  LET d == OfSession(drawer, s)
         IN  /\ Fits(d, requests, version)
             /\ d.attempt = s /\ d.task = drawer.task
             /\ s = attempt => d = drawer
             /\ s # attempt => d.state = "Stale"
<1>1. drawer \in Drawer /\ Fits(drawer, requests, version) /\ drawer.attempt = attempt
      /\ version \in [Download -> State]
  BY DEF DetailsInv, DetailsTypeOK
<1>2. CASE s = attempt
  BY <1>1, <1>2 DEF OfSession
<1>3. CASE s # attempt
  <2> DEFINE e == [drawer EXCEPT !.attempt = s]
  <2>1. e \in Drawer /\ e.attempt = s /\ e.task = drawer.task /\ e.overview = drawer.overview
    BY <1>1 DEF Drawer
  <2>2. e.overview.version <= version[e.task]
    BY <1>1, <2>1 DEF Fits
  <2> HIDE DEF e
  <2>3. /\ Fits(NotReady(e, "Stale"), requests, version)
        /\ NotReady(e, "Stale").attempt = s /\ NotReady(e, "Stale").task = drawer.task
        /\ NotReady(e, "Stale").state = "Stale"
    BY <1>1, <2>1, <2>2, NotReadyFits
  <2> QED
    BY <1>3, <2>3 DEF OfSession, e
<1> QED
  BY <1>2, <1>3

LEMMA FollowFits ==
  ASSUME NEW d, NEW new \in [Download -> Row \cup {NoRow}],
         version \in [Download -> State],
         \A t \in Download : new[t] # NoRow => new[t].version <= version[t],
         Fits(d, requests, version)
  PROVE  LET f == Follow(d, new)
         IN  /\ Fits(f, requests, version)
             /\ f.attempt = d.attempt
             /\ ~FollowerIn(d.task, new) => f = d
<1>1. d \in Drawer /\ d.task \in Download
  BY DEF Fits, Drawer
<1>2. CASE ~FollowerIn(d.task, new)
  BY <1>2 DEF Follow
<1>3. CASE FollowerIn(d.task, new)
  <2> DEFINE n == FollowedBy[d.task]
             e == [d EXCEPT !.task = n, !.overview = new[n]]
  <2>1. n \in Download /\ new[n] \in Row /\ new[n].version <= version[n]
    BY <1>1, <1>3, DetailsAssumption DEF FollowerIn
  <2>2. e \in Drawer /\ e.attempt = d.attempt /\ e.task = n /\ e.overview = new[n]
    BY <1>1, <2>1 DEF Drawer
  <2>3. Follow(d, new) = NotReady(e, "Stale")
    BY <1>3 DEF Follow
  <2> HIDE DEF e
  <2>4. Fits(NotReady(e, "Stale"), requests, version)
        /\ NotReady(e, "Stale").attempt = d.attempt
    BY <2>1, <2>2, NotReadyFits
  <2> QED
    BY <1>3, <2>3, <2>4
<1> QED
  BY <1>2, <1>3

LEMMA TakeRowFits ==
  ASSUME NEW d, NEW new \in [Download -> Row \cup {NoRow}],
         version \in [Download -> State],
         \A t \in Download : new[t] # NoRow => new[t].version <= version[t],
         Fits(d, requests, version)
  PROVE  LET r == TakeRow(d, new)
         IN  /\ Fits(r, requests, version)
             /\ r.attempt = d.attempt /\ r.pending = d.pending /\ r.state = d.state
             /\ (IsCurrent(d) /\ ~(new[d.task] # NoRow
                                    /\ new[d.task].revision > d.overview.revision))
                  => IsCurrent(r)
<1>1. d \in Drawer /\ d.task \in Download
  BY DEF Fits, Drawer
<1>2. CASE new[d.task] = NoRow
  BY <1>2 DEF TakeRow
<1>3. CASE new[d.task] # NoRow
  <2> DEFINE row == new[d.task]
             r == TakeRow(d, new)
  <2>1. /\ row \in Row /\ row.version <= version[d.task]
        /\ row.revision \in Nat /\ d.overview.revision \in Nat /\ d.source \in Nat
    BY <1>1, <1>3, DetailsAssumption DEF Row, State, Drawer
  <2>2. r \in Drawer
    BY <1>1, <1>3, <2>1 DEF TakeRow, Drawer, StartsOver
  <2>3. /\ r.task = d.task /\ r.attempt = d.attempt /\ r.overview = row
        /\ r.pending = d.pending /\ r.source = d.source /\ r.state = d.state
        /\ r.shown = d.shown /\ r.coalesced = d.coalesced /\ r.refused = d.refused
        /\ r.restarted = (d.restarted \/ StartsOver(d, row))
    BY <1>1, <1>3 DEF TakeRow, Drawer
  <2> HIDE DEF r
  <2>4. r.restarted \/ row = d.overview \/ row.revision > d.overview.revision
    <3>1. StartsOver(d, row) \/ row = d.overview \/ ~(row.revision <= d.overview.revision)
      BY DEF StartsOver
    <3>2. StartsOver(d, row) => r.restarted
      BY <2>3
    <3> QED
      BY <2>1, <3>1, <3>2
  <2>5. ~r.restarted => ~d.restarted
    BY <2>3
  <2>6. WaitsFor(r, requests)
    BY <2>1, <2>3, <2>4, <2>5 DEF WaitsFor, Fits
  <2>7. Fits(r, requests, version)
    BY <2>1, <2>2, <2>3, <2>6 DEF Fits, IsOwn
  <2>8. IsCurrent(d) /\ ~(row.revision > d.overview.revision) => IsCurrent(r)
    BY <2>3, <2>4, <2>5 DEF IsCurrent
  <2> QED
    BY <1>3, <2>3, <2>7, <2>8 DEF r
<1> QED
  BY <1>2, <1>3

LEMMA SeenFits ==
  ASSUME DetailsInv, drawer # NoDrawer, NEW s \in Attempt, NEW ok \in BOOLEAN,
         NEW focus \in BOOLEAN, NEW new \in [Download -> Row \cup {NoRow}],
         \A t \in Download : new[t] # NoRow => new[t].version <= version[t]
  PROVE  LET seen == Seen(new, s, ok)
         IN  /\ Fits(seen, requests, version)
             /\ seen.attempt = s /\ IsResting(seen, ok)
             /\ ~Forces(new, s, focus) /\ ~Advances(new) => IsCurrent(seen)
<1> DEFINE a == OfSession(drawer, s)
           b == Follow(a, new)
           c == TakeRow(b, new)
<1>1. version \in [Download -> State] /\ IsCurrent(drawer)
  BY DEF DetailsInv, DetailsTypeOK
<1>2. Fits(a, requests, version) /\ a.attempt = s /\ (s = attempt => a = drawer)
  BY OfSessionFits
<1> HIDE DEF a
<1>3. /\ Fits(b, requests, version) /\ b.attempt = s
      /\ ~FollowerIn(a.task, new) => b = a
  BY <1>1, <1>2, FollowFits
<1> HIDE DEF b
<1>4. /\ Fits(c, requests, version) /\ c.attempt = s
      /\ (IsCurrent(b) /\ ~(new[b.task] # NoRow
                              /\ new[b.task].revision > b.overview.revision))
           => IsCurrent(c)
  BY <1>1, <1>3, TakeRowFits
<1>5. ~Forces(new, s, focus) /\ ~Advances(new) => IsCurrent(c)
  BY <1>1, <1>2, <1>3, <1>4 DEF Forces, Advances
<1>6. Seen(new, s, ok) = KeepIf(ok, c)
  BY DEF Seen, a, b
<1> HIDE DEF c
<1>7. CASE ok
  BY <1>4, <1>5, <1>6, <1>7 DEF KeepIf, IsResting
<1>8. CASE ~ok
  <2>1. c \in Drawer /\ c.overview.version <= version[c.task]
    BY <1>4 DEF Fits
  <2>2. /\ Fits(NotReady(c, "Stale"), requests, version)
        /\ NotReady(c, "Stale").attempt = s
        /\ NotReady(c, "Stale").pending = 0 /\ NotReady(c, "Stale").state = "Stale"
    BY <1>1, <1>4, <2>1, NotReadyFits
  <2> QED
    BY <1>6, <1>8, <2>2 DEF KeepIf, IsResting, IsCurrent
<1> QED
  BY <1>7, <1>8

-----------------------------------------------------------------------------
(***************************************************************************)
(* The steps.                                                               *)
(***************************************************************************)
\* A drawer that Ask has left in order, with the rows as they were.
LEMMA AskedInv ==
  ASSUME DetailsInv, NEW d \in Drawer, NEW limited,
         NEW others \in SUBSET requests, Fits(d, others, version),
         d.attempt = attempt, IsResting(d, online),
         Ask(d, limited, attempt, online, others), UNCHANGED <<engineRows, shownRows>>
  PROVE  DetailsInv'
<1>1. /\ version \in [Download -> State] /\ attempt \in Attempt /\ online \in BOOLEAN
      /\ others \in SUBSET Request /\ \A c, e \in others : c.id = e.id => c = e
  BY DEF DetailsInv, DetailsTypeOK
<1>2. /\ Fits(drawer', requests', version)
      /\ drawer'.attempt = attempt /\ IsResting(drawer', online) /\ IsCurrent(drawer')
      /\ requests' \subseteq Request /\ \A c, e \in requests' : c.id = e.id => c = e
  BY <1>1, AskFits
<1> QED
  BY <1>2 DEF DetailsInv, DetailsTypeOK, RowsAreOld, engineRows, shownRows, Fits, IsResting,
     IsCurrent, WaitsFor, IsOwn

\* The store moves: rows and details get older, never newer.
LEMMA StoreInv ==
  ASSUME DetailsInv, NEW t \in Download,
         TaskChanges(t) \/ StoreForgets(t) \/ StoreLists(t)
  PROVE  DetailsInv'
<1>1. /\ version \in [Download -> State] /\ revision \in [Download -> 0 .. MaxVersion]
      /\ listed \in [Download -> Row \cup {NoRow}]
  BY DEF DetailsInv, DetailsTypeOK
<1>2. \A u \in Download : version[u] \in Nat /\ revision[u] \in Nat
                           /\ revision[u] <= version[u] /\ version[u] >= 1
  BY <1>1, DetailsAssumption DEF DetailsInv, RowsAreOld, State
<1>3. /\ version' \in [Download -> State] /\ revision' \in [Download -> 0 .. MaxVersion]
      /\ \A u \in Download : version'[u] >= version[u] /\ revision'[u] <= version'[u]
  BY <1>1, <1>2, DetailsAssumption DEF TaskChanges, StoreForgets, StoreLists, State
<1>4. UNCHANGED <<listed, attempt, online, drawer, requests>>
  BY DEF TaskChanges, StoreForgets, StoreLists, shownRows
<1>5. RowsAreOld'
  <2>1. \A u \in Download : listed[u] # NoRow =>
          listed[u].version \in Nat /\ listed[u].version <= version[u] /\ version'[u] \in Nat
    BY <1>1, <1>3, DetailsAssumption DEF DetailsInv, RowsAreOld, Row, State
  <2> QED
    BY <1>2, <1>3, <1>4, <2>1 DEF RowsAreOld
<1>6. drawer # NoDrawer => Fits(drawer, requests, version')
  <2>1. drawer # NoDrawer =>
          drawer.task \in Download /\ drawer.overview.version \in Nat
          /\ drawer.overview.version <= version[drawer.task]
    BY DetailsAssumption DEF DetailsInv, Fits, Drawer, Row, State
  <2>2. \A u \in Download : version'[u] \in Nat
    BY <1>3, DetailsAssumption DEF State
  <2>3. drawer # NoDrawer => drawer.overview.version <= version'[drawer.task]
    BY <1>2, <1>3, <2>1, <2>2
  <2> QED
    BY <2>3 DEF DetailsInv, Fits
<1> QED
  BY <1>3, <1>4, <1>5, <1>6 DEF DetailsInv, DetailsTypeOK, IsResting, IsCurrent, Fits, WaitsFor,
     IsOwn

LEMMA OpenInv == ASSUME DetailsInv, NEW t \in Download, OpenDetails(t) PROVE DetailsInv'
<1>1. Fits(Fresh(t), requests, version) /\ Fresh(t).attempt = attempt
      /\ IsResting(Fresh(t), online) /\ Fresh(t) \in Drawer
  BY FreshFits DEF OpenDetails, Fits
<1> QED
  BY <1>1, AskedInv DEF OpenDetails

LEMMA CloseInv == ASSUME DetailsInv, CloseDetails PROVE DetailsInv'
BY DEF DetailsInv, DetailsTypeOK, RowsAreOld, CloseDetails, engineRows, shownRows

LEMMA RetryInv == ASSUME DetailsInv, RetryDetails PROVE DetailsInv'
<1>1. Fits(drawer, requests, version) /\ drawer.attempt = attempt
      /\ IsResting(drawer, online) /\ drawer \in Drawer
  BY DEF DetailsInv, RetryDetails, Fits
<1> QED
  BY <1>1, AskedInv DEF RetryDetails

LEMMA IntervalInv == ASSUME DetailsInv, IntervalElapses PROVE DetailsInv'
<1>1. drawer # NoDrawer /\ drawer \in Drawer
  BY DEF DetailsInv, IntervalElapses, Fits
<1>2. /\ drawer' \in Drawer
      /\ drawer'.task = drawer.task /\ drawer'.attempt = drawer.attempt
      /\ drawer'.overview = drawer.overview /\ drawer'.state = drawer.state
      /\ drawer'.shown = drawer.shown /\ drawer'.pending = drawer.pending
      /\ drawer'.source = drawer.source /\ drawer'.coalesced = drawer.coalesced
      /\ drawer'.restarted = drawer.restarted /\ drawer'.refused = drawer.refused
  BY <1>1 DEF IntervalElapses, Drawer
<1>3. UNCHANGED <<version, revision, listed, attempt, online, requests>>
  BY DEF IntervalElapses, engineRows, shownRows
<1>4. Fits(drawer, requests, version) /\ IsResting(drawer, online) /\ IsCurrent(drawer)
      /\ drawer.attempt = attempt
  BY <1>1 DEF DetailsInv
<1>5. Fits(drawer', requests', version')
  BY <1>2, <1>3, <1>4 DEF Fits, WaitsFor, IsOwn
<1>6. IsResting(drawer', online') /\ IsCurrent(drawer')
  BY <1>2, <1>3, <1>4 DEF IsResting, IsCurrent
<1> QED
  BY <1>2, <1>3, <1>4, <1>5, <1>6 DEF DetailsInv, DetailsTypeOK, RowsAreOld

LEMMA ShowInv ==
  ASSUME DetailsInv, NEW visible \in SUBSET Download, NEW s \in Attempt, NEW ok \in BOOLEAN,
         NEW focus \in BOOLEAN, ShowSnapshot(visible, s, ok, focus)
  PROVE  DetailsInv'
<1> DEFINE new == [t \in Download |->
                     IF t \in visible /\ revision[t] # 0
                     THEN [revision |-> revision[t], version |-> version[t]] ELSE NoRow]
<1>1. /\ version \in [Download -> State] /\ revision \in [Download -> 0 .. MaxVersion]
      /\ requests \in SUBSET Request /\ \A c, e \in requests : c.id = e.id => c = e
  BY DEF DetailsInv, DetailsTypeOK
<1>2. /\ listed' = new /\ attempt' = s /\ online' = ok
      /\ version' = version /\ revision' = revision
      /\ ok => s # 0
  BY DEF ShowSnapshot, engineRows
<1>3. /\ drawer = NoDrawer => UNCHANGED <<drawer, requests>>
      /\ drawer # NoDrawer /\ (Forces(new, s, focus) \/ Advances(new)) =>
           Ask(Seen(new, s, ok), ~Forces(new, s, focus), s, ok, requests)
      /\ drawer # NoDrawer /\ ~(Forces(new, s, focus) \/ Advances(new)) =>
           drawer' = Seen(new, s, ok) /\ UNCHANGED requests
  BY DEF ShowSnapshot
<1>4. new \in [Download -> Row \cup {NoRow}]
  <2>1. \A t \in Download : revision[t] # 0 => revision[t] \in State
    BY <1>1, DetailsAssumption DEF State
  <2> QED
    BY <1>1, <2>1 DEF Row
<1>5. \A t \in Download : new[t] # NoRow => new[t].version <= version[t]
  <2>0. State \subseteq Nat
    BY DetailsAssumption DEF State
  <2>1. \A t \in Download : version[t] \in Nat
    BY <1>1, <2>0
  <2> QED
    BY <2>1
<1> HIDE DEF new
<1>6. RowsAreOld'
  BY <1>2, <1>5 DEF DetailsInv, RowsAreOld
<1>7. CASE drawer = NoDrawer
  BY <1>1, <1>2, <1>3, <1>4, <1>6, <1>7 DEF DetailsInv, DetailsTypeOK
<1>8. CASE drawer # NoDrawer
  <2>1. /\ Fits(Seen(new, s, ok), requests, version)
        /\ Seen(new, s, ok).attempt = s /\ IsResting(Seen(new, s, ok), ok)
        /\ ~Forces(new, s, focus) /\ ~Advances(new) => IsCurrent(Seen(new, s, ok))
    BY <1>4, <1>5, <1>8, SeenFits
  <2>2. Seen(new, s, ok) \in Drawer
    BY <2>1 DEF Fits
  <2>3. CASE Forces(new, s, focus) \/ Advances(new)
    <3>1. Ask(Seen(new, s, ok), ~Forces(new, s, focus), s, ok, requests)
      BY <1>3, <1>8, <2>3
    <3>2. /\ Fits(drawer', requests', version)
          /\ drawer'.attempt = s /\ IsResting(drawer', ok) /\ IsCurrent(drawer')
          /\ requests' \subseteq Request /\ \A c, e \in requests' : c.id = e.id => c = e
      BY <1>1, <2>1, <2>2, <3>1, AskFits, SMTT(60)
    <3> QED
      BY <1>1, <1>2, <1>4, <1>6, <3>2 DEF DetailsInv, DetailsTypeOK, Fits, IsResting, IsCurrent,
         WaitsFor, IsOwn
  <2>4. CASE ~(Forces(new, s, focus) \/ Advances(new))
    BY <1>1, <1>2, <1>3, <1>4, <1>6, <1>8, <2>1, <2>2, <2>4 DEF DetailsInv, DetailsTypeOK, Fits,
       IsResting, IsCurrent, WaitsFor, IsOwn
  <2> QED
    BY <2>3, <2>4
<1> QED
  BY <1>7, <1>8

LEMMA ReadInv == ASSUME DetailsInv, NEW c \in requests, EngineReads(c) PROVE DetailsInv'
<1> DEFINE r == [c EXCEPT !.version = version[c.task]]
<1>1. /\ version \in [Download -> State] /\ c \in Request
      /\ requests \subseteq Request /\ \A x, y \in requests : x.id = y.id => x = y
  BY DEF DetailsInv, DetailsTypeOK
<1>2. /\ r \in Request /\ r.id = c.id /\ r.task = c.task /\ r.attempt = c.attempt
      /\ r.version = version[c.task]
  <2>1. c.task \in Download /\ version[c.task] \in 0 .. MaxVersion
    BY <1>1, DetailsAssumption DEF Request, State
  <2> QED
    BY <1>1, <2>1 DEF Request
<1>3. /\ requests' = (requests \ {c}) \cup {r}
      /\ UNCHANGED <<version, revision, listed, attempt, online, drawer>>
  BY DEF EngineReads, engineRows, shownRows
<1> HIDE DEF r
<1>4. requests' \subseteq Request /\ \A x, y \in requests' : x.id = y.id => x = y
  BY <1>1, <1>2, <1>3
<1>5. drawer # NoDrawer => Fits(drawer, requests', version)
  <2> SUFFICES ASSUME drawer # NoDrawer PROVE WaitsFor(drawer, requests')
    BY DEF DetailsInv, Fits
  <2>1. Fits(drawer, requests, version) /\ WaitsFor(drawer, requests)
    BY DEF DetailsInv, Fits
  <2>2. SUFFICES ASSUME drawer.pending # 0 PROVE WaitsFor(drawer, requests')
    BY DEF WaitsFor
  <2>3. \E x \in requests' : x.id = drawer.pending
    BY <1>2, <1>3, <2>1, <2>2 DEF WaitsFor
  <2>4. r.id = drawer.pending => /\ r.task = drawer.task /\ r.attempt = drawer.attempt
                                 /\ r.version >= drawer.overview.version
    <3>1. drawer.overview.version \in Nat /\ version[drawer.task] \in Nat
          /\ drawer.overview.version <= version[drawer.task]
      BY <1>1, <2>1, DetailsAssumption DEF Fits, Drawer, Row, State
    <3>2. c.id = drawer.pending => c.task = drawer.task /\ c.attempt = drawer.attempt
      BY <2>1, <2>2 DEF WaitsFor
    <3> QED
      BY <1>2, <3>1, <3>2
  <2> QED
    BY <1>3, <2>1, <2>2, <2>3, <2>4 DEF WaitsFor
<1> QED
  BY <1>3, <1>4, <1>5 DEF DetailsInv, DetailsTypeOK, RowsAreOld, Fits, IsResting, IsCurrent,
     WaitsFor, IsOwn

\* The answer leaves details as new as the row the request was made for.
LEMMA AnswerInv ==
  ASSUME DetailsInv, NEW c \in requests, NEW good \in BOOLEAN, Answer(c, good)
  PROVE  DetailsInv'
<1> DEFINE d == Shows(c, good)
           others == requests \ {c}
<1>1. /\ drawer # NoDrawer /\ drawer \in Drawer /\ c \in Request /\ requests \subseteq Request
      /\ Fits(drawer, requests, version) /\ WaitsFor(drawer, requests)
      /\ drawer.attempt = attempt /\ IsResting(drawer, online)
      /\ \A x, y \in requests : x.id = y.id => x = y
  BY DEF Answer, IsExpected, DetailsInv, DetailsTypeOK, Fits
<1>2. /\ drawer.pending = c.id /\ c.id # 0 /\ c.task = drawer.task /\ c.attempt = drawer.attempt
      /\ good => c.version # 0
  BY <1>1 DEF Answer, IsExpected, Request, Id
<1>3. online /\ ~drawer.coalesced
  BY <1>1, <1>2 DEF IsResting, Fits
<1>4. d \in Drawer
  <2>1. 0 \in 0 .. MaxVersion /\ 0 \in 0 .. MaxUnderWay
    BY DetailsAssumption
  <2>2. [task |-> c.task, attempt |-> c.attempt, version |-> c.version] \in Details
    BY <1>1 DEF Request, Details
  <2>3. Done(c) \in Drawer
    BY <1>1, <2>1 DEF Done, Drawer
  <2>4. CASE good
    BY <2>2, <2>3, <2>4 DEF Shows, Drawer
  <2>5. CASE ~good
    BY <2>3, <2>5 DEF Shows, Drawer
  <2> QED
    BY <2>4, <2>5
<1>5. /\ d.task = drawer.task /\ d.attempt = drawer.attempt /\ d.overview = drawer.overview
      /\ d.pending = 0 /\ d.restarted = drawer.restarted /\ ~d.coalesced
      /\ good => d.shown = [task |-> c.task, attempt |-> c.attempt, version |-> c.version]
      /\ ~good => d.shown = drawer.shown /\ (d.state = "Ready" => drawer.state = "Ready")
      /\ ~good /\ drawer.state = "Ready" => d.refused
  BY <1>1, <1>3 DEF Shows, Done, Drawer
<1> HIDE DEF d
<1>6. Fits(d, others, version)
  BY <1>1, <1>2, <1>4, <1>5 DEF Fits, WaitsFor, IsOwn
<1>7. IsBehind \/ IsCurrent(d)
  <2>1. CASE ~good
    BY <1>5, <2>1 DEF IsCurrent
  <2>2. CASE good /\ drawer.restarted
    BY <1>5, <2>2 DEF IsCurrent
  <2>3. CASE good /\ ~drawer.restarted /\ ~IsBehind
    <3>1. drawer.source \in Nat /\ drawer.overview.revision \in Nat
      BY <1>1, DetailsAssumption DEF Drawer, Row, State
    <3>2. drawer.source <= drawer.overview.revision
      BY <1>1, <1>2, <2>3 DEF WaitsFor
    <3>3. drawer.source = drawer.overview.revision
      BY <1>3, <2>3, <3>1, <3>2 DEF IsBehind
    <3>4. c.version >= drawer.overview.version
      BY <1>1, <1>2, <2>3, <3>3 DEF WaitsFor
    <3> QED
      BY <1>5, <2>3, <3>4 DEF IsCurrent
  <2> QED
    BY <2>1, <2>2, <2>3
<1>8. CASE Ask(d, ~IsBehind, attempt, online, others)
  <2>1. others \in SUBSET requests /\ IsResting(d, online)
    BY <1>3 DEF IsResting
  <2>2. UNCHANGED <<engineRows, shownRows>>
    BY DEF Answer
  <2> HIDE DEF others
  <2> QED
    BY <1>1, <1>4, <1>5, <1>6, <1>8, <2>1, <2>2, AskedInv
<1>9. CASE ~Ask(d, ~IsBehind, attempt, online, others)
  <2>1. ~IsBehind /\ drawer' = d /\ requests' = others
    BY <1>9 DEF Answer, d
  <2>2. UNCHANGED <<version, revision, listed, attempt, online>>
    BY DEF Answer, engineRows, shownRows
  <2>3. IsResting(d, online) /\ IsCurrent(d)
    BY <1>3, <1>7, <2>1 DEF IsResting
  <2>4. others \subseteq Request /\ \A x, y \in others : x.id = y.id => x = y
    BY <1>1
  <2> HIDE DEF others
  <2> QED
    BY <1>1, <1>4, <1>5, <1>6, <2>1, <2>2, <2>3, <2>4 DEF DetailsInv, DetailsTypeOK, RowsAreOld,
       Fits, IsResting, IsCurrent, WaitsFor, IsOwn
<1> QED
  BY <1>8, <1>9

LEMMA IgnoreInv == ASSUME DetailsInv, NEW c \in requests, IgnoreAnswer(c) PROVE DetailsInv'
<1>1. /\ requests' = requests \ {c}
      /\ UNCHANGED <<version, revision, listed, attempt, online, drawer>>
  BY DEF IgnoreAnswer, engineRows, shownRows
<1>2. requests' \subseteq Request /\ \A x, y \in requests' : x.id = y.id => x = y
  BY <1>1 DEF DetailsInv, DetailsTypeOK
<1>3. drawer # NoDrawer => WaitsFor(drawer, requests')
  <2> SUFFICES ASSUME drawer # NoDrawer, drawer.pending # 0 PROVE WaitsFor(drawer, requests')
    BY DEF WaitsFor
  <2>1. WaitsFor(drawer, requests) /\ drawer.attempt = attempt
    BY DEF DetailsInv, Fits
  <2>2. \A x \in requests : x.id = drawer.pending => x # c
    BY <2>1 DEF IgnoreAnswer, IsExpected, WaitsFor
  <2> QED
    BY <1>1, <2>1, <2>2 DEF WaitsFor
<1> QED
  BY <1>1, <1>2, <1>3 DEF DetailsInv, DetailsTypeOK, RowsAreOld, Fits, IsResting, IsCurrent,
     WaitsFor, IsOwn

LEMMA DetailsStepInv == ASSUME DetailsInv, [DetailsNext]_detailsVars PROVE DetailsInv'
<1>1. ASSUME NEW t \in Download, TaskChanges(t) \/ StoreForgets(t) \/ StoreLists(t)
      PROVE DetailsInv'
  BY <1>1, StoreInv
<1>2. ASSUME NEW t \in Download, OpenDetails(t) PROVE DetailsInv'
  BY <1>2, OpenInv
<1>3. CASE CloseDetails
  BY <1>3, CloseInv
<1>4. CASE RetryDetails
  BY <1>4, RetryInv
<1>5. CASE IntervalElapses
  BY <1>5, IntervalInv
<1>6. ASSUME NEW visible \in SUBSET Download, NEW s \in Attempt, NEW ok \in BOOLEAN,
             NEW focus \in BOOLEAN, ShowSnapshot(visible, s, ok, focus)
      PROVE DetailsInv'
  BY <1>6, ShowInv
<1>7. ASSUME NEW c \in requests, EngineReads(c) \/ IgnoreAnswer(c) PROVE DetailsInv'
  BY <1>7, ReadInv, IgnoreInv
<1>8. ASSUME NEW c \in requests, NEW good \in BOOLEAN, Answer(c, good) PROVE DetailsInv'
  BY <1>8, AnswerInv
<1>9. CASE UNCHANGED detailsVars
  BY <1>9 DEF detailsVars, DetailsInv, DetailsTypeOK, RowsAreOld, Fits, IsResting, IsCurrent,
     WaitsFor, IsOwn
<1> QED
  BY <1>1, <1>2, <1>3, <1>4, <1>5, <1>6, <1>7, <1>8, <1>9 DEF DetailsNext

\* The drawer and the requests under way always fit together.
THEOREM DetailsInvariant == DetailsSpec => []DetailsInv
<1>1. DetailsInit => DetailsInv
  BY DetailsInitInv
<1>2. DetailsInv /\ [DetailsNext]_detailsVars => DetailsInv'
  BY DetailsStepInv
<1> QED
  BY <1>1, <1>2, PTL DEF DetailsSpec

\* The state of the drawer has its types.
THEOREM DetailsTypeCorrect == DetailsSpec => []DetailsTypeOK
<1>1. DetailsInv => DetailsTypeOK
  BY DEF DetailsInv
<1> QED
  BY <1>1, DetailsInvariant, PTL

\* Details in the drawer are those of its task and session, and as new as its
\* row once nothing is under way, apart from the refreshes put off or refused
\* and the rows that count from 1 again.
THEOREM DrawerIsCurrent == DetailsSpec => []DetailsAreCurrent
<1>1. DetailsInv => DetailsAreCurrent
  BY DetailsInvSuffices
<1> QED
  BY <1>1, DetailsInvariant, PTL

\* A refresh that was put off is made up by no answer: the branch of
\* set_task_details_result that looks at refresh_coalesced is never taken.
THEOREM PutOffIsNotMadeUp ==
  DetailsSpec => [](drawer # NoDrawer /\ drawer.coalesced => drawer.pending = 0)
<1>1. DetailsInv => (drawer # NoDrawer /\ drawer.coalesced => drawer.pending = 0)
  BY DEF DetailsInv, Fits
<1> QED
  BY <1>1, DetailsInvariant, PTL

-----------------------------------------------------------------------------
(***************************************************************************)
(* The launch queue.  The inductive invariant says where an item is: with   *)
(* its forwarder while its request is not handled; from then on in at most  *)
(* one of the shell's hands, or in the dialog, once; and in one of them if  *)
(* its forwarder heard "ok" and the desktop still runs.                     *)
(***************************************************************************)
AllItems == UNION {Items(launch[f]) : f \in Forwarder}
InHand   == InChannel \cup Items(waiting) \cup dropped

\* Requests reach the channel once each, and their items leave it for good.
ChannelOK ==
  /\ \A i \in DOMAIN channel : channel[i] \in {launch[f] : f \in Forwarder}
  /\ \A i, j \in DOMAIN channel : i # j => Items(channel[i]) \cap Items(channel[j]) = {}
  /\ InChannel \cap Items(waiting) = {}

\* What waits is no more than the cap, and a cap of different items.
WaitingOK ==
  /\ Distinct(waiting)
  /\ Count(waiting) <= MaxItems
  /\ Items(waiting) \subseteq AllItems

HandsOK ==
  /\ dropped \cap (InChannel \cup Items(waiting)) = {}
  /\ \A x \in Item : opened[x] \in {0, 1}
  /\ \A x \in Item : x \in InHand => opened[x] = 0

DroppedOK == dropped # {} => Cardinality(AllItems) > MaxItems

\* A request that serve has not handled is nowhere in the shell.
UnhandledOK ==
  /\ \A f \in wire : forward[f] \in {"sent", "failed"}
  /\ \A f \in Forwarder : forward[f] = "idle" \/ f \in wire =>
       \A x \in Items(launch[f]) : x \notin InHand /\ opened[x] = 0

AnsweredOK ==
  up => \A f \in Forwarder : forward[f] = "ok" =>
          \A x \in Items(launch[f]) : x \in InHand \/ opened[x] = 1

LaunchInv ==
  /\ LaunchTypeOK
  /\ ChannelOK /\ WaitingOK /\ HandsOK /\ DroppedOK /\ UnhandledOK /\ AnsweredOK

-----------------------------------------------------------------------------
(* Sequences of items *)

LEMMA Joined ==
  ASSUME NEW s \in Seq(Item), NEW t \in Seq(Item)
  PROVE  /\ s \o t \in Seq(Item) /\ Len(s \o t) = Len(s) + Len(t)
         /\ ToSet(s \o t) = ToSet(s) \cup ToSet(t)
         /\ NoneTwice(s) /\ NoneTwice(t) /\ ToSet(s) \cap ToSet(t) = {} => NoneTwice(s \o t)
<1> DEFINE u == s \o t
<1>1. /\ u \in Seq(Item) /\ Len(u) = Len(s) + Len(t)
      /\ DOMAIN u = 1 .. (Len(s) + Len(t)) /\ DOMAIN s = 1 .. Len(s) /\ DOMAIN t = 1 .. Len(t)
      /\ Len(s) \in Nat /\ Len(t) \in Nat
  OBVIOUS
<1>2. /\ \A i \in DOMAIN s : i \in DOMAIN u /\ u[i] = s[i]
      /\ \A i \in DOMAIN t : Len(s) + i \in DOMAIN u /\ u[Len(s) + i] = t[i]
  <2>1. \A i \in 1 .. Len(s) : u[i] = s[i]
    OBVIOUS
  <2>2. ASSUME NEW i \in 1 .. Len(t)
        PROVE  u[Len(s) + i] = t[i]
    OBVIOUS
  <2> HIDE DEF u
  <2>3. QED
    BY <1>1, <2>1, <2>2
<1>3. \A i \in DOMAIN u : i \in DOMAIN s \/ \E j \in DOMAIN t : i = Len(s) + j
  <2> HIDE DEF u
  <2>1. ASSUME NEW i \in DOMAIN u, i \notin DOMAIN s
        PROVE  i - Len(s) \in DOMAIN t /\ i = Len(s) + (i - Len(s))
    BY <1>1, <2>1
  <2>2. QED
    BY <2>1
<1> HIDE DEF u
<1>4. ToSet(u) = ToSet(s) \cup ToSet(t)
  <2>1. ASSUME NEW x \in ToSet(u)
        PROVE  x \in ToSet(s) \cup ToSet(t)
    BY <1>2, <1>3 DEF ToSet
  <2>2. ASSUME NEW x \in ToSet(s)
        PROVE  x \in ToSet(u)
    <3>1. PICK i \in DOMAIN s : x = s[i]
      BY DEF ToSet
    <3>2. QED
      BY <1>2, <3>1 DEF ToSet
  <2>3. ASSUME NEW x \in ToSet(t)
        PROVE  x \in ToSet(u)
    <3>1. PICK i \in DOMAIN t : x = t[i]
      BY DEF ToSet
    <3>2. u[Len(s) + i] = x /\ Len(s) + i \in DOMAIN u
      BY <1>2, <3>1
    <3>3. QED
      BY <3>2 DEF ToSet
  <2>4. QED
    BY <2>1, <2>2, <2>3
<1>5. ASSUME NoneTwice(s), NoneTwice(t), ToSet(s) \cap ToSet(t) = {}
      PROVE  NoneTwice(u)
  <2>1. \A i \in DOMAIN s, j \in DOMAIN t : s[i] # t[j]
    BY <1>5 DEF ToSet
  <2>2. ASSUME NEW i \in DOMAIN u, NEW j \in DOMAIN u, u[i] = u[j]
        PROVE  i = j
    <3>1. CASE i \in DOMAIN s /\ j \in DOMAIN s
      BY <1>2, <1>5, <2>2, <3>1 DEF NoneTwice
    <3>2. CASE i \in DOMAIN s /\ \E b \in DOMAIN t : j = Len(s) + b
      BY <1>2, <2>1, <2>2, <3>2
    <3>3. CASE j \in DOMAIN s /\ \E a \in DOMAIN t : i = Len(s) + a
      BY <1>2, <2>1, <2>2, <3>3
    <3>4. CASE (\E a \in DOMAIN t : i = Len(s) + a) /\ (\E b \in DOMAIN t : j = Len(s) + b)
      <4>1. PICK a \in DOMAIN t, b \in DOMAIN t : i = Len(s) + a /\ j = Len(s) + b
        BY <3>4
      <4>2. t[a] = t[b]
        BY <1>2, <2>2, <4>1
      <4>3. a = b
        BY <1>5, <4>2 DEF NoneTwice
      <4>4. QED
        BY <4>1, <4>3
    <3>5. QED
      BY <1>3, <3>1, <3>2, <3>3, <3>4
  <2>3. QED
    BY <2>2 DEF NoneTwice
<1>6. QED
  BY <1>1, <1>4, <1>5 DEF u

\* A stretch of a sequence without repetitions.
LEMMA Stretch ==
  ASSUME NEW s \in Seq(Item), NEW m \in 1 .. (Len(s) + 1), NEW n \in 0 .. Len(s), m <= n + 1
  PROVE  /\ SubSeq(s, m, n) \in Seq(Item) /\ Len(SubSeq(s, m, n)) = n - m + 1
         /\ ToSet(SubSeq(s, m, n)) = {s[i] : i \in m .. n}
         /\ NoneTwice(s) => NoneTwice(SubSeq(s, m, n))
<1> DEFINE u == SubSeq(s, m, n)
<1>1. Len(s) \in Nat /\ DOMAIN s = 1 .. Len(s) /\ m \in Nat /\ n \in Nat
  OBVIOUS
<1>2. u \in Seq(Item) /\ Len(u) = n - m + 1 /\ DOMAIN u = 1 .. (n - m + 1)
  BY <1>1
<1>3. \A i \in 1 .. (n - m + 1) : u[i] = s[m + i - 1]
  BY <1>1
<1> HIDE DEF u
<1>4. ToSet(u) = {s[i] : i \in m .. n}
  <2>1. ASSUME NEW x \in ToSet(u)
        PROVE  x \in {s[i] : i \in m .. n}
    <3>1. PICK i \in 1 .. (n - m + 1) : x = u[i]
      BY <1>2 DEF ToSet
    <3>2. x = s[m + i - 1] /\ m + i - 1 \in m .. n
      BY <1>1, <1>3, <3>1
    <3>3. QED
      BY <3>2
  <2>2. ASSUME NEW i \in m .. n
        PROVE  s[i] \in ToSet(u)
    <3>1. i - m + 1 \in 1 .. (n - m + 1) /\ m + (i - m + 1) - 1 = i
      BY <1>1
    <3>2. u[i - m + 1] = s[i] /\ i - m + 1 \in DOMAIN u
      BY <1>2, <1>3, <3>1
    <3>3. QED
      BY <3>2 DEF ToSet
  <2>3. QED
    BY <2>1, <2>2
<1>5. ASSUME NoneTwice(s)
      PROVE  NoneTwice(u)
  <2>1. ASSUME NEW i \in DOMAIN u, NEW j \in DOMAIN u, u[i] = u[j]
        PROVE  i = j
    <3>1. /\ i \in 1 .. (n - m + 1) /\ j \in 1 .. (n - m + 1)
          /\ m + i - 1 \in DOMAIN s /\ m + j - 1 \in DOMAIN s
      BY <1>1, <1>2
    <3>2. s[m + i - 1] = s[m + j - 1]
      BY <1>3, <2>1, <3>1
    <3>3. m + i - 1 = m + j - 1
      BY <1>5, <3>1, <3>2 DEF NoneTwice
    <3>4. QED
      BY <1>1, <3>1, <3>3
  <2>2. QED
    BY <2>1 DEF NoneTwice
<1>6. QED
  BY <1>2, <1>4, <1>5 DEF u

\* The items taken under a budget: all of them if it allows.
LEMMA LeadingFacts ==
  ASSUME NEW s \in Seq(Item), NEW n \in Nat
  PROVE  /\ Leading(s, n) \in Seq(Item) /\ Len(Leading(s, n)) <= n
         /\ ToSet(Leading(s, n)) \subseteq ToSet(s)
         /\ Len(Leading(s, n)) < n => ToSet(Leading(s, n)) = ToSet(s)
         /\ NoneTwice(s) => NoneTwice(Leading(s, n))
<1> DEFINE k == IF n < Len(s) THEN n ELSE Len(s)
<1>1. /\ k \in Nat /\ Len(s) \in Nat
      /\ k <= Len(s) /\ k <= n /\ (k < n => k = Len(s))
  OBVIOUS
<1>2. Leading(s, n) = SubSeq(s, 1, k)
  BY DEF Leading
<1> HIDE DEF k
<1>3. 1 \in 1 .. (Len(s) + 1) /\ k \in 0 .. Len(s) /\ 1 <= k + 1
  BY <1>1
<1>4. /\ SubSeq(s, 1, k) \in Seq(Item) /\ Len(SubSeq(s, 1, k)) = k - 1 + 1
      /\ ToSet(SubSeq(s, 1, k)) = {s[i] : i \in 1 .. k}
      /\ NoneTwice(s) => NoneTwice(SubSeq(s, 1, k))
  BY <1>3, Stretch
<1>5. k - 1 + 1 = k
  BY <1>1
<1>6. Len(Leading(s, n)) = k
  BY <1>2, <1>4, <1>5
<1>7. ToSet(Leading(s, n)) = {s[i] : i \in 1 .. k}
  BY <1>2, <1>4
<1>8. ToSet(s) = {s[i] : i \in 1 .. Len(s)}
  BY DEF ToSet
<1>9. \A i \in 1 .. k : i \in 1 .. Len(s)
  BY <1>1
<1>10. ToSet(Leading(s, n)) \subseteq ToSet(s)
  BY <1>7, <1>8, <1>9
<1>11. k < n => ToSet(Leading(s, n)) = ToSet(s)
  BY <1>1, <1>7, <1>8
<1>12. Leading(s, n) \in Seq(Item) /\ (NoneTwice(s) => NoneTwice(Leading(s, n)))
  BY <1>2, <1>4
<1>13. QED
  BY <1>1, <1>6, <1>10, <1>11, <1>12

\* Run is a prefix, and Rest is what comes after it.
LEMMA RunIsPrefix ==
  ASSUME NEW s \in Seq(Item)
  PROVE  /\ Cardinality(Run(s)) \in 0 .. Len(s)
         /\ Run(s) = 1 .. Cardinality(Run(s))
<1> DEFINE k == Cardinality(Run(s))
<1>1. Len(s) \in Nat /\ DOMAIN s = 1 .. Len(s)
  OBVIOUS
<1>2. Run(s) \subseteq 1 .. Len(s)
  BY <1>1 DEF Run
<1>3. IsFiniteSet(1 .. Len(s)) /\ Cardinality(1 .. Len(s)) = Len(s)
  <2>1. 1 \in Int /\ Len(s) \in Int /\ (IF 1 > Len(s) THEN 0 ELSE Len(s) - 1 + 1) = Len(s)
    BY <1>1
  <2>2. QED
    BY <2>1, FS_Interval
<1>4. IsFiniteSet(Run(s)) /\ k \in Nat /\ k <= Len(s)
  BY <1>2, <1>3, FS_Subset, FS_CardinalityType
<1>5. IsFiniteSet(1 .. k) /\ Cardinality(1 .. k) = k
  <2> HIDE DEF k
  <2>1. 1 \in Int /\ k \in Int /\ (IF 1 > k THEN 0 ELSE k - 1 + 1) = k
    BY <1>4
  <2>2. QED
    BY <2>1, FS_Interval
<1>6. ASSUME NEW j \in Run(s)
      PROVE  j <= k
  <2>1. j \in Nat /\ j > 0 /\ j <= Len(s)
    BY <1>1, <1>2
  <2>2. ASSUME NEW i \in 1 .. j
        PROVE  i \in Run(s)
    <3>1. i \in 1 .. Len(s) /\ \A h \in 1 .. i : h \in 1 .. j
      BY <1>1, <2>1
    <3>2. QED
      BY <1>1, <3>1 DEF Run
  <2>3. 1 .. j \subseteq Run(s)
    BY <2>2
  <2>4. Cardinality(1 .. j) = j
    <3>1. 1 \in Int /\ j \in Int /\ (IF 1 > j THEN 0 ELSE j - 1 + 1) = j
      BY <2>1
    <3>2. QED
      BY <3>1, FS_Interval
  <2>5. Cardinality(1 .. j) <= k
    BY <1>4, <2>3, FS_Subset
  <2>6. QED
    BY <2>4, <2>5
<1>7. Run(s) \subseteq 1 .. k
  <2> HIDE DEF k
  <2>1. QED
    BY <1>1, <1>2, <1>4, <1>6
<1>8. Run(s) = 1 .. k
  BY <1>5, <1>7, FS_Subset
<1>9. k \in 0 .. Len(s)
  <2> HIDE DEF k
  <2>1. QED
    BY <1>1, <1>4
<1>10. QED
  BY <1>8, <1>9

LEMMA RestFacts ==
  ASSUME NEW s \in Seq(Item)
  PROVE  /\ Rest(s) \in Seq(Item) /\ Len(Rest(s)) <= Len(s)
         /\ ToSet(s) = ToSet(Rest(s)) \cup {s[i] : i \in Run(s)}
         /\ NoneTwice(s) =>
              NoneTwice(Rest(s)) /\ ToSet(Rest(s)) \cap {s[i] : i \in Run(s)} = {}
<1> DEFINE k == Cardinality(Run(s))
<1>1. k \in 0 .. Len(s) /\ Run(s) = 1 .. k /\ Rest(s) = SubSeq(s, k + 1, Len(s))
  BY RunIsPrefix DEF Rest
<1> HIDE DEF k
<1>2. Len(s) \in Nat /\ k \in Nat /\ k <= Len(s)
  BY <1>1
<1>3. k + 1 \in 1 .. (Len(s) + 1) /\ Len(s) \in 0 .. Len(s) /\ k + 1 <= Len(s) + 1
  BY <1>2
<1>4. /\ Rest(s) \in Seq(Item) /\ Len(Rest(s)) = Len(s) - (k + 1) + 1
      /\ ToSet(Rest(s)) = {s[i] : i \in (k + 1) .. Len(s)}
      /\ NoneTwice(s) => NoneTwice(Rest(s))
  BY <1>1, <1>3, Stretch
<1>5. Len(s) - (k + 1) + 1 <= Len(s)
  BY <1>2
<1>6. Len(Rest(s)) <= Len(s)
  BY <1>4, <1>5
<1>7. \A i : i \in 1 .. Len(s) <=> i \in 1 .. k \/ i \in (k + 1) .. Len(s)
  BY <1>2
<1>8. ToSet(s) = {s[i] : i \in 1 .. Len(s)}
  BY DEF ToSet
<1>9. ToSet(s) = ToSet(Rest(s)) \cup {s[i] : i \in Run(s)}
  BY <1>1, <1>4, <1>7, <1>8
<1>10. ASSUME NoneTwice(s), NEW i \in (k + 1) .. Len(s), NEW j \in 1 .. k
       PROVE  s[i] # s[j]
  <2>1. i \in 1 .. Len(s) /\ j \in 1 .. Len(s) /\ i # j
    BY <1>2
  <2>2. QED
    BY <1>10, <2>1 DEF NoneTwice
<1>11. NoneTwice(s) => ToSet(Rest(s)) \cap {s[i] : i \in Run(s)} = {}
  BY <1>1, <1>4, <1>10
<1>12. QED
  BY <1>4, <1>6, <1>9, <1>11

(* Counting the items of a request *)

LEMMA SequenceCount ==
  ASSUME NEW s \in Seq(Item)
  PROVE  /\ IsFiniteSet(ToSet(s))
         /\ NoneTwice(s) => Cardinality(ToSet(s)) = Len(s)
<1>1. Len(s) \in Nat /\ DOMAIN s = 1 .. Len(s) /\ s \in [1 .. Len(s) -> ToSet(s)]
  BY DEF ToSet
<1>2. IsFiniteSet(1 .. Len(s))
  BY <1>1, FS_Interval
<1>3. s \in Surjection(1 .. Len(s), ToSet(s))
  BY <1>1 DEF Surjection, ToSet
<1>4. IsFiniteSet(ToSet(s))
  BY <1>2, <1>3, FS_Surjection
<1>5. ASSUME NoneTwice(s)
      PROVE  Cardinality(ToSet(s)) = Len(s)
  <2>1. s \in Bijection(1 .. Len(s), ToSet(s))
    BY <1>1, <1>3, <1>5 DEF Bijection, Injection, IsInjective, NoneTwice
  <2>2. QED
    BY <1>1, <2>1, FS_CountingElements DEF ExistsBijection
<1>6. QED
  BY <1>4, <1>5

LEMMA CountIsCardinality ==
  ASSUME NEW r \in LaunchRequest
  PROVE  /\ IsFiniteSet(Items(r)) /\ Count(r) \in Nat
         /\ Distinct(r) => Cardinality(Items(r)) = Count(r)
<1> DEFINE F == ToSet(r.files)
           M == ToSet(r.magnets)
           D == ToSet(r.downloads)
<1>1. r.files \in Seq(Item) /\ r.magnets \in Seq(Item) /\ r.downloads \in Seq(Item)
  BY DEF LaunchRequest
<1>2. IsFiniteSet(F) /\ IsFiniteSet(M) /\ IsFiniteSet(D)
  BY <1>1, SequenceCount
<1>3. ASSUME Distinct(r)
      PROVE  /\ Cardinality(F) = Len(r.files) /\ Cardinality(M) = Len(r.magnets)
             /\ Cardinality(D) = Len(r.downloads)
             /\ F \cap M = {} /\ (F \cup M) \cap D = {}
  <2>1. /\ NoneTwice(r.files) /\ NoneTwice(r.magnets) /\ NoneTwice(r.downloads)
        /\ F \cap M = {} /\ (F \cup M) \cap D = {}
    BY <1>3 DEF Distinct
  <2>2. /\ Cardinality(F) = Len(r.files) /\ Cardinality(M) = Len(r.magnets)
        /\ Cardinality(D) = Len(r.downloads)
    BY <1>1, <2>1, SequenceCount
  <2>3. QED
    BY <2>1, <2>2
<1>4. Len(r.files) \in Nat /\ Len(r.magnets) \in Nat /\ Len(r.downloads) \in Nat
  BY <1>1
<1>5. Count(r) \in Nat
  <2>1. \A a, b, c \in Nat : a + b + c \in Nat
    OBVIOUS
  <2>2. Len(r.files) + Len(r.magnets) + Len(r.downloads) \in Nat
    BY <1>4, <2>1
  <2>3. QED
    BY <2>2 DEF Count
<1>6. Items(r) = (F \cup M) \cup D
  BY DEF Items
<1> HIDE DEF F, M, D
<1>7. /\ IsFiniteSet(F \cup M) /\ IsFiniteSet((F \cup M) \cup D)
      /\ Cardinality(F \cup M) = Cardinality(F) + Cardinality(M) - Cardinality(F \cap M)
      /\ Cardinality((F \cup M) \cup D) =
           Cardinality(F \cup M) + Cardinality(D) - Cardinality((F \cup M) \cap D)
  BY <1>2, FS_Union
<1>8. ASSUME Distinct(r)
      PROVE  Cardinality(Items(r)) = Count(r)
  <2>1. Cardinality(F \cap M) = 0 /\ Cardinality((F \cup M) \cap D) = 0
    BY <1>3, <1>8, FS_EmptySet
  <2>2. Cardinality(Items(r)) = Len(r.files) + Len(r.magnets) - 0 + Len(r.downloads) - 0
    BY <1>3, <1>6, <1>7, <1>8, <2>1
  <2>3. QED
    BY <1>4, <2>2 DEF Count
<1>9. QED
  BY <1>5, <1>6, <1>7, <1>8

(* What poll_instance_requests makes of a request *)

\* Up to the budget, the items of s join a queue that has none of them.
LEMMA Extended ==
  ASSUME NEW t \in Seq(Item), NEW s \in Seq(Item), NEW n \in Nat
  PROVE  LET u == t \o Leading(s, n)
         IN  /\ u \in Seq(Item) /\ Len(t) <= Len(u) /\ Len(u) <= Len(t) + n
             /\ ToSet(t) \subseteq ToSet(u) /\ ToSet(u) \subseteq ToSet(t) \cup ToSet(s)
             /\ ToSet(s) \subseteq ToSet(u) \/ Len(u) = Len(t) + n
             /\ NoneTwice(t) /\ NoneTwice(s) /\ ToSet(t) \cap ToSet(s) = {} => NoneTwice(u)
<1> DEFINE l == Leading(s, n)
           u == t \o l
<1>1. /\ l \in Seq(Item) /\ Len(l) <= n
      /\ ToSet(l) \subseteq ToSet(s)
      /\ Len(l) < n => ToSet(l) = ToSet(s)
      /\ NoneTwice(s) => NoneTwice(l)
  BY LeadingFacts
<1> HIDE DEF l
<1>3. /\ u \in Seq(Item) /\ Len(u) = Len(t) + Len(l)
      /\ ToSet(u) = ToSet(t) \cup ToSet(l)
      /\ NoneTwice(t) /\ NoneTwice(l) /\ ToSet(t) \cap ToSet(l) = {} => NoneTwice(u)
  BY <1>1, Joined
<1> HIDE DEF u
<1>4. Len(l) \in Nat /\ Len(t) \in Nat
  BY <1>1
<1>5. Len(l) <= n /\ Len(u) = Len(t) + Len(l)
  BY <1>1, <1>3
<1>6. Len(t) <= Len(u) /\ Len(u) <= Len(t) + n /\ (Len(l) < n \/ Len(u) = Len(t) + n)
  BY <1>4, <1>5
<1>7. /\ u \in Seq(Item) /\ Len(t) <= Len(u) /\ Len(u) <= Len(t) + n
      /\ ToSet(t) \subseteq ToSet(u) /\ ToSet(u) \subseteq ToSet(t) \cup ToSet(s)
      /\ ToSet(s) \subseteq ToSet(u) \/ Len(u) = Len(t) + n
      /\ NoneTwice(t) /\ NoneTwice(s) /\ ToSet(t) \cap ToSet(s) = {} => NoneTwice(u)
  BY <1>1, <1>3, <1>6
<1>8. QED
  BY <1>7 DEF u, l

\* u is w with as many of the items S as the cap allows.
Admitted(w, u, S) ==
  /\ u \in LaunchRequest /\ Distinct(u)
  /\ Count(w) <= Count(u) /\ Count(u) <= MaxItems
  /\ Items(w) \subseteq Items(u) /\ Items(u) \subseteq Items(w) \cup S
  /\ S \subseteq Items(u) \/ Count(u) = MaxItems

LEMMA BudgetFacts ==
  ASSUME NEW w \in LaunchRequest, Count(w) <= MaxItems
  PROVE  Budget(w) \in Nat /\ Count(w) + Budget(w) = MaxItems
<1>1. Count(w) \in Nat /\ MaxItems \in Nat
  BY CountIsCardinality, MaxItemsIsPositive
<1> DEFINE c == Count(w)
<1>2. Budget(w) = IF c < MaxItems THEN MaxItems - c ELSE 0
  BY DEF Budget
<1> HIDE DEF c
<1>3. c \in Nat /\ c <= MaxItems
  BY <1>1 DEF c
<1>4. Budget(w) \in Nat /\ c + Budget(w) = MaxItems
  BY <1>1, <1>2, <1>3
<1>5. QED
  BY <1>4 DEF c

LEMMA AdmitFiles ==
  ASSUME NEW w \in LaunchRequest, Distinct(w), Count(w) <= MaxItems,
         NEW s \in Seq(Item), NoneTwice(s), ToSet(s) \cap Items(w) = {}
  PROVE  Admitted(w, [w EXCEPT !.files = @ \o Leading(s, Budget(w))], ToSet(s))
<1> DEFINE q == w.files \o Leading(s, Budget(w))
           u == [w EXCEPT !.files = q]
<1>1. /\ w.files \in Seq(Item) /\ w.magnets \in Seq(Item) /\ w.downloads \in Seq(Item)
      /\ u.files = q /\ u.magnets = w.magnets /\ u.downloads = w.downloads
  BY DEF LaunchRequest
<1>2. Budget(w) \in Nat /\ Count(w) + Budget(w) = MaxItems
  BY BudgetFacts
<1>3. NoneTwice(w.files) /\ ToSet(w.files) \cap ToSet(s) = {}
  BY DEF Distinct, Items
<1>4. /\ q \in Seq(Item) /\ Len(w.files) <= Len(q) /\ Len(q) <= Len(w.files) + Budget(w)
      /\ ToSet(w.files) \subseteq ToSet(q) /\ ToSet(q) \subseteq ToSet(w.files) \cup ToSet(s)
      /\ ToSet(s) \subseteq ToSet(q) \/ Len(q) = Len(w.files) + Budget(w)
      /\ NoneTwice(q)
  BY <1>1, <1>2, <1>3, Extended
<1> HIDE DEF q
<1>5. u \in LaunchRequest
  <2>1. q \in Seq(Item)
    BY <1>4
  <2>2. QED
    BY <2>1 DEF LaunchRequest
<1> HIDE DEF u
<1>6. Distinct(u)
  BY <1>1, <1>4 DEF Distinct, Items
<1>7. /\ Items(w) \subseteq Items(u) /\ Items(u) \subseteq Items(w) \cup ToSet(s)
      /\ ToSet(s) \subseteq ToSet(q) => ToSet(s) \subseteq Items(u)
  BY <1>1, <1>4 DEF Items
<1>8. /\ Count(w) = Len(w.files) + Len(w.magnets) + Len(w.downloads)
      /\ Count(u) = Len(q) + Len(w.magnets) + Len(w.downloads)
  BY <1>1 DEF Count
<1>9. /\ Len(w.files) \in Nat /\ Len(w.magnets) \in Nat /\ Len(w.downloads) \in Nat
      /\ Len(q) \in Nat
  BY <1>1, <1>4
<1>10. /\ Count(w) <= Count(u) /\ Count(u) <= MaxItems
       /\ Len(q) = Len(w.files) + Budget(w) => Count(u) = MaxItems
  <2>1. PICK a \in Nat, b \in Nat, c \in Nat, v \in Nat, n \in Nat :
          /\ a = Len(w.files) /\ b = Len(w.magnets) /\ c = Len(w.downloads)
          /\ v = Len(q) /\ n = Budget(w)
    BY <1>2, <1>9
  <2>2. /\ Count(w) = a + b + c /\ Count(u) = v + b + c /\ Count(w) + n = MaxItems
        /\ a <= v /\ v <= a + n
    BY <1>2, <1>4, <1>8, <2>1
  <2>3. /\ a + b + c <= v + b + c /\ v + b + c <= a + b + c + n
        /\ v = a + n => v + b + c = a + b + c + n
    BY <2>2
  <2>4. QED
    BY <2>1, <2>2, <2>3
<1>11. Admitted(w, u, ToSet(s))
  BY <1>4, <1>5, <1>6, <1>7, <1>10 DEF Admitted
<1>12. QED
  BY <1>11 DEF u, q

LEMMA AdmitMagnets ==
  ASSUME NEW w \in LaunchRequest, Distinct(w), Count(w) <= MaxItems,
         NEW s \in Seq(Item), NoneTwice(s), ToSet(s) \cap Items(w) = {}
  PROVE  Admitted(w, [w EXCEPT !.magnets = @ \o Leading(s, Budget(w))], ToSet(s))
<1> DEFINE q == w.magnets \o Leading(s, Budget(w))
           u == [w EXCEPT !.magnets = q]
<1>1. /\ w.files \in Seq(Item) /\ w.magnets \in Seq(Item) /\ w.downloads \in Seq(Item)
      /\ u.magnets = q /\ u.files = w.files /\ u.downloads = w.downloads
  BY DEF LaunchRequest
<1>2. Budget(w) \in Nat /\ Count(w) + Budget(w) = MaxItems
  BY BudgetFacts
<1>3. NoneTwice(w.magnets) /\ ToSet(w.magnets) \cap ToSet(s) = {}
  BY DEF Distinct, Items
<1>4. /\ q \in Seq(Item) /\ Len(w.magnets) <= Len(q) /\ Len(q) <= Len(w.magnets) + Budget(w)
      /\ ToSet(w.magnets) \subseteq ToSet(q) /\ ToSet(q) \subseteq ToSet(w.magnets) \cup ToSet(s)
      /\ ToSet(s) \subseteq ToSet(q) \/ Len(q) = Len(w.magnets) + Budget(w)
      /\ NoneTwice(q)
  BY <1>1, <1>2, <1>3, Extended
<1> HIDE DEF q
<1>5. u \in LaunchRequest
  <2>1. q \in Seq(Item)
    BY <1>4
  <2>2. QED
    BY <2>1 DEF LaunchRequest
<1> HIDE DEF u
<1>6. Distinct(u)
  BY <1>1, <1>4 DEF Distinct, Items
<1>7. /\ Items(w) \subseteq Items(u) /\ Items(u) \subseteq Items(w) \cup ToSet(s)
      /\ ToSet(s) \subseteq ToSet(q) => ToSet(s) \subseteq Items(u)
  BY <1>1, <1>4 DEF Items
<1>8. /\ Count(w) = Len(w.files) + Len(w.magnets) + Len(w.downloads)
      /\ Count(u) = Len(w.files) + Len(q) + Len(w.downloads)
  BY <1>1 DEF Count
<1>9. /\ Len(w.files) \in Nat /\ Len(w.magnets) \in Nat /\ Len(w.downloads) \in Nat
      /\ Len(q) \in Nat
  BY <1>1, <1>4
<1>10. /\ Count(w) <= Count(u) /\ Count(u) <= MaxItems
       /\ Len(q) = Len(w.magnets) + Budget(w) => Count(u) = MaxItems
  <2>1. PICK a \in Nat, b \in Nat, c \in Nat, v \in Nat, n \in Nat :
          /\ a = Len(w.magnets) /\ b = Len(w.files) /\ c = Len(w.downloads)
          /\ v = Len(q) /\ n = Budget(w)
    BY <1>2, <1>9
  <2>2. /\ Count(w) = b + a + c /\ Count(u) = b + v + c /\ Count(w) + n = MaxItems
        /\ a <= v /\ v <= a + n
    BY <1>2, <1>4, <1>8, <2>1
  <2>3. /\ b + a + c <= b + v + c /\ b + v + c <= b + a + c + n
        /\ v = a + n => b + v + c = b + a + c + n
    BY <2>2
  <2>4. QED
    BY <2>1, <2>2, <2>3
<1>11. Admitted(w, u, ToSet(s))
  BY <1>4, <1>5, <1>6, <1>7, <1>10 DEF Admitted
<1>12. QED
  BY <1>11 DEF u, q

LEMMA AdmitDownloads ==
  ASSUME NEW w \in LaunchRequest, Distinct(w), Count(w) <= MaxItems,
         NEW s \in Seq(Item), NoneTwice(s), ToSet(s) \cap Items(w) = {}
  PROVE  Admitted(w, [w EXCEPT !.downloads = @ \o Leading(s, Budget(w))], ToSet(s))
<1> DEFINE q == w.downloads \o Leading(s, Budget(w))
           u == [w EXCEPT !.downloads = q]
<1>1. /\ w.files \in Seq(Item) /\ w.magnets \in Seq(Item) /\ w.downloads \in Seq(Item)
      /\ u.downloads = q /\ u.files = w.files /\ u.magnets = w.magnets
  BY DEF LaunchRequest
<1>2. Budget(w) \in Nat /\ Count(w) + Budget(w) = MaxItems
  BY BudgetFacts
<1>3. NoneTwice(w.downloads) /\ ToSet(w.downloads) \cap ToSet(s) = {}
  BY DEF Distinct, Items
<1>4. /\ q \in Seq(Item) /\ Len(w.downloads) <= Len(q) /\ Len(q) <= Len(w.downloads) + Budget(w)
      /\ ToSet(w.downloads) \subseteq ToSet(q) /\ ToSet(q) \subseteq ToSet(w.downloads) \cup ToSet(s)
      /\ ToSet(s) \subseteq ToSet(q) \/ Len(q) = Len(w.downloads) + Budget(w)
      /\ NoneTwice(q)
  BY <1>1, <1>2, <1>3, Extended
<1> HIDE DEF q
<1>5. u \in LaunchRequest
  <2>1. q \in Seq(Item)
    BY <1>4
  <2>2. QED
    BY <2>1 DEF LaunchRequest
<1> HIDE DEF u
<1>6. Distinct(u)
  BY <1>1, <1>4 DEF Distinct, Items
<1>7. /\ Items(w) \subseteq Items(u) /\ Items(u) \subseteq Items(w) \cup ToSet(s)
      /\ ToSet(s) \subseteq ToSet(q) => ToSet(s) \subseteq Items(u)
  BY <1>1, <1>4 DEF Items
<1>8. /\ Count(w) = Len(w.files) + Len(w.magnets) + Len(w.downloads)
      /\ Count(u) = Len(w.files) + Len(w.magnets) + Len(q)
  BY <1>1 DEF Count
<1>9. /\ Len(w.files) \in Nat /\ Len(w.magnets) \in Nat /\ Len(w.downloads) \in Nat
      /\ Len(q) \in Nat
  BY <1>1, <1>4
<1>10. /\ Count(w) <= Count(u) /\ Count(u) <= MaxItems
       /\ Len(q) = Len(w.downloads) + Budget(w) => Count(u) = MaxItems
  <2>1. PICK a \in Nat, b \in Nat, c \in Nat, v \in Nat, n \in Nat :
          /\ a = Len(w.downloads) /\ b = Len(w.files) /\ c = Len(w.magnets)
          /\ v = Len(q) /\ n = Budget(w)
    BY <1>2, <1>9
  <2>2. /\ Count(w) = b + c + a /\ Count(u) = b + c + v /\ Count(w) + n = MaxItems
        /\ a <= v /\ v <= a + n
    BY <1>2, <1>4, <1>8, <2>1
  <2>3. /\ b + c + a <= b + c + v /\ b + c + v <= b + c + a + n
        /\ v = a + n => b + c + v = b + c + a + n
    BY <2>2
  <2>4. QED
    BY <2>1, <2>2, <2>3
<1>11. Admitted(w, u, ToSet(s))
  BY <1>4, <1>5, <1>6, <1>7, <1>10 DEF Admitted
<1>12. QED
  BY <1>11 DEF u, q

\* One after the other: what of a request is not taken met a full queue.
LEMMA TwiceAdmitted ==
  ASSUME NEW w \in LaunchRequest, NEW u, NEW v, NEW S, NEW T,
         Admitted(w, u, S), Admitted(u, v, T)
  PROVE  Admitted(w, v, S \cup T)
<1>1. Count(w) \in Nat /\ Count(u) \in Nat /\ Count(v) \in Nat /\ MaxItems \in Nat
  BY CountIsCardinality, MaxItemsIsPositive DEF Admitted
<1>2. /\ Count(w) <= Count(u) /\ Count(u) <= Count(v) /\ Count(v) <= MaxItems
      /\ S \subseteq Items(u) \/ Count(u) = MaxItems
      /\ T \subseteq Items(v) \/ Count(v) = MaxItems
      /\ Items(w) \subseteq Items(u) /\ Items(u) \subseteq Items(w) \cup S
      /\ Items(u) \subseteq Items(v) /\ Items(v) \subseteq Items(u) \cup T
      /\ v \in LaunchRequest /\ Distinct(v)
  BY DEF Admitted
<1>3. Count(w) <= Count(v) /\ (Count(u) = MaxItems => Count(v) = MaxItems)
  BY <1>1, <1>2
<1>4. /\ Items(w) \subseteq Items(v) /\ Items(v) \subseteq Items(w) \cup (S \cup T)
      /\ S \cup T \subseteq Items(v) \/ Count(v) = MaxItems
  BY <1>2, <1>3
<1>5. QED
  BY <1>2, <1>3, <1>4 DEF Admitted

LEMMA AdmitFacts ==
  ASSUME NEW w \in LaunchRequest, Distinct(w), Count(w) <= MaxItems,
         NEW r \in LaunchRequest, Distinct(r), Items(w) \cap Items(r) = {}
  PROVE  Admitted(w, Admit(w, r), Items(r))
<1> DEFINE F == ToSet(r.files)
           M == ToSet(r.magnets)
           D == ToSet(r.downloads)
           f == [w EXCEPT !.files = @ \o Leading(r.files, Budget(w))]
           m == [f EXCEPT !.magnets = @ \o Leading(r.magnets, Budget(f))]
           d == [m EXCEPT !.downloads = @ \o Leading(r.downloads, Budget(m))]
<1>1. r.files \in Seq(Item) /\ r.magnets \in Seq(Item) /\ r.downloads \in Seq(Item)
  BY DEF LaunchRequest
<1>2. /\ NoneTwice(r.files) /\ NoneTwice(r.magnets) /\ NoneTwice(r.downloads)
      /\ F \cap M = {} /\ F \cap D = {} /\ M \cap D = {}
  BY DEF Distinct
<1>3. /\ Items(r) = (F \cup M) \cup D
      /\ F \cap Items(w) = {} /\ M \cap Items(w) = {} /\ D \cap Items(w) = {}
  BY DEF Items
<1>4. Admit(w, r) = d
  BY DEF Admit
<1>5. Admitted(w, f, F)
  BY <1>1, <1>2, <1>3, AdmitFiles
<1>6. /\ f \in LaunchRequest /\ Distinct(f) /\ Count(f) <= MaxItems
      /\ Items(f) \subseteq Items(w) \cup F
  BY <1>5 DEF Admitted
<1>7. M \cap Items(f) = {}
  <2> HIDE DEF f, F, M, D
  <2>1. QED
    BY <1>2, <1>3, <1>6
<1>8. Admitted(f, m, M)
  <2> HIDE DEF f
  <2>1. QED
    BY <1>1, <1>2, <1>6, <1>7, AdmitMagnets
<1>9. Admitted(w, m, F \cup M)
  BY <1>5, <1>8, TwiceAdmitted
<1>10. /\ m \in LaunchRequest /\ Distinct(m) /\ Count(m) <= MaxItems
       /\ Items(m) \subseteq Items(w) \cup (F \cup M)
  BY <1>9 DEF Admitted
<1>11. D \cap Items(m) = {}
  <2> HIDE DEF m, F, M, D
  <2>1. QED
    BY <1>2, <1>3, <1>10
<1>12. Admitted(m, d, D)
  <2> HIDE DEF m
  <2>1. QED
    BY <1>1, <1>2, <1>10, <1>11, AdmitDownloads
<1>13. Admitted(w, d, (F \cup M) \cup D)
  BY <1>9, <1>12, TwiceAdmitted
<1>14. QED
  BY <1>3, <1>4, <1>13

(* The requests of a behaviour, and the channel *)

LEMMA ItemsAreItems ==
  ASSUME NEW r \in LaunchRequest
  PROVE  Items(r) \subseteq Item
<1>1. \A s \in Seq(Item) : ToSet(s) \subseteq Item
  BY DEF ToSet
<1>2. QED
  BY <1>1 DEF Items, LaunchRequest

LEMMA RequestsAreDistinct ==
  ASSUME LaunchTypeOK
  PROVE  /\ \A f \in Forwarder : launch[f] \in LaunchRequest /\ Distinct(launch[f])
         /\ \A f, g \in Forwarder : f # g => Items(launch[f]) \cap Items(launch[g]) = {}
<1>1. launch \in Launches
  BY DEF LaunchTypeOK
<1>2. launch \in [Forwarder -> LaunchRequest]
  BY <1>1, ItemsAreOccurrences
<1>3. QED
  BY <1>1, <1>2, ItemsAreOccurrences

LEMMA AllItemsAreFinite ==
  ASSUME LaunchTypeOK
  PROVE  IsFiniteSet(AllItems)
<1> DEFINE R == {Items(launch[f]) : f \in Forwarder}
           h == [f \in Forwarder |-> Items(launch[f])]
<1>1. h \in Surjection(Forwarder, R)
  BY DEF Surjection
<1>2. IsFiniteSet(R)
  <2> HIDE DEF h, R
  <2>1. QED
    BY <1>1, ForwardersAreFinite, FS_Surjection
<1>3. \A T \in R : IsFiniteSet(T)
  BY RequestsAreDistinct, CountIsCardinality
<1>4. AllItems = UNION R
  BY DEF AllItems
<1> HIDE DEF R
<1>5. QED
  BY <1>2, <1>3, <1>4, FS_UNION

\* Items of the requests in a channel, and a channel in which they are apart.
ItemsOf(c)    == UNION {Items(c[i]) : i \in DOMAIN c}
KeptApart(c)  == \A i, j \in DOMAIN c : i # j => Items(c[i]) \cap Items(c[j]) = {}

LEMMA Appended ==
  ASSUME NEW c \in Seq(LaunchRequest), NEW r \in LaunchRequest
  PROVE  LET d == Append(c, r)
         IN  /\ d \in Seq(LaunchRequest)
             /\ ItemsOf(d) = ItemsOf(c) \cup Items(r)
             /\ \A i \in DOMAIN d : d[i] = r \/ \E j \in DOMAIN c : d[i] = c[j]
             /\ KeptApart(c) /\ ItemsOf(c) \cap Items(r) = {} => KeptApart(d)
<1> DEFINE d == Append(c, r)
           n == Len(c)
<1>1. /\ d \in Seq(LaunchRequest) /\ n \in Nat /\ DOMAIN c = 1 .. n /\ DOMAIN d = 1 .. (n + 1)
      /\ \A i \in 1 .. n : d[i] = c[i]
      /\ d[n + 1] = r
  OBVIOUS
<1> HIDE DEF d, n
<1>2. /\ \A i : i \in 1 .. (n + 1) <=> i \in 1 .. n \/ i = n + 1
      /\ n + 1 \notin 1 .. n
  BY <1>1
<1>3. /\ \A i \in DOMAIN c : i \in DOMAIN d /\ d[i] = c[i]
      /\ \A i \in DOMAIN d : i \in DOMAIN c \/ (i = n + 1 /\ d[i] = r)
      /\ n + 1 \in DOMAIN d
  BY <1>1, <1>2
<1>4. ItemsOf(d) = ItemsOf(c) \cup Items(r)
  BY <1>1, <1>3 DEF ItemsOf
<1>5. \A i \in DOMAIN d : d[i] = r \/ \E j \in DOMAIN c : d[i] = c[j]
  BY <1>3
<1>6. ASSUME KeptApart(c), ItemsOf(c) \cap Items(r) = {}
      PROVE  KeptApart(d)
  <2>1. \A j \in DOMAIN c : Items(c[j]) \cap Items(r) = {}
    BY <1>6 DEF ItemsOf
  <2>2. QED
    BY <1>3, <1>6, <2>1 DEF KeptApart
<1>7. QED
  BY <1>1, <1>4, <1>5, <1>6 DEF d

LEMMA Received ==
  ASSUME NEW c \in Seq(LaunchRequest), c # <<>>
  PROVE  /\ Tail(c) \in Seq(LaunchRequest) /\ Head(c) \in LaunchRequest
         /\ \E i \in DOMAIN c : Head(c) = c[i]
         /\ \A i \in DOMAIN Tail(c) : \E j \in DOMAIN c : Tail(c)[i] = c[j]
         /\ ItemsOf(c) = Items(Head(c)) \cup ItemsOf(Tail(c))
         /\ KeptApart(c) => KeptApart(Tail(c)) /\ Items(Head(c)) \cap ItemsOf(Tail(c)) = {}
<1> DEFINE d == Tail(c)
           n == Len(c)
<1>1. /\ d \in Seq(LaunchRequest) /\ n \in Nat /\ n > 0
      /\ DOMAIN c = 1 .. n /\ DOMAIN d = 1 .. (n - 1)
      /\ \A i \in 1 .. (n - 1) : d[i] = c[i + 1]
      /\ Head(c) = c[1] /\ Head(c) \in LaunchRequest
  OBVIOUS
<1> HIDE DEF d, n
<1>2. /\ \A i \in DOMAIN d : i + 1 \in DOMAIN c /\ i + 1 # 1 /\ d[i] = c[i + 1]
      /\ 1 \in DOMAIN c
  BY <1>1
<1>3. \A i \in DOMAIN c : i = 1 \/ \E j \in DOMAIN d : c[i] = d[j]
  <2>1. ASSUME NEW i \in 1 .. n, i # 1
        PROVE  \E j \in 1 .. (n - 1) : c[i] = d[j]
    <3>1. i - 1 \in 1 .. (n - 1) /\ (i - 1) + 1 = i
      BY <1>1, <2>1
    <3>2. QED
      BY <1>1, <3>1
  <2>2. QED
    BY <1>1, <2>1
<1>4. ItemsOf(c) = Items(Head(c)) \cup ItemsOf(d)
  BY <1>1, <1>2, <1>3 DEF ItemsOf
<1>5. ASSUME KeptApart(c)
      PROVE  KeptApart(d) /\ Items(Head(c)) \cap ItemsOf(d) = {}
  <2>1. \A i, j \in DOMAIN d : i # j => i + 1 # j + 1
    BY <1>1
  <2>2. KeptApart(d)
    BY <1>2, <1>5, <2>1 DEF KeptApart
  <2>3. \A i \in DOMAIN d : Items(c[1]) \cap Items(d[i]) = {}
    BY <1>2, <1>5 DEF KeptApart
  <2>4. QED
    BY <1>1, <2>2, <2>3 DEF ItemsOf
<1>6. QED
  BY <1>1, <1>2, <1>4, <1>5 DEF d

LEMMA ChannelForm ==
  /\ InChannel = ItemsOf(channel)
  /\ ChannelOK <=> /\ \A i \in DOMAIN channel : channel[i] \in {launch[f] : f \in Forwarder}
                   /\ KeptApart(channel)
                   /\ InChannel \cap Items(waiting) = {}
BY DEF InChannel, ItemsOf, ChannelOK, KeptApart

LEMMA EmptyChannel == ASSUME channel = <<>> PROVE InChannel = {}
BY DEF InChannel

LEMMA NothingHasNoItems ==
  Nothing \in LaunchRequest /\ Items(Nothing) = {} /\ Distinct(Nothing) /\ Count(Nothing) = 0
<1>1. Nothing \in LaunchRequest
  BY DEF Nothing, LaunchRequest
<1>2. /\ Nothing.files = <<>> /\ Nothing.magnets = <<>> /\ Nothing.downloads = <<>>
  BY DEF Nothing
<1>3. ToSet(<<>>) = {} /\ NoneTwice(<<>>) /\ Len(<<>>) = 0
  BY DEF ToSet, NoneTwice
<1>4. QED
  BY <1>1, <1>2, <1>3 DEF Items, Distinct, Count

-----------------------------------------------------------------------------
(* The steps *)

LEMMA LaunchInitInv == LaunchInit => LaunchInv
<1> SUFFICES ASSUME LaunchInit
             PROVE  LaunchInv
  OBVIOUS
<1> USE DEF LaunchInit
<1>1. /\ waiting \in LaunchRequest /\ Items(waiting) = {} /\ Distinct(waiting)
      /\ Count(waiting) = 0
  BY NothingHasNoItems
<1>2. LaunchTypeOK
  <2>1. forward \in [Forwarder -> {"idle", "sent"} \cup Replies] /\ opened \in [Item -> Nat]
    OBVIOUS
  <2>2. channel \in Seq(LaunchRequest)
    OBVIOUS
  <2>3. QED
    BY <1>1, <2>1, <2>2 DEF LaunchTypeOK
<1>3. InChannel = {} /\ InHand = {}
  BY <1>1, EmptyChannel DEF InHand
<1>4. ChannelOK
  BY <1>3 DEF ChannelOK
<1>5. WaitingOK
  BY <1>1, MaxItemsIsPositive DEF WaitingOK
<1>6. HandsOK /\ DroppedOK
  BY <1>3 DEF HandsOK, DroppedOK
<1>7. UnhandledOK
  <2>1. \A f \in Forwarder : Items(launch[f]) \subseteq Item
    BY <1>2, RequestsAreDistinct, ItemsAreItems
  <2>2. QED
    BY <1>3, <2>1 DEF UnhandledOK
<1>8. AnsweredOK
  BY DEF AnsweredOK
<1>9. QED
  BY <1>2, <1>4, <1>5, <1>6, <1>7, <1>8 DEF LaunchInv

\* A forwarder's step that leaves the shell and the channel alone.
LEMMA SameHands ==
  ASSUME LaunchInv, UNCHANGED <<launch, channel, waiting, opened, dropped>>
  PROVE  /\ ChannelOK' /\ WaitingOK' /\ HandsOK' /\ DroppedOK'
         /\ InHand' = InHand
<1>1. InChannel' = InChannel
  BY DEF InChannel
<1>2. Items(waiting)' = Items(waiting) /\ Count(waiting)' = Count(waiting)
      /\ Distinct(waiting)' = Distinct(waiting)
  BY DEF Items, Count, Distinct
<1>3. AllItems' = AllItems /\ InHand' = InHand
  BY <1>1, <1>2 DEF AllItems, InHand
<1>4. ChannelOK' /\ WaitingOK' /\ HandsOK' /\ DroppedOK'
  BY <1>1, <1>2, <1>3 DEF LaunchInv, ChannelOK, WaitingOK, HandsOK, DroppedOK
<1>5. QED
  BY <1>3, <1>4

LEMMA SendKeeps ==
  ASSUME LaunchInv, NEW f \in Forwarder, Send(f)
  PROVE  LaunchInv'
<1> USE DEF Send, Hears, shell
<1>1. LaunchTypeOK'
  BY DEF LaunchInv, LaunchTypeOK
<1>2. ChannelOK' /\ WaitingOK' /\ HandsOK' /\ DroppedOK' /\ InHand' = InHand
  BY SameHands
<1>3. \A g \in Forwarder : forward'[g] = IF g = f THEN "sent" ELSE forward[g]
  BY DEF LaunchInv, LaunchTypeOK
<1>4. UnhandledOK'
  <2>1. wire' \subseteq Forwarder
    BY <1>1 DEF LaunchTypeOK
  <2>2. QED
    BY <1>2, <1>3, <2>1 DEF LaunchInv, UnhandledOK
<1>5. AnsweredOK'
  BY <1>2, <1>3 DEF LaunchInv, AnsweredOK
<1>6. QED
  BY <1>1, <1>2, <1>4, <1>5 DEF LaunchInv

LEMMA FailsKeeps ==
  ASSUME LaunchInv, NEW f \in Forwarder, Fails(f)
  PROVE  LaunchInv'
<1> USE DEF Fails, Hears, shell
<1>1. LaunchTypeOK'
  BY DEF LaunchInv, LaunchTypeOK, Replies
<1>2. ChannelOK' /\ WaitingOK' /\ HandsOK' /\ DroppedOK' /\ InHand' = InHand
  BY SameHands
<1>3. \A g \in Forwarder : forward'[g] = IF g = f THEN "failed" ELSE forward[g]
  BY DEF LaunchInv, LaunchTypeOK
<1>4. UnhandledOK'
  <2>1. wire' \subseteq Forwarder
    BY <1>1 DEF LaunchTypeOK
  <2>2. QED
    BY <1>2, <1>3, <2>1 DEF LaunchInv, UnhandledOK
<1>5. AnsweredOK'
  BY <1>2, <1>3 DEF LaunchInv, AnsweredOK
<1>6. QED
  BY <1>1, <1>2, <1>4, <1>5 DEF LaunchInv

LEMMA RejectKeeps ==
  ASSUME LaunchInv, NEW f \in Forwarder, Reject(f)
  PROVE  LaunchInv'
<1> USE DEF Reject, shell
<1>1. LaunchTypeOK'
  BY DEF LaunchInv, LaunchTypeOK
<1>2. ChannelOK' /\ WaitingOK' /\ HandsOK' /\ DroppedOK' /\ InHand' = InHand
  BY SameHands
<1>3. UnhandledOK' /\ AnsweredOK'
  BY <1>2 DEF LaunchInv, UnhandledOK, AnsweredOK
<1>4. QED
  BY <1>1, <1>2, <1>3 DEF LaunchInv

LEMMA HandleKeeps ==
  ASSUME LaunchInv, NEW f \in Forwarder, Handle(f)
  PROVE  LaunchInv'
<1> USE DEF Handle, Hears, shell
<1> DEFINE r == launch[f]
<1>1. /\ LaunchTypeOK /\ ChannelOK /\ WaitingOK /\ HandsOK /\ DroppedOK
      /\ UnhandledOK /\ AnsweredOK
  BY DEF LaunchInv
<1>2. r \in LaunchRequest /\ Items(r) \subseteq Item /\ channel \in Seq(LaunchRequest)
  BY <1>1, RequestsAreDistinct, ItemsAreItems DEF LaunchTypeOK
<1>3. \A x \in Items(r) : x \notin InHand /\ opened[x] = 0
  BY <1>1 DEF UnhandledOK
<1>4. /\ channel' \in Seq(LaunchRequest)
      /\ ItemsOf(channel)' = ItemsOf(channel) \cup Items(r)
      /\ \A i \in DOMAIN channel' : channel'[i] = r \/ \E j \in DOMAIN channel : channel'[i] = channel[j]
      /\ KeptApart(channel) /\ ItemsOf(channel) \cap Items(r) = {} => KeptApart(channel)'
  <2>1. channel' = Append(channel, r)
    OBVIOUS
  <2>2. ItemsOf(channel)' = ItemsOf(channel') /\ KeptApart(channel)' = KeptApart(channel')
    BY DEF ItemsOf, KeptApart
  <2> HIDE DEF r
  <2>3. QED
    BY <1>2, <2>1, <2>2, Appended
<1>5. InChannel' = InChannel \cup Items(r)
  <2>1. InChannel' = ItemsOf(channel)'
    BY DEF InChannel, ItemsOf
  <2>2. QED
    BY <1>4, <2>1, ChannelForm
<1>6. InHand' = InHand \cup Items(r) /\ Items(waiting)' = Items(waiting)
  BY <1>5 DEF InHand, Items
<1>7. LaunchTypeOK'
  BY <1>1, <1>4 DEF LaunchTypeOK, Replies
<1>8. ChannelOK'
  <2>1. ItemsOf(channel) \cap Items(r) = {}
    BY <1>3, ChannelForm DEF InHand
  <2>2. KeptApart(channel)'
    BY <1>1, <1>4, <2>1, ChannelForm
  <2>3. \A i \in DOMAIN channel' : channel'[i] \in {launch'[g] : g \in Forwarder}
    BY <1>1, <1>4, ChannelForm
  <2>4. (InChannel \cap Items(waiting))' = {}
    BY <1>1, <1>3, <1>5, <1>6 DEF ChannelOK, InHand
  <2>5. QED
    BY <2>2, <2>3, <2>4 DEF ChannelOK, KeptApart
<1>9. AllItems' = AllItems
  BY DEF AllItems
<1>10. WaitingOK' /\ DroppedOK'
  <2>1. Distinct(waiting)' = Distinct(waiting) /\ Count(waiting)' = Count(waiting)
    BY DEF Distinct, Count
  <2>2. QED
    BY <1>1, <1>6, <1>9, <2>1 DEF WaitingOK, DroppedOK
<1>11. HandsOK'
  <2>1. dropped' \cap (InChannel' \cup Items(waiting)') = {}
    BY <1>1, <1>3, <1>5, <1>6 DEF HandsOK, InHand
  <2>2. \A x \in Item : opened'[x] \in {0, 1}
    BY <1>1 DEF HandsOK
  <2>3. \A x \in Item : x \in InHand' => opened'[x] = 0
    BY <1>1, <1>3, <1>6 DEF HandsOK
  <2>4. QED
    BY <2>1, <2>2, <2>3 DEF HandsOK
<1>12. forward[f] \in {"sent", "failed"}
  BY <1>1 DEF UnhandledOK
<1>13. \A g \in Forwarder : g # f => forward'[g] = forward[g]
  BY <1>1 DEF LaunchTypeOK
<1>14. forward'[f] \in {"ok", "failed"}
  BY <1>1, <1>12 DEF LaunchTypeOK
<1>15. UnhandledOK'
  <2>1. \A g \in wire' : g \in wire /\ g # f /\ g \in Forwarder
    BY <1>1 DEF LaunchTypeOK
  <2>2. \A g \in wire' : forward'[g] \in {"sent", "failed"}
    BY <1>1, <1>13, <2>1 DEF UnhandledOK
  <2>3. ASSUME NEW g \in Forwarder, forward'[g] = "idle" \/ g \in wire',
               NEW x \in Items(launch[g])
        PROVE  x \notin InHand' /\ opened'[x] = 0
    <3>1. g # f /\ (forward[g] = "idle" \/ g \in wire)
      BY <1>13, <1>14, <2>1, <2>3
    <3>2. x \notin InHand /\ opened[x] = 0
      BY <1>1, <3>1 DEF UnhandledOK
    <3>3. x \notin Items(r)
      BY <1>1, <3>1, RequestsAreDistinct
    <3>4. QED
      BY <1>6, <3>2, <3>3
  <2>4. QED
    BY <2>2, <2>3 DEF UnhandledOK
<1>16. AnsweredOK'
  <2>1. ASSUME NEW g \in Forwarder, forward'[g] = "ok", NEW x \in Items(launch[g])
        PROVE  x \in InHand' \/ opened'[x] = 1
    <3>1. CASE g = f
      BY <1>6, <3>1
    <3>2. CASE g # f
      BY <1>1, <1>6, <1>13, <2>1, <3>2 DEF AnsweredOK
    <3>3. QED
      BY <3>1, <3>2
  <2>2. QED
    BY <2>1 DEF AnsweredOK
<1>17. QED
  BY <1>7, <1>8, <1>10, <1>11, <1>15, <1>16 DEF LaunchInv

\* With the queue full and one item more, the requests exceed the cap.
LEMMA FullAndOneMore ==
  ASSUME LaunchTypeOK, NEW w \in LaunchRequest, Distinct(w), Count(w) = MaxItems,
         Items(w) \subseteq AllItems, NEW x \in AllItems, x \notin Items(w)
  PROVE  Cardinality(AllItems) > MaxItems
<1>1. IsFiniteSet(AllItems)
  BY AllItemsAreFinite
<1>2. IsFiniteSet(Items(w)) /\ Cardinality(Items(w)) = MaxItems /\ MaxItems \in Nat
  BY CountIsCardinality, MaxItemsIsPositive
<1>3. Cardinality(Items(w) \cup {x}) = MaxItems + 1
  BY <1>2, FS_AddElement
<1>4. Items(w) \cup {x} \subseteq AllItems
  OBVIOUS
<1>5. Cardinality(Items(w) \cup {x}) <= Cardinality(AllItems)
  BY <1>1, <1>4, FS_Subset
<1>6. Cardinality(AllItems) \in Nat
  BY <1>1, FS_CardinalityType
<1>7. QED
  BY <1>2, <1>3, <1>5, <1>6

LEMMA ReceiveKeeps ==
  ASSUME LaunchInv, ReceiveRequest
  PROVE  LaunchInv'
<1> USE DEF ReceiveRequest
<1> DEFINE r == Head(channel)
<1>1. /\ LaunchTypeOK /\ ChannelOK /\ WaitingOK /\ HandsOK /\ DroppedOK
      /\ UnhandledOK /\ AnsweredOK
  BY DEF LaunchInv
<1>2. /\ channel \in Seq(LaunchRequest) /\ channel # <<>>
      /\ waiting \in LaunchRequest /\ KeptApart(channel)
  BY <1>1, ChannelForm DEF LaunchTypeOK
<1>3. /\ channel' \in Seq(LaunchRequest) /\ r \in LaunchRequest
      /\ \E i \in DOMAIN channel : r = channel[i]
      /\ \A i \in DOMAIN channel' : \E j \in DOMAIN channel : channel'[i] = channel[j]
      /\ ItemsOf(channel) = Items(r) \cup ItemsOf(channel')
      /\ KeptApart(channel') /\ Items(r) \cap ItemsOf(channel') = {}
  <2>1. channel' = Tail(channel)
    OBVIOUS
  <2>2. QED
    BY <1>2, <2>1, Received
<1>4. InChannel = Items(r) \cup InChannel' /\ Items(r) \cap InChannel' = {}
  <2>1. InChannel' = ItemsOf(channel')
    BY DEF InChannel, ItemsOf
  <2>2. QED
    BY <1>3, <2>1, ChannelForm
<1>5. /\ Distinct(r) /\ Items(r) \subseteq Item /\ Items(r) \subseteq AllItems
  <2>1. PICK f \in Forwarder : r = launch[f]
    BY <1>1, <1>3 DEF ChannelOK
  <2> HIDE DEF r
  <2>2. QED
    BY <1>1, <1>3, <2>1, RequestsAreDistinct, ItemsAreItems DEF AllItems
<1>6. Admitted(waiting, waiting', Items(r))
  <2>1. Items(waiting) \cap Items(r) = {}
    BY <1>1, <1>4 DEF ChannelOK
  <2>2. Distinct(waiting) /\ Count(waiting) <= MaxItems
    BY <1>1 DEF WaitingOK
  <2>3. waiting' = Admit(waiting, r)
    OBVIOUS
  <2> HIDE DEF r
  <2>4. Admitted(waiting, Admit(waiting, r), Items(r))
    BY <1>2, <1>3, <1>5, <2>1, <2>2, AdmitFacts
  <2>5. QED
    BY <2>3, <2>4
<1>7. dropped' = dropped \cup (Items(r) \ Items(waiting'))
  OBVIOUS
<1> HIDE DEF r
<1>8. /\ waiting' \in LaunchRequest /\ Distinct(waiting') /\ Count(waiting') <= MaxItems
      /\ Items(waiting) \subseteq Items(waiting')
      /\ Items(waiting') \subseteq Items(waiting) \cup Items(r)
      /\ Items(r) \subseteq Items(waiting') \/ Count(waiting') = MaxItems
  BY <1>6 DEF Admitted
<1>9. /\ Items(waiting)' = Items(waiting') /\ Distinct(waiting)' = Distinct(waiting')
      /\ Count(waiting)' = Count(waiting') /\ AllItems' = AllItems
  BY DEF Items, Distinct, Count, AllItems
<1>10. LaunchTypeOK'
  BY <1>1, <1>3, <1>5, <1>7, <1>8 DEF LaunchTypeOK
<1>11. ChannelOK'
  <2>1. \A i \in DOMAIN channel' : channel'[i] \in {launch'[f] : f \in Forwarder}
    BY <1>1, <1>3 DEF ChannelOK
  <2>2. InChannel' \cap Items(waiting') = {}
    BY <1>1, <1>4, <1>8 DEF ChannelOK
  <2>3. QED
    BY <1>3, <1>9, <2>1, <2>2 DEF ChannelOK, KeptApart
<1>12. WaitingOK'
  BY <1>1, <1>5, <1>8, <1>9 DEF WaitingOK
<1>13. InHand' = InHand
  BY <1>4, <1>7, <1>8, <1>9 DEF InHand
<1>14. HandsOK'
  <2>1. dropped' \cap (InChannel' \cup Items(waiting')) = {}
    <3>1. dropped \cap (InChannel \cup Items(waiting)) = {}
      BY <1>1 DEF HandsOK
    <3>2. QED
      BY <3>1, <1>4, <1>7, <1>8
  <2>2. QED
    BY <1>1, <1>9, <1>13, <2>1 DEF HandsOK
<1>15. DroppedOK'
  <2>1. ASSUME dropped' # {}
        PROVE  Cardinality(AllItems) > MaxItems
    <3>1. CASE dropped # {}
      BY <1>1, <3>1 DEF DroppedOK
    <3>2. CASE dropped = {}
      <4>1. PICK x \in Items(r) : x \notin Items(waiting')
        BY <1>7, <2>1, <3>2
      <4>2. Count(waiting') = MaxItems /\ x \in AllItems
        BY <1>5, <1>8, <4>1
      <4>3. Items(waiting') \subseteq AllItems
        BY <1>9, <1>12 DEF WaitingOK
      <4>4. QED
        BY <1>1, <1>8, <4>1, <4>2, <4>3, FullAndOneMore
    <3>3. QED
      BY <3>1, <3>2
  <2>2. QED
    BY <1>9, <2>1 DEF DroppedOK
<1>16. UnhandledOK' /\ AnsweredOK'
  BY <1>1, <1>13 DEF UnhandledOK, AnsweredOK
<1>17. QED
  BY <1>10, <1>11, <1>12, <1>14, <1>15, <1>16 DEF LaunchInv

\* What goes into the dialog leaves the queue, the rest stays.
LEMMA OpeningSplits ==
  ASSUME LaunchInv, OpenWaiting
  PROVE  /\ waiting' \in LaunchRequest /\ Distinct(waiting') /\ Count(waiting') <= MaxItems
         /\ Items(waiting) = Items(waiting') \cup Taken
         /\ Items(waiting') \cap Taken = {}
<1> DEFINE f == waiting.files
           m == waiting.magnets
           d == waiting.downloads
           R == {d[i] : i \in Run(d)}
           F == IF OpensFiles THEN <<>> ELSE f
           M == IF OpensMagnets THEN <<>> ELSE m
           D == IF OpensDownloads THEN Rest(d) ELSE d
<1>1. /\ waiting \in LaunchRequest /\ Distinct(waiting) /\ Count(waiting) <= MaxItems
      /\ MaxItems \in Nat
  BY MaxItemsIsPositive DEF LaunchInv, LaunchTypeOK, WaitingOK
<1>2. f \in Seq(Item) /\ m \in Seq(Item) /\ d \in Seq(Item)
  BY <1>1 DEF LaunchRequest
<1>3. /\ NoneTwice(f) /\ NoneTwice(m) /\ NoneTwice(d)
      /\ ToSet(f) \cap ToSet(m) = {}
      /\ (ToSet(f) \cup ToSet(m)) \cap ToSet(d) = {}
  BY <1>1 DEF Distinct
<1>4. /\ Rest(d) \in Seq(Item) /\ Len(Rest(d)) <= Len(d)
      /\ ToSet(d) = ToSet(Rest(d)) \cup R
      /\ NoneTwice(Rest(d)) /\ ToSet(Rest(d)) \cap R = {}
  BY <1>2, <1>3, RestFacts
<1>5. <<>> \in Seq(Item) /\ Len(<<>>) = 0 /\ ToSet(<<>>) = {} /\ NoneTwice(<<>>)
  BY DEF ToSet, NoneTwice
<1>6. Taken = IF OpensFiles THEN ToSet(f) ELSE IF OpensMagnets THEN ToSet(m)
              ELSE IF OpensDownloads THEN R ELSE {}
  BY DEF Taken
<1>7. /\ ~(OpensFiles /\ OpensMagnets) /\ ~(OpensFiles /\ OpensDownloads)
      /\ ~(OpensMagnets /\ OpensDownloads)
  BY DEF OpensMagnets, OpensDownloads
<1>8. waiting' = [files |-> F, magnets |-> M, downloads |-> D]
  BY DEF OpenWaiting
<1>9. Items(waiting) = ToSet(f) \cup ToSet(m) \cup ToSet(d)
  BY DEF Items
<1>10. Items(waiting') = ToSet(F) \cup ToSet(M) \cup ToSet(D)
  BY <1>8 DEF Items
<1>11. /\ Count(waiting) = Len(f) + Len(m) + Len(d)
       /\ Count(waiting') = Len(F) + Len(M) + Len(D)
  BY <1>8 DEF Count
<1> HIDE DEF R, f, m, d
<1>12. /\ F \in Seq(Item) /\ Len(F) <= Len(f) /\ NoneTwice(F)
       /\ ToSet(F) = IF OpensFiles THEN {} ELSE ToSet(f)
  <2>1. 0 <= Len(f) /\ Len(f) <= Len(f)
    BY <1>2
  <2>2. CASE OpensFiles
    BY <1>2, <1>3, <1>5, <2>1, <2>2
  <2>3. CASE ~OpensFiles
    BY <1>2, <1>3, <2>1, <2>3
  <2>4. QED
    BY <2>2, <2>3
<1>13. /\ M \in Seq(Item) /\ Len(M) <= Len(m) /\ NoneTwice(M)
       /\ ToSet(M) = IF OpensMagnets THEN {} ELSE ToSet(m)
  <2>1. 0 <= Len(m) /\ Len(m) <= Len(m)
    BY <1>2
  <2>2. CASE OpensMagnets
    BY <1>2, <1>3, <1>5, <2>1, <2>2
  <2>3. CASE ~OpensMagnets
    BY <1>2, <1>3, <2>1, <2>3
  <2>4. QED
    BY <2>2, <2>3
<1>14. /\ D \in Seq(Item) /\ Len(D) <= Len(d) /\ NoneTwice(D)
       /\ ToSet(D) = IF OpensDownloads THEN ToSet(Rest(d)) ELSE ToSet(d)
  <2>1. 0 <= Len(d) /\ Len(d) <= Len(d)
    BY <1>2
  <2>2. CASE OpensDownloads
    BY <1>2, <1>3, <1>4, <2>1, <2>2
  <2>3. CASE ~OpensDownloads
    BY <1>2, <1>3, <2>1, <2>3
  <2>4. QED
    BY <2>2, <2>3
<1>15. waiting' \in LaunchRequest
  <2> HIDE DEF F, M, D
  <2>1. QED
    BY <1>8, <1>12, <1>13, <1>14 DEF LaunchRequest
<1>16. Items(waiting) = Items(waiting') \cup Taken /\ Items(waiting') \cap Taken = {}
  <2> HIDE DEF F, M, D
  <2>1. CASE OpensFiles
    BY <1>3, <1>6, <1>7, <1>9, <1>10, <1>12, <1>13, <1>14, <2>1
  <2>2. CASE OpensMagnets
    BY <1>3, <1>6, <1>7, <1>9, <1>10, <1>12, <1>13, <1>14, <2>2
  <2>3. CASE OpensDownloads
    <3>1. ToSet(F) = ToSet(f) /\ ToSet(M) = ToSet(m) /\ ToSet(D) = ToSet(Rest(d)) /\ Taken = R
      BY <1>6, <1>7, <1>12, <1>13, <1>14, <2>3
    <3>2. QED
      BY <1>3, <1>4, <1>9, <1>10, <3>1
  <2>4. CASE ~OpensFiles /\ ~OpensMagnets /\ ~OpensDownloads
    BY <1>6, <1>9, <1>10, <1>12, <1>13, <1>14, <2>4
  <2>5. QED
    BY <2>1, <2>2, <2>3, <2>4
<1>17. Distinct(waiting')
  <2>1. /\ ToSet(F) \subseteq ToSet(f) /\ ToSet(M) \subseteq ToSet(m)
        /\ ToSet(D) \subseteq ToSet(d)
    <3> HIDE DEF F, M, D
    <3>1. QED
      BY <1>4, <1>12, <1>13, <1>14
  <2>2. waiting'.files = F /\ waiting'.magnets = M /\ waiting'.downloads = D
    BY <1>8
  <2> HIDE DEF F, M, D
  <2>3. /\ ToSet(F) \cap ToSet(M) = {}
        /\ (ToSet(F) \cup ToSet(M)) \cap ToSet(D) = {}
    BY <1>3, <2>1
  <2>4. QED
    BY <1>12, <1>13, <1>14, <2>2, <2>3 DEF Distinct
<1>18. Count(waiting') <= MaxItems
  <2> HIDE DEF F, M, D
  <2>1. PICK a \in Nat, b \in Nat, c \in Nat, k \in Nat, l \in Nat, n \in Nat :
          /\ a = Len(f) /\ b = Len(m) /\ c = Len(d)
          /\ k = Len(F) /\ l = Len(M) /\ n = Len(D)
    BY <1>2, <1>12, <1>13, <1>14
  <2>2. /\ Count(waiting) = a + b + c /\ Count(waiting') = k + l + n
        /\ k <= a /\ l <= b /\ n <= c
    BY <1>11, <1>12, <1>13, <1>14, <2>1
  <2>3. k + l + n <= a + b + c
    BY <2>2
  <2>4. a + b + c <= MaxItems
    BY <1>1, <2>2
  <2>5. k + l + n <= MaxItems
    BY <1>1, <2>3, <2>4
  <2>6. QED
    BY <2>2, <2>5
<1>19. QED
  BY <1>15, <1>16, <1>17, <1>18

LEMMA OpenKeeps ==
  ASSUME LaunchInv, OpenWaiting
  PROVE  LaunchInv'
<1>1. /\ LaunchTypeOK /\ ChannelOK /\ WaitingOK /\ HandsOK /\ DroppedOK
      /\ UnhandledOK /\ AnsweredOK
  BY DEF LaunchInv
<1>2. /\ waiting' \in LaunchRequest /\ Distinct(waiting') /\ Count(waiting') <= MaxItems
      /\ Items(waiting) = Items(waiting') \cup Taken
      /\ Items(waiting') \cap Taken = {}
  BY OpeningSplits
<1>3. /\ channel = <<>> /\ polling' = FALSE
      /\ opened' = [x \in Item |-> IF x \in Taken THEN opened[x] + 1 ELSE opened[x]]
      /\ dialog' = IF Taken # {} THEN "add" ELSE dialog
      /\ free' = (free /\ ~OpensFiles /\ ~(OpensDownloads /\ auto))
      /\ UNCHANGED <<launch, forward, wire, channel, up, auto, dropped>>
  BY DEF OpenWaiting
<1>4. /\ Items(waiting)' = Items(waiting') /\ Distinct(waiting)' = Distinct(waiting')
      /\ Count(waiting)' = Count(waiting') /\ AllItems' = AllItems /\ InChannel' = InChannel
  BY <1>3 DEF Items, Distinct, Count, AllItems, InChannel
<1>5. \A x \in Item : opened[x] \in {0, 1} /\ opened[x] \in Nat
  BY <1>1 DEF HandsOK, LaunchTypeOK
<1>6. Taken \subseteq Item /\ \A x \in Taken : opened[x] = 0
  <2>1. Items(waiting) \subseteq Item
    BY <1>1, ItemsAreItems DEF LaunchTypeOK
  <2>2. QED
    BY <1>1, <1>2, <2>1 DEF HandsOK, InHand
<1>7. \A x \in Item : opened'[x] = IF x \in Taken THEN 1 ELSE opened[x]
  BY <1>3, <1>6
<1>8. Taken \cap dropped = {} /\ InChannel = {}
  BY <1>1, <1>2, <1>3, EmptyChannel DEF HandsOK
<1>9. InHand' = InHand \ Taken
  BY <1>2, <1>3, <1>4, <1>8 DEF InHand
<1>10. LaunchTypeOK'
  <2>1. opened' \in [Item -> Nat]
    <3>1. \A x \in Item : (IF x \in Taken THEN opened[x] + 1 ELSE opened[x]) \in Nat
      BY <1>5
    <3>2. QED
      BY <1>3, <3>1
  <2>2. free' \in BOOLEAN /\ polling' \in BOOLEAN
    BY <1>1, <1>3 DEF LaunchTypeOK
  <2>3. dialog' \in {"none", "add", "other"}
    BY <1>1, <1>3 DEF LaunchTypeOK
  <2>4. QED
    BY <1>1, <1>2, <1>3, <2>1, <2>2, <2>3 DEF LaunchTypeOK
<1>11. ChannelOK'
  BY <1>1, <1>3, <1>4, <1>8 DEF ChannelOK
<1>12. WaitingOK'
  BY <1>1, <1>2, <1>4 DEF WaitingOK
<1>13. HandsOK' /\ DroppedOK'
  <2>1. \A x \in Item : opened'[x] \in {0, 1}
    BY <1>5, <1>7
  <2>2. \A x \in Item : x \in InHand' => opened'[x] = 0
    BY <1>1, <1>7, <1>9 DEF HandsOK
  <2>3. dropped' \cap (InChannel' \cup Items(waiting)') = {}
    BY <1>1, <1>2, <1>3, <1>4 DEF HandsOK
  <2>4. QED
    BY <1>1, <1>3, <1>4, <2>1, <2>2, <2>3 DEF HandsOK, DroppedOK
<1>14. \A f \in Forwarder : Items(launch[f]) \subseteq Item
  BY <1>1, RequestsAreDistinct, ItemsAreItems
<1>15. UnhandledOK'
  <2>1. ASSUME NEW f \in Forwarder, forward[f] = "idle" \/ f \in wire,
               NEW x \in Items(launch[f])
        PROVE  x \notin InHand' /\ opened'[x] = 0
    <3>1. x \notin InHand /\ opened[x] = 0 /\ x \in Item
      BY <1>1, <1>14, <2>1 DEF UnhandledOK
    <3>2. x \notin Taken
      BY <1>2, <3>1 DEF InHand
    <3>3. QED
      BY <1>7, <1>9, <3>1, <3>2
  <2>2. QED
    BY <1>1, <1>3, <2>1 DEF UnhandledOK
<1>16. AnsweredOK'
  <2>1. ASSUME up, NEW f \in Forwarder, forward[f] = "ok", NEW x \in Items(launch[f])
        PROVE  x \in InHand' \/ opened'[x] = 1
    <3>1. (x \in InHand \/ opened[x] = 1) /\ x \in Item
      BY <1>1, <1>14, <2>1 DEF AnsweredOK
    <3>2. QED
      BY <1>7, <1>9, <3>1
  <2>2. QED
    BY <1>3, <2>1 DEF AnsweredOK
<1>17. QED
  BY <1>10, <1>11, <1>12, <1>13, <1>15, <1>16 DEF LaunchInv

LEMMA ShellKeeps ==
  ASSUME LaunchInv, ShellChanges
  PROVE  LaunchInv'
<1> USE DEF ShellChanges
<1>1. LaunchTypeOK'
  BY DEF LaunchInv, LaunchTypeOK
<1>2. ChannelOK' /\ WaitingOK' /\ HandsOK' /\ DroppedOK' /\ InHand' = InHand
  BY SameHands
<1>3. UnhandledOK' /\ AnsweredOK'
  BY <1>2 DEF LaunchInv, UnhandledOK, AnsweredOK
<1>4. QED
  BY <1>1, <1>2, <1>3 DEF LaunchInv

LEMMA EndKeeps ==
  ASSUME LaunchInv, DesktopEnds
  PROVE  LaunchInv'
<1>1. /\ LaunchTypeOK /\ WaitingOK /\ HandsOK /\ DroppedOK /\ UnhandledOK
  BY DEF LaunchInv
<1>2. /\ up' = FALSE /\ wire' = {} /\ channel' = <<>> /\ polling' = FALSE
      /\ waiting' = Nothing
      /\ UNCHANGED <<launch, forward, dialog, free, auto, opened, dropped>>
  BY DEF DesktopEnds
<1>3. /\ waiting' \in LaunchRequest /\ Items(waiting)' = {} /\ Distinct(waiting)'
      /\ Count(waiting)' = 0
  <2>1. /\ Items(waiting)' = Items(waiting') /\ Distinct(waiting)' = Distinct(waiting')
        /\ Count(waiting)' = Count(waiting')
    BY DEF Items, Distinct, Count
  <2>2. QED
    BY <1>2, <2>1, NothingHasNoItems
<1>4. InChannel' = {} /\ InHand' = dropped /\ AllItems' = AllItems
  <2>1. InChannel' = {}
    BY <1>2 DEF InChannel
  <2>2. QED
    BY <1>2, <1>3, <2>1 DEF InHand, AllItems
<1>5. LaunchTypeOK'
  <2>1. channel' \in Seq(LaunchRequest)
    BY <1>2
  <2>2. QED
    BY <1>1, <1>2, <1>3, <2>1 DEF LaunchTypeOK
<1>6. ChannelOK'
  BY <1>2, <1>4 DEF ChannelOK
<1>7. WaitingOK'
  <2>1. 0 <= MaxItems
    BY MaxItemsIsPositive
  <2>2. QED
    BY <1>3, <2>1 DEF WaitingOK
<1>8. HandsOK' /\ DroppedOK' /\ UnhandledOK' /\ AnsweredOK'
  <2>1. dropped \subseteq InHand
    BY DEF InHand
  <2>2. HandsOK'
    BY <1>1, <1>2, <1>3, <1>4, <2>1 DEF HandsOK
  <2>3. DroppedOK'
    BY <1>1, <1>2, <1>4 DEF DroppedOK
  <2>4. UnhandledOK'
    BY <1>1, <1>2, <1>4, <2>1 DEF UnhandledOK
  <2>5. AnsweredOK'
    BY <1>2 DEF AnsweredOK
  <2>6. QED
    BY <2>2, <2>3, <2>4, <2>5
<1>9. QED
  BY <1>5, <1>6, <1>7, <1>8 DEF LaunchInv

LEMMA LaunchStepInv == LaunchInv /\ [LaunchNext]_launchVars => LaunchInv'
<1> SUFFICES ASSUME LaunchInv, [LaunchNext]_launchVars
             PROVE  LaunchInv'
  OBVIOUS
<1>1. CASE UNCHANGED launchVars
  <2> USE <1>1 DEF launchVars
  <2>1. LaunchTypeOK'
    BY DEF LaunchInv, LaunchTypeOK
  <2>2. ChannelOK' /\ WaitingOK' /\ HandsOK' /\ DroppedOK' /\ InHand' = InHand
    BY SameHands
  <2>3. UnhandledOK' /\ AnsweredOK'
    BY <2>2 DEF LaunchInv, UnhandledOK, AnsweredOK
  <2>4. QED
    BY <2>1, <2>2, <2>3 DEF LaunchInv
<1>2. CASE \E f \in Forwarder : Send(f) \/ Fails(f) \/ Handle(f) \/ Reject(f)
  BY <1>2, SendKeeps, FailsKeeps, HandleKeeps, RejectKeeps
<1>3. CASE ReceiveRequest
  BY <1>3, ReceiveKeeps
<1>4. CASE OpenWaiting
  BY <1>4, OpenKeeps
<1>5. CASE ShellChanges
  BY <1>5, ShellKeeps
<1>6. CASE DesktopEnds
  BY <1>6, EndKeeps
<1>7. QED
  BY <1>1, <1>2, <1>3, <1>4, <1>5, <1>6 DEF LaunchNext

LEMMA LaunchInvImplies == LaunchInv => NoLaunchIsLost
<1> SUFFICES ASSUME LaunchInv
             PROVE  NoLaunchIsLost
  OBVIOUS
<1>1. /\ LaunchTypeOK /\ WaitingOK /\ HandsOK /\ DroppedOK /\ AnsweredOK
  BY DEF LaunchInv
<1>2. Count(waiting) <= MaxItems
  BY <1>1 DEF WaitingOK
<1>3. ASSUME up, NEW f \in Forwarder, forward[f] = "ok", NEW x \in Items(launch[f])
      PROVE  \/ x \in InChannel \cup Items(waiting) /\ opened[x] = 0
             \/ opened[x] = 1 /\ x \notin InChannel \cup Items(waiting)
             \/ /\ x \in dropped /\ opened[x] = 0
                /\ \E S \in SUBSET Forwarder :
                     f \in S /\ Cardinality(UNION {Items(launch[g]) : g \in S}) > MaxItems
  <2>1. x \in Item
    BY <1>1, RequestsAreDistinct, ItemsAreItems
  <2>2. x \in InHand \/ opened[x] = 1
    BY <1>1, <1>3 DEF AnsweredOK
  <2>3. x \in InHand => opened[x] = 0
    BY <1>1, <2>1 DEF HandsOK
  <2>4. CASE x \in dropped
    <3>1. Cardinality(UNION {Items(launch[g]) : g \in Forwarder}) > MaxItems
      BY <1>1, <2>4 DEF DroppedOK, AllItems
    <3>2. opened[x] = 0
      BY <2>3, <2>4 DEF InHand
    <3>3. QED
      BY <2>4, <3>1, <3>2
  <2>5. CASE x \notin dropped
    BY <2>2, <2>3, <2>5 DEF InHand
  <2>6. QED
    BY <2>4, <2>5
<1>4. QED
  BY <1>1, <1>2, <1>3 DEF NoLaunchIsLost

\* The hands of the shell never hold an item twice, for any forwarders, any
\* requests and any cap.
THEOREM LaunchInvariant == LaunchSpec => []LaunchInv
<1>1. QED
  BY LaunchInitInv, LaunchStepInv, PTL DEF LaunchSpec

\* What serve has answered "ok" to is kept or opened once while the desktop
\* runs (handle_connection, poll_instance_requests and the take_* functions of
\* dialogs_add.rs), for any number of forwarders, any requests and any cap.
THEOREM NoLaunchLost == LaunchSpec => []NoLaunchIsLost
<1>1. QED
  BY LaunchInvariant, LaunchInvImplies, PTL
=============================================================================
