---------------------------- MODULE ProfileSettings ----------------------------
(***************************************************************************)
(* The settings of the desktop: the live copy on the UI thread, the shared  *)
(* settings.json, one environment bag per engine profile, and the settings  *)
(* the engine runs with.  Saves go through the worker of workspace/         *)
(* mapping.rs, one at a time, which applies them to the engine and writes   *)
(* the two files; handle_switch_profile (workspace/mod.rs) writes the files *)
(* itself, on the UI thread.  Every write may fail, and the desktop may be  *)
(* killed between any two.                                                  *)
(*                                                                          *)
(* An environment is the profile it was made for and a version.  Not        *)
(* modelled: the tracker list refresh, profiles added to or removed from    *)
(* the catalog, and the credential store.                                   *)
(***************************************************************************)
EXTENDS Naturals, Sequences

CONSTANTS
  Profile,
  First,    \* the profile that is active at first
  Overlap,  \* the user goes on while a save is pending
  MaxEdits, \* bound: changes of the settings
  NoBag     \* there is no environment.json

ASSUME FirstIsAProfile == First \in Profile
ASSUME EditsAreBounded == MaxEdits \in Nat /\ Overlap \in BOOLEAN

VARIABLES
  active,   \* the active profile of the catalog in memory
  onDisk,   \* that of profiles.json
  live,     \* DesktopRoot::settings
  file,     \* settings.json
  bag,      \* environment.json of each profile
  engine,   \* the environment aria2 runs with
  current,  \* aria2 was started for the active profile
  unsure,   \* an answer of aria2 was lost, or a rollback failed
  pending,  \* the shell waits for the result of a save
  queue,    \* requests to the worker
  work,     \* where the worker is in the first of them
  results,  \* its results
  switch,   \* where handle_switch_profile is
  edits,    \* versions given out
  kept,     \* history: the environment last reported as saved, per profile
  tried     \* history: the one last asked for

settingsVars == <<active, onDisk, live, file, bag, engine, current, unsure, pending,
                  queue, work, results, switch, edits, kept, tried>>

Env      == [owner : Profile, ver : 0 .. MaxEdits]
ASSUME NoBagIsNone == NoBag \notin Env

Settings == [env : Env, ui : 0 .. MaxEdits]
Save     == [shell : BOOLEAN, next : Settings, previous : Settings,
             apply : BOOLEAN, profile : Profile]
Idle     == [at |-> "idle"]
Stage    == {"leave", "load", "catalog", "mirror", "bag"}

SettingsTypeOK ==
  /\ active \in Profile /\ onDisk \in Profile
  /\ live \in Settings /\ file \in Settings
  /\ bag \in [Profile -> Env \cup {NoBag}]
  /\ engine \in Env
  /\ current \in BOOLEAN /\ unsure \in BOOLEAN /\ pending \in BOOLEAN
  /\ queue \in Seq(Save)
  /\ work \in {"preflight", "apply", "file", "bag"}
  /\ results \in Seq([save : Save, ok : BOOLEAN])
  /\ switch \in {Idle} \cup [at : Stage, to : Profile, prev : Profile, env : Env]
  /\ edits \in 0 .. MaxEdits
  /\ kept \in [Profile -> Env \cup {NoBag}]
  /\ tried \in [Profile -> Env \cup {NoBag}]

Adopt(e, p) == [e EXCEPT !.owner = p]

SettingsInit ==
  LET e == [owner |-> First, ver |-> 0] IN
  /\ active = First /\ onDisk = First
  /\ live = [env |-> e, ui |-> 0] /\ file = live
  /\ bag = [p \in Profile |-> IF p = First THEN e ELSE NoBag]
  /\ engine = e
  /\ current = TRUE /\ unsure = FALSE /\ pending = FALSE
  /\ queue = <<>> /\ work = "preflight" /\ results = <<>>
  /\ switch = Idle
  /\ edits = 0
  /\ kept = bag /\ tried = bag

-----------------------------------------------------------------------------
memory     == <<active, live>>
disk       == <<onDisk, file, bag>>
engineSide == <<engine, current, unsure>>
workerSide == <<queue, work, results>>
history    == <<kept, tried>>

\* The UI thread runs one handler at a time.
UiIsFree == switch = Idle
Quiet    == queue = <<>> /\ results = <<>>
MayAct   == UiIsFree /\ (Overlap \/ Quiet)

Queue(next, apply, shell) ==
  queue' = Append(queue, [shell |-> shell, next |-> next, previous |-> live,
                          apply |-> apply, profile |-> active])

\* request_settings_save and enqueue_settings_save; what the engine has to be
\* told is what differs from the live settings.
SaveSettings ==
  /\ MayAct /\ ~pending /\ edits < MaxEdits
  /\ edits' = edits + 1
  /\ LET next == [live EXCEPT !.env.ver = edits'] IN
       /\ Queue(next, TRUE, TRUE)
       /\ tried' = [tried EXCEPT ![active] = next.env]
  /\ pending' = TRUE
  /\ UNCHANGED <<memory, disk, engineSide, work, results, switch, kept>>

\* persist_ui_preferences and persist_core_setup_dismissal: the live settings
\* change at once.
SavePreferences ==
  /\ MayAct /\ edits < MaxEdits
  /\ edits' = edits + 1
  /\ live' = [live EXCEPT !.ui = edits']
  /\ Queue(live', FALSE, FALSE)
  /\ UNCHANGED <<active, disk, engineSide, pending, work, results, switch, history>>

-----------------------------------------------------------------------------
\* The worker: persist_settings_request.
Working(at) == queue # <<>> /\ work = at
Finish(ok) ==
  /\ queue' = Tail(queue)
  /\ work' = "preflight"
  /\ results' = Append(results, [save |-> Head(queue), ok |-> ok])
Goes(at) == work' = at /\ UNCHANGED <<queue, results>>

\* The destination check fails, or aria2 or the coordinator is unavailable.
PreflightRefuses ==
  /\ Working("preflight")
  /\ Finish(FALSE)
  /\ UNCHANGED <<memory, disk, engineSide, pending, switch, edits, history>>
Preflight ==
  /\ Working("preflight")
  /\ Goes(IF Head(queue).apply THEN "apply" ELSE "file")
  /\ UNCHANGED <<memory, disk, engineSide, pending, switch, edits, history>>

ApplyToEngine ==
  /\ Working("apply")
  /\ engine' = Head(queue).next.env
  /\ Goes("file")
  /\ UNCHANGED <<memory, disk, current, unsure, pending, switch, edits, history>>

\* aria2 refuses, and what it had accepted is taken back; or its answer is lost.
ApplyFails ==
  /\ Working("apply")
  /\ \/ UNCHANGED <<engine, unsure>>
     \/ engine' = Head(queue).previous.env /\ UNCHANGED unsure
     \/ engine' = Head(queue).next.env /\ unsure' = TRUE
  /\ Finish(FALSE)
  /\ UNCHANGED <<memory, disk, current, pending, switch, edits, history>>

WriteFile ==
  /\ Working("file")
  /\ file' = Head(queue).next
  /\ Goes("bag")
  /\ UNCHANGED <<memory, onDisk, bag, engineSide, pending, switch, edits, history>>

WriteBag ==
  /\ Working("bag")
  /\ bag' = [bag EXCEPT ![Head(queue).profile] = Head(queue).next.env]
  /\ kept' = [kept EXCEPT ![Head(queue).profile] = Head(queue).next.env]
  /\ Finish(TRUE)
  /\ UNCHANGED <<memory, onDisk, file, engineSide, pending, switch, edits, tried>>

\* One of the two writes fails: the engine gets the previous settings back.
RollBackTheFileOnly ==
  IF Head(queue).apply /\ work = "file"
  THEN \/ engine' = Head(queue).previous.env /\ UNCHANGED unsure
       \/ unsure' = TRUE /\ UNCHANGED engine
  ELSE UNCHANGED <<engine, unsure>>
RollBack ==
  IF Head(queue).apply
  THEN \/ engine' = Head(queue).previous.env /\ UNCHANGED unsure
       \/ unsure' = TRUE /\ UNCHANGED engine
  ELSE UNCHANGED <<engine, unsure>>

WriteFails ==
  /\ Working("file") \/ Working("bag")
  /\ RollBack
  /\ Finish(FALSE)
  /\ UNCHANGED <<memory, disk, current, pending, switch, edits, history>>

\* spawn_settings_result_bridge
TakeResult ==
  /\ UiIsFree /\ results # <<>>
  /\ live' = IF Head(results).ok THEN Head(results).save.next ELSE live
  /\ pending' = (pending /\ ~Head(results).save.shell)
  /\ results' = Tail(results)
  /\ UNCHANGED <<active, disk, engineSide, queue, work, switch, edits, history>>

-----------------------------------------------------------------------------
\* handle_switch_profile, one write at a time.
Others == UNCHANGED <<engineSide, pending, workerSide, edits, tried>>

SwitchProfile(q) ==
  /\ MayAct /\ q # active
  /\ switch' = [at |-> "leave", to |-> q, prev |-> active, env |-> live.env]
  /\ UNCHANGED <<memory, disk, kept>> /\ Others

At(stage)      == switch # Idle /\ switch.at = stage
Onwards(stage) == switch' = [switch EXCEPT !.at = stage]

LeaveBag ==
  /\ At("leave")
  /\ bag' = [bag EXCEPT ![switch.prev] = live.env]
  /\ active' = switch.to
  /\ Onwards("load")
  /\ UNCHANGED <<live, onDisk, file, kept>> /\ Others

\* load_or_initialize: a profile without a bag starts from the live settings.
LoadBag ==
  /\ At("load")
  /\ IF bag[switch.to] = NoBag
     THEN /\ bag' = [bag EXCEPT ![switch.to] = Adopt(live.env, switch.to)]
          /\ kept' = [kept EXCEPT ![switch.to] = bag'[switch.to]]
     ELSE UNCHANGED <<bag, kept>>
  /\ switch' = [switch EXCEPT !.at = "catalog", !.env = bag'[switch.to]]
  /\ UNCHANGED <<memory, onDisk, file>> /\ Others

SaveCatalog ==
  /\ At("catalog")
  /\ onDisk' = active
  /\ Onwards("mirror")
  /\ UNCHANGED <<memory, file, bag, kept>> /\ Others

MirrorIntoFile ==
  /\ At("mirror")
  /\ file' = [live EXCEPT !.env = switch.env]
  /\ Onwards("bag")
  /\ UNCHANGED <<memory, onDisk, bag, kept>> /\ Others

SaveLoadedBag ==
  /\ At("bag")
  /\ bag' = [bag EXCEPT ![switch.to] = switch.env]
  /\ live' = [live EXCEPT !.env = switch.env]
  /\ switch' = Idle
  /\ current' = FALSE
  /\ UNCHANGED <<active, onDisk, file, engine, unsure, pending, workerSide, edits, history>>

\* The write of the stage fails: the catalog in memory goes back, and the one
\* on disk as far as it can be written.
StayActive == active' = active
BackToPrevious == active' = switch.prev

SwitchFails ==
  /\ switch # Idle
  /\ BackToPrevious
  /\ onDisk' \in IF switch.at \in {"mirror", "bag"} THEN {switch.prev, onDisk} ELSE {onDisk}
  /\ switch' = Idle
  /\ UNCHANGED <<live, file, bag, kept>> /\ Others

-----------------------------------------------------------------------------
\* DesktopRoot::new after the desktop ended anywhere: settings.json, and over
\* it the bag of the active profile, which is made if there is none.
Restarted == IF bag[onDisk] = NoBag THEN Adopt(file.env, onDisk) ELSE bag[onDisk]

Restart ==
  /\ active' = onDisk
  /\ live' = [file EXCEPT !.env = Restarted]
  /\ bag' \in {bag, [bag EXCEPT ![onDisk] = Restarted]}
  /\ kept' = [kept EXCEPT ![onDisk] = Restarted]
  /\ engine' = Restarted
  /\ current' = TRUE /\ unsure' = FALSE /\ pending' = FALSE
  /\ queue' = <<>> /\ work' = "preflight" /\ results' = <<>>
  /\ switch' = Idle
  /\ UNCHANGED <<onDisk, file, edits, tried>>

SettingsNext ==
  \/ SaveSettings \/ SavePreferences
  \/ PreflightRefuses \/ Preflight \/ ApplyToEngine \/ ApplyFails
  \/ WriteFile \/ WriteBag \/ WriteFails \/ TakeResult
  \/ \E q \in Profile : SwitchProfile(q)
  \/ LeaveBag \/ LoadBag \/ SaveCatalog \/ MirrorIntoFile \/ SaveLoadedBag \/ SwitchFails
  \/ Restart

SettingsSpec == SettingsInit /\ [][SettingsNext]_settingsVars

-----------------------------------------------------------------------------
\* "each profile owns categories/dirs, download proxy, speed limits, ..."
\* (docs/project-context.md 24): no environment made for one profile ends in
\* the bag of another.
EachProfileOwnsItsBag == \A p \in Profile : bag[p] # NoBag => bag[p].owner = p

\* Whatever failed, and wherever the desktop ends, the next start gives the
\* active profile an environment of its own: the one last reported as saved,
\* or the one whose save did not get to be reported as such.
RestartIsCoherent ==
  /\ EachProfileOwnsItsBag
  /\ file.env.owner = onDisk \/ bag[onDisk] # NoBag
  /\ Restarted \in {kept[onDisk], tried[onDisk]}

\* Between two saves the engine runs with the live settings, and these are the
\* ones a restart would load (apply_engine_policy_only: "the engine never
\* diverges from the source-of-truth settings file"), unless aria2 left a
\* request unanswered or the desktop could not take one back.
EngineFollowsSettings ==
  (Quiet /\ UiIsFree /\ current /\ ~unsure /\ active = onDisk) =>
     engine = live.env /\ live.env = Restarted
=============================================================================
