------------------------------- MODULE MCDesktop -------------------------------
(***************************************************************************)
(* ProfileSettings, DocumentFile, LaunchQueue, CoreRegistry, PowerAction,   *)
(* ShellCommands and DetailsDrawer in one run.  They share no variable, so  *)
(* a behaviour moves only one of them: `part`, chosen once; the others      *)
(* start in one state.                                                      *)
(***************************************************************************)
EXTENDS ProfileSettings, DocumentFile, LaunchQueue, CoreRegistry, PowerAction,
        ShellCommands, DetailsDrawer, TLC

CONSTANTS f1, f2, f3, x1, x2, x3, x4, t1, t2, t3, d1, d2

VARIABLE part

vars == <<part, settingsVars, fileVars, launchVars, registryVars, powerVars, shellVars,
          detailsVars>>

\* Three requests that together are one item too many.
OneHeaderDiffers == (x1 :> 1) @@ (x2 :> 1) @@ (x3 :> 2) @@ (x4 :> 1)
LaunchOf(f, m, d) == [files |-> f, magnets |-> m, downloads |-> d]
FourItems ==
  {(f1 :> LaunchOf(<<>>, <<>>, <<x1, x3>>)) @@ (f2 :> LaunchOf(<<>>, <<x2>>, <<>>))
      @@ (f3 :> LaunchOf(<<x4>>, <<>>, <<>>)),
   (f1 :> LaunchOf(<<x1>>, <<x2>>, <<>>)) @@ (f2 :> LaunchOf(<<>>, <<>>, <<x3>>))
      @@ (f3 :> LaunchOf(<<>>, <<>>, <<x4>>))}

\* A magnet link and its download; a task of another profile.
OfTwoProfiles == (t1 :> 1) @@ (t2 :> 1) @@ (t3 :> 2)
OneFollows    == (t1 :> t2) @@ (t2 :> NoTask) @@ (t3 :> NoTask)

\* A magnet link and its download.
DownloadFollows == (d1 :> d2) @@ (d2 :> NoDownload)

Init ==
  /\ part \in {"settings", "file", "launch", "registry", "power", "shell", "details"}
  /\ SettingsInit /\ FileInit /\ LaunchInit /\ RegistryInit /\ PowerInit /\ ShellInit
  /\ DetailsInit
  /\ part # "file" => kind = "settings" /\ ~windows
  /\ part # "launch" => auto /\ launch = CHOOSE l \in Launches : TRUE
  /\ part # "power" => action = NoPower
  /\ part # "shell" => profile = 1

Settled   == part = "settings"
             /\ UNCHANGED <<part, fileVars, launchVars, registryVars, powerVars, shellVars,
                             detailsVars>>
File      == part = "file"
             /\ UNCHANGED <<part, settingsVars, launchVars, registryVars, powerVars, shellVars,
                             detailsVars>>
Launched  == part = "launch"
             /\ UNCHANGED <<part, settingsVars, fileVars, registryVars, powerVars, shellVars,
                             detailsVars>>
Registry  == part = "registry"
             /\ UNCHANGED <<part, settingsVars, fileVars, launchVars, powerVars, shellVars,
                             detailsVars>>
Powering  == part = "power"
             /\ UNCHANGED <<part, settingsVars, fileVars, launchVars, registryVars, shellVars,
                             detailsVars>>
Commands  == part = "shell"
             /\ UNCHANGED <<part, settingsVars, fileVars, launchVars, registryVars, powerVars,
                             detailsVars>>
Showing   == part = "details"
             /\ UNCHANGED <<part, settingsVars, fileVars, launchVars, registryVars, powerVars,
                             shellVars>>

Next ==
  \/ Settled /\ SaveSettings
  \/ Settled /\ SavePreferences
  \/ Settled /\ PreflightRefuses
  \/ Settled /\ Preflight
  \/ Settled /\ ApplyToEngine
  \/ Settled /\ ApplyFails
  \/ Settled /\ WriteFile
  \/ Settled /\ WriteBag
  \/ Settled /\ WriteFails
  \/ Settled /\ TakeResult
  \/ \E x \in Profile : Settled /\ SwitchProfile(x)
  \/ Settled /\ LeaveBag
  \/ Settled /\ LoadBag
  \/ Settled /\ SaveCatalog
  \/ Settled /\ MirrorIntoFile
  \/ Settled /\ SaveLoadedBag
  \/ Settled /\ SwitchFails
  \/ Settled /\ Restart
  \/ \E w \in Writer : \/ \E v \in Value : File /\ BeginSave(w, v)
                       \/ File /\ CreateTemp(w)
                       \/ File /\ WriteTemp(w)
                       \/ File /\ Replace(w)
                       \/ File /\ RemoveTarget(w)
                       \/ File /\ SaveFails(w)
  \/ File /\ Launch
  \/ File /\ ReadGood
  \/ File /\ ReadNothing
  \/ File /\ ReadUnusable
  \/ File /\ Preserve
  \/ File /\ PreserveCopy
  \/ File /\ RemoveCopied
  \/ File /\ SaveDefaults
  \/ File /\ End
  \/ \E v \in Value \cup Bad : File /\ Arrives(v)
  \/ \E f \in Forwarder : \/ Launched /\ Send(f)
                          \/ Launched /\ Fails(f)
                          \/ Launched /\ Handle(f)
                          \/ Launched /\ Reject(f)
  \/ Launched /\ ReceiveRequest
  \/ Launched /\ OpenWaiting
  \/ Launched /\ ShellChanges
  \/ Launched /\ DesktopEnds
  \/ \E c \in Caller : \/ \E v \in Version : Registry /\ Install(c, v)
                       \/ Registry /\ Promote(c)
                       \/ Registry /\ LoadToAdd(c)
                       \/ Registry /\ SaveAdded(c)
                       \/ Registry /\ GiveUp(c)
  \/ \E c \in Shell : \/ Registry /\ Link(c)
                      \/ \E k \in cores : \/ Registry /\ Activate(c, k)
                                          \/ Registry /\ RemoveCore(c, k)
                      \/ Registry /\ SaveActivated(c)
                      \/ Registry /\ SaveRemoved(c)
                      \/ Registry /\ Clear(c)
  \/ Registry /\ RestartDesktop
  \/ \E n, waits \in {0, 1} : Powering /\ Snapshot(n, waits)
  \/ \E t \in tickers : \/ Powering /\ TickEnds(t)
                        \/ Powering /\ Tick(t)
                        \/ Powering /\ LastTick(t)
  \/ Powering /\ ExecuteNow
  \/ Powering /\ CancelCountdown
  \/ \E x \in Choice : \/ Powering /\ Select(x)
                       \/ Powering /\ SaveSettingsPage(x)
  \/ Powering /\ SaveSucceeds
  \/ Powering /\ SaveIsRefused
  \/ \E ok \in BOOLEAN :
       \/ Commands /\ LightSnapshot(ok)
       \/ \E p \in Profiles, new \in SUBSET Task, s \in 0 .. MaxSessions :
            Commands /\ SetSnapshot(p, new, s, ok)
  \/ \E t \in Task : \/ Commands /\ Click(t)
                     \/ Commands /\ Toggle(t)
                     \/ Commands /\ OpenContextMenu(t)
                     \/ \E r \in SUBSET Task : Commands /\ MarkRange(t, r)
  \/ Commands /\ SelectAll
  \/ Commands /\ ToggleAll
  \/ Commands /\ ClearMarks
  \/ \E scope \in Scope, k \in CommandKind : Commands /\ Begin(scope, k)
  \/ Commands /\ ConfirmRemove
  \/ Commands /\ CloseConfirmation
  \/ Commands /\ SubmitConfirmation
  \/ \E c \in sent :
       \/ Commands /\ DropAnswer(c)
       \/ Commands /\ AnswerKeepsSelection(c)
       \/ Commands /\ TaskRemoved(c)
       \/ \E t \in Task : Commands /\ TaskRetried(c, t)
       \/ \E failed, new \in SUBSET Task, whole \in BOOLEAN :
            Commands /\ BatchAnswered(c, failed, whole, new)
  \/ Commands /\ CloseFailures
  \/ \E t \in Download : \/ Showing /\ TaskChanges(t)
                         \/ Showing /\ StoreForgets(t)
                         \/ Showing /\ StoreLists(t)
                         \/ Showing /\ OpenDetails(t)
  \/ Showing /\ CloseDetails
  \/ Showing /\ RetryDetails
  \/ Showing /\ IntervalElapses
  \/ \E visible \in SUBSET Download, s \in Attempt, ok, focus \in BOOLEAN :
       Showing /\ ShowSnapshot(visible, s, ok, focus)
  \/ \E c \in requests : \/ Showing /\ EngineReads(c)
                         \/ Showing /\ IgnoreAnswer(c)
                         \/ \E good \in BOOLEAN : Showing /\ Answer(c, good)

Spec == Init /\ [][Next]_vars
=============================================================================
