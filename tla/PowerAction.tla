------------------------------ MODULE PowerAction ------------------------------
(***************************************************************************)
(* The completion power action: the computer sleeps or shuts down when the  *)
(* downloads are done (crates/ariadeck-ui/src/shell/power.rs).  Snapshots   *)
(* of the engine start and cancel a countdown, whose seconds are counted by *)
(* a task of its own; the user arms, disarms, cancels or hurries it; and    *)
(* each of these asks for a save of the settings, one at a time, whose      *)
(* result is applied to the shell.  Not modelled: the result of a tracker   *)
(* refresh and of a profile switch, which apply settings as a save does.    *)
(***************************************************************************)
EXTENDS Naturals

CONSTANTS
  Power,    \* sleep, hibernate, shut down
  NoPower,  \* CompletionPowerActionView::None, no countdown, no save
  Seconds   \* of the countdown

ASSUME PowerAssumption == NoPower \notin Power /\ Seconds \in Nat \ {0}

VARIABLES
  action,    \* settings.platform.action_after_done of the shell
  had,       \* power_had_active_tasks
  countdown, \* power_countdown
  left,      \* its remaining_seconds
  tickers,   \* the tasks that count: of this generation, seconds counted
  downloading,    \* counts.active of the last snapshot
  save,      \* pending_settings_save: its action; history: no choice since
  word,      \* history: the action the user chose last
  undone,    \* history: a save's result came after a choice or in a countdown
  acted      \* history: how the last power action came about

powerVars == <<action, had, countdown, left, tickers, downloading, save, word, undone, acted>>

Choice == Power \cup {NoPower}
NoSave == NoPower
Counter     == [mine : BOOLEAN, counted : 0 .. Seconds]
SaveRequest == [to : Choice, fresh : BOOLEAN]
Deed        == [what : Choice, word : Choice, downloading : {0, 1}, asked : BOOLEAN,
                undone : BOOLEAN]

PowerTypeOK ==
  /\ action \in Choice
  /\ had \in BOOLEAN
  /\ countdown \in Choice
  /\ left \in 0 .. Seconds
  /\ tickers \subseteq Counter
  /\ downloading \in {0, 1}
  /\ save \in {NoSave} \cup SaveRequest
  /\ word \in Choice
  /\ undone \in BOOLEAN
  /\ acted \in Deed

PowerInit ==
  /\ action \in Choice
  /\ had = FALSE
  /\ countdown = NoPower
  /\ left = 0
  /\ tickers = {}
  /\ downloading = 0
  /\ save = NoSave
  /\ word = action
  /\ undone = FALSE
  /\ acted = [what |-> NoPower, word |-> NoPower, downloading |-> 0, asked |-> TRUE,
              undone |-> FALSE]

-----------------------------------------------------------------------------
\* A new power_countdown_generation.
Older == {[t EXCEPT !.mine = FALSE] : t \in tickers}

\* request_settings_save: dropped while another is pending.
RequestSave(a) ==
  save' = IF save = NoSave THEN [to |-> a, fresh |-> TRUE] ELSE [save EXCEPT !.fresh = FALSE]

StartCountdown ==
  /\ countdown' = action
  /\ left' = Seconds
  /\ tickers' = Older \cup {[mine |-> TRUE, counted |-> 0]}

NoCountdown ==
  /\ countdown' = NoPower
  /\ left' = 0
  /\ tickers' = Older

Disarm ==
  /\ action' = NoPower
  /\ had' = FALSE
  /\ RequestSave(NoPower)
  /\ word' = NoPower

Act(asked) ==
  /\ acted' = [what |-> countdown, word |-> word, downloading |-> downloading, asked |-> asked,
               undone |-> undone]
  /\ undone' = FALSE

\* set_snapshot and check_power_action_trigger
Snapshot(a, waiting) ==
  /\ downloading' = a
  /\ IF action = NoPower THEN UNCHANGED <<had, countdown, left, tickers>>
     ELSE IF a > 0
     THEN /\ had' = TRUE
          /\ IF countdown # NoPower THEN NoCountdown
             ELSE UNCHANGED <<countdown, left, tickers>>
     ELSE /\ UNCHANGED had
          /\ IF had /\ waiting = 0 /\ countdown = NoPower THEN StartCountdown
             ELSE UNCHANGED <<countdown, left, tickers>>
  /\ UNCHANGED <<action, save, word, undone, acted>>

\* tick_power_countdown; a task of an older generation, or without a
\* countdown, ends.
CountsAny(t) == TRUE
Counts(t)    == t.mine
IsCounted(t) == Counts(t) /\ countdown # NoPower

TickEnds(t) ==
  /\ t \in tickers /\ ~IsCounted(t)
  /\ tickers' = tickers \ {t}
  /\ UNCHANGED <<action, had, countdown, left, downloading, save, word, undone, acted>>
Tick(t) ==
  /\ t \in tickers /\ IsCounted(t) /\ left > 1
  /\ left' = left - 1
  /\ tickers' = (tickers \ {t}) \cup {[t EXCEPT !.counted = @ + 1]}
  /\ UNCHANGED <<action, had, countdown, downloading, save, word, undone, acted>>
LastTick(t) ==
  /\ t \in tickers /\ IsCounted(t) /\ left <= 1
  /\ countdown' = NoPower /\ left' = 0
  /\ tickers' = tickers \ {t}
  /\ Disarm
  /\ Act(t.counted + 1 = Seconds)
  /\ UNCHANGED downloading

\* execute_power_action_now
ExecuteNow ==
  /\ countdown # NoPower
  /\ NoCountdown
  /\ Disarm
  /\ Act(TRUE)
  /\ UNCHANGED downloading

\* cancel_power_countdown
CancelCountdown ==
  /\ countdown # NoPower
  /\ NoCountdown
  /\ Disarm
  /\ undone' = FALSE
  /\ UNCHANGED <<downloading, acted>>

\* select_completion_action
Select(a) ==
  /\ a # action
  /\ action' = a
  /\ word' = a
  /\ RequestSave(a)
  /\ undone' = (undone /\ countdown # NoPower /\ a # NoPower)
  /\ IF a = NoPower
     THEN had' = FALSE /\ NoCountdown
     ELSE IF countdown # NoPower
     THEN countdown' = a /\ UNCHANGED <<had, left, tickers>>
     ELSE had' = (downloading > 0) /\ UNCHANGED <<countdown, left, tickers>>
  /\ UNCHANGED <<downloading, acted>>

\* The settings page, where the action is a draft until it is saved; and every
\* other setting, saved with the action as it is.
SaveSettingsPage(a) ==
  /\ save = NoSave
  /\ RequestSave(a)
  /\ UNCHANGED <<action, had, countdown, left, tickers, downloading, word, undone, acted>>

\* set_settings_save_result and apply_settings
SaveSucceeds ==
  /\ save # NoSave
  /\ action' = save.to
  /\ word' = IF save.fresh THEN save.to ELSE word
  /\ undone' = (undone \/ ~save.fresh \/ countdown \notin {NoPower, save.to})
  /\ save' = NoSave
  /\ UNCHANGED <<had, countdown, left, tickers, downloading, acted>>
SaveIsRefused ==
  /\ save # NoSave
  /\ save' = NoSave
  /\ UNCHANGED <<action, had, countdown, left, tickers, downloading, word, undone, acted>>

PowerNext ==
  \/ \E a, waiting \in {0, 1} : Snapshot(a, waiting)
  \/ \E t \in tickers : TickEnds(t) \/ Tick(t) \/ LastTick(t)
  \/ ExecuteNow \/ CancelCountdown
  \/ \E a \in Choice : Select(a) \/ SaveSettingsPage(a)
  \/ SaveSucceeds \/ SaveIsRefused

PowerSpec == PowerInit /\ [][PowerNext]_powerVars

-----------------------------------------------------------------------------
\* The computer does what the user chose last, when nothing is downloading, and
\* after one task has counted all the seconds the dialog promises, or at once
\* when the user says so; unless the result of a save that was under way took
\* a choice back.
ActsOnlyWhenDone ==
  ~acted.undone => acted.what = acted.word /\ acted.downloading = 0 /\ acted.asked
=============================================================================
