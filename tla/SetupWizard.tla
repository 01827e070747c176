---------------------------- MODULE SetupWizard -----------------------------
(***************************************************************************)
(* The runtime of the setup wizard (controller/src/setup/runtime.rs and    *)
(* overview.rs): a loop that watches its children, applies the commands    *)
(* that have arrived, and then makes the preview children and the mode of  *)
(* the identified robot follow the session.  In Devices the children are   *)
(* the device to be identified alone; in Preview they are the whole        *)
(* project, teleop routers included.                                       *)
(*                                                                         *)
(* A robot driver is modelled by what the wizard relies on: it boots in    *)
(* the mode of the configuration it is given, subscribes to mode events    *)
(* some time later and obeys those it gets from then on.                   *)
(***************************************************************************)
EXTENDS SetupSession

VARIABLES
  place,          \* of the loop: "poll", "drain", "sync", "settled" or "ended"
  runtime,        \* the preview runtime, or Stopped
  driver,         \* the driver processes of the robots
  mode_events,    \* the mode event each driver has yet to take, or "none"
  preview_runtime_restarted,
  active_identify_target

processVars == <<runtime, driver, mode_events>>
identifyVars == <<preview_runtime_restarted, active_identify_target>>
wizardVars == <<sessionVars, place, processVars, identifyVars>>

Stopped == [target |-> NoRow, config |-> <<>>, pairings |-> <<>>]
Off == [up |-> "off", mode |-> "none"]

WizardInit ==
  /\ SessionInit
  /\ place = "poll" /\ runtime = Stopped
  /\ driver = [r \in Row |-> Off] /\ mode_events = [r \in Row |-> "none"]
  /\ preview_runtime_restarted = FALSE /\ active_identify_target = NoRow

(* A pass begins; between two passes the loop sleeps.                        *)
Polling == place \in {"poll", "settled"}

-----------------------------------------------------------------------------
(* The robot drivers *)

DriverSubscribes(r) ==
  /\ driver[r].up = "starting"
  /\ driver' = [driver EXCEPT ![r].up = "running"]
  /\ UNCHANGED <<sessionVars, place, runtime, mode_events, identifyVars>>

DriverTakesMode(r) ==
  /\ mode_events[r] # "none"
  /\ driver' = [driver EXCEPT ![r].mode = mode_events[r]]
  /\ mode_events' = [mode_events EXCEPT ![r] = "none"]
  /\ UNCHANGED <<sessionVars, place, runtime, identifyVars>>

-----------------------------------------------------------------------------
(* stop_setup_runtime publishes Shutdown, waits, and terminates what is left *)
(* after 30 s: it returns when no child runs.                                *)
StopRuntime ==
  /\ runtime' = Stopped
  /\ driver' = [r \in Row |-> Off] /\ mode_events' = [r \in Row |-> "none"]

End ==
  /\ place' = "ended"
  /\ StopRuntime
  /\ UNCHANGED <<sessionVars, identifyVars>>

(* A signal, the exit of the UI or of the control server, a preview child    *)
(* that was interrupted: they may come at any time and are looked at here.   *)
LeaveLoop == Polling /\ End

(* A preview child that fails, a device held by another process, say, ends   *)
(* the identification, not the wizard.                                       *)
RecoverPreview ==
  /\ Polling
  /\ runtime # Stopped /\ exit_kind = "none"
  /\ StopRuntime
  /\ identify' = NoRow
  /\ place' = "poll"
  /\ UNCHANGED <<config, mirror, pairings, step, exit_kind, config_changed, failed,
                 commands, astray, identifyVars>>

(* One of the commands that have arrived. *)
Drain ==
  /\ Polling \/ place = "drain"
  /\ ~failed
  /\ ApplyCommand
  /\ place' = "drain"
  /\ UNCHANGED <<processVars, identifyVars>>

(* An error of a command ends the wizard. *)
Abort == place = "drain" /\ failed /\ End

-----------------------------------------------------------------------------
(* The rest of a pass *)

ShouldRunPreview ==
  /\ exit_kind = "none"
  /\ \/ InStep("Preview")
     \/ InStep("Devices") /\ identify # NoRow

DesiredTarget == IF InStep("Devices") THEN identify ELSE NoRow

(* Mutant: the device to be identified boots in its own mode. *)
BuildOwnMode ==
  IF InStep("Devices") /\ identify # NoRow
  THEN [target |-> identify, config |-> [r \in {identify} |-> mirror[r]], pairings |-> <<>>]
  ELSE [target |-> identify, config |-> config, pairings |-> pairings]

(* Mutant: a runtime is not marked with its target. *)
BuildUntargeted ==
  IF InStep("Devices") /\ identify # NoRow
  THEN [target |-> NoRow, config |-> [r \in {identify} |-> [mirror[r] EXCEPT !.mode = "Identifying"]],
        pairings |-> <<>>]
  ELSE [target |-> NoRow, config |-> config, pairings |-> pairings]

(* What start_preview_runtime starts.  The target is the identified row in   *)
(* whatever step.                                                            *)
BuildPreview ==
  IF InStep("Devices") /\ identify # NoRow
  THEN [target |-> identify,
        config |-> [r \in {identify} |-> [mirror[r] EXCEPT !.mode = "Identifying"]],
        pairings |-> <<>>]
  ELSE [target |-> identify, config |-> config, pairings |-> pairings]

Start(preview) ==
  /\ runtime' = preview
  /\ driver' = [r \in Row |->
       IF r \in DOMAIN preview.config
       THEN [up |-> "starting", mode |-> preview.config[r].mode] ELSE Off]
  /\ mode_events' = [r \in Row |-> "none"]

MustStop ==
  /\ runtime # Stopped
  /\ ~ShouldRunPreview \/ config_changed \/ runtime.target # DesiredTarget

(* The loop also forgets an identified row that is no longer selected; there *)
(* is none, see SessionTypeOK.                                               *)
Reconcile ==
  /\ Polling \/ place = "drain"
  /\ ~failed
  /\ \/ /\ MustStop /\ ~ShouldRunPreview
        /\ StopRuntime
        /\ preview_runtime_restarted' = FALSE
     \/ /\ ShouldRunPreview /\ (MustStop \/ runtime = Stopped)
        /\ Start(BuildPreview)
        /\ preview_runtime_restarted' = TRUE
     \/ /\ ~MustStop /\ (ShouldRunPreview => runtime # Stopped)
        /\ preview_runtime_restarted' = FALSE
        /\ UNCHANGED processVars
  /\ config_changed' = FALSE
  /\ place' = "sync"
  /\ UNCHANGED <<config, mirror, pairings, step, identify, exit_kind, failed, commands,
                 astray, active_identify_target>>

(* So does an error of spawning the preview. *)
PreviewSpawnFails ==
  /\ Polling \/ place = "drain"
  /\ ~failed
  /\ ShouldRunPreview /\ (MustStop \/ runtime = Stopped)
  /\ End

(* The mode events of sync_identify_mode: the previous target's own mode, as *)
(* the mirror has it, and Identifying for the new one.  A driver that has    *)
(* not subscribed yet misses them.                                           *)
Published(r) ==
  CASE r = DesiredTarget /\ (preview_runtime_restarted \/ r # active_identify_target)
         -> "Identifying"
    [] r = active_identify_target /\ r # DesiredTarget -> mirror[r].mode
    [] OTHER -> "none"

Sync ==
  /\ place = "sync"
  /\ mode_events' = [r \in Row |->
       IF driver[r].up = "running" /\ Published(r) # "none"
       THEN Published(r) ELSE mode_events[r]]
  /\ active_identify_target' = DesiredTarget
  /\ preview_runtime_restarted' = FALSE
  /\ place' = "settled"
  /\ UNCHANGED <<sessionVars, runtime, driver>>

(* should_exit: 300 ms after Save or Cancel. *)
Exit == place = "settled" /\ exit_kind # "none" /\ End

Ended == place = "ended" /\ UNCHANGED wizardVars

WizardNext ==
  \/ \E r \in Row : DriverSubscribes(r) \/ DriverTakesMode(r)
  \/ LeaveLoop \/ RecoverPreview \/ Drain \/ Abort
  \/ Reconcile \/ PreviewSpawnFails \/ Sync \/ Exit \/ Ended

WizardSpec == WizardInit /\ [][WizardNext]_wizardVars

-----------------------------------------------------------------------------
SessionTypeOK ==
  /\ DOMAIN config \subseteq Row /\ \A r \in DOMAIN config : config[r] \in Channel
  /\ mirror \in [Row -> Channel]
  /\ step \in DOMAIN Steps
  /\ identify \in DOMAIN config \cup {NoRow}
  /\ active_identify_target \in Row \cup {NoRow}
  /\ place \in {"poll", "drain", "sync", "settled", "ended"}
  /\ \A r \in Row : driver[r].up # "off" => r \in DOMAIN runtime.config

(* The preview shows the project that is on the screen: after a pass the     *)
(* children run exactly when the step asks for them and were started from    *)
(* the present configuration, whatever commands the pass applied, took back  *)
(* or half took back, unless the project was already invalid.                *)
PreviewIsCurrent ==
  place = "settled" /\ Validate(config, pairings) /\ ~astray =>
    IF ShouldRunPreview
    THEN <<runtime.config, runtime.pairings>> = <<BuildPreview.config, BuildPreview.pairings>>
    ELSE runtime = Stopped

(* After a pass a driver that has taken its mode events identifies itself if *)
(* it is the one chosen in Devices and else runs in the mode of the project, *)
(* although mode events overtake the drivers' start, unless the row has a    *)
(* mode the project does not have.                                           *)
ModesAsChosen ==
  place = "settled" /\ ~astray => \A r \in Row :
    driver[r].up # "off" /\ mode_events[r] = "none" =>
      \/ driver[r].mode = IF r = DesiredTarget THEN "Identifying" ELSE config[r].mode
      \/ r # DesiredTarget /\ mirror[r].mode # config[r].mode

(* Every pairing joins two selected arms, and no arm follows two leaders,    *)
(* through creation, editing, remapping and the deselection of rows.         *)
PairingsSound ==
  /\ \A i \in DOMAIN pairings :
       /\ {pairings[i].leader, pairings[i].follower} \subseteq DOMAIN config
       /\ pairings[i].leader # pairings[i].follower
  /\ \A i, j \in DOMAIN pairings :
       pairings[i].follower = pairings[j].follower => i = j

(* The session is sound: the step exists, what is identified is selected,    *)
(* and the pairings fit.                                                     *)
SessionSound == SessionTypeOK /\ PairingsSound

(* What the operator may do with a valid project neither makes it invalid    *)
(* nor ends the wizard in an error, unless no device or no state of a device *)
(* is left or the file cannot be written.  Only cycling a robot's mode,      *)
(* which overwrites the channel with the row, makes it invalid.              *)
ValidStays ==
  [][Validate(config, pairings) =>
       \/ /\ Validate(config', pairings')
          /\ failed' => UNCHANGED <<config, pairings>>
       \/ /\ failed'
          /\ DOMAIN config' = {} \/ \E r \in DOMAIN config' : config'[r].publish = {}
       \/ mirror' # mirror /\ \E r \in DOMAIN config : config'[r] = mirror'[r]]_wizardVars

(* The preview is not restarted for ever once commands and failures have     *)
(* stopped, unless a row is identified outside Devices.                      *)
RestartsSettle ==
  []<><<Reconcile /\ runtime # Stopped /\ preview_runtime_restarted'>>_wizardVars
    => <>astray
=============================================================================
