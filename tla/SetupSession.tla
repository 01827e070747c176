---------------------------- MODULE SetupSession ----------------------------
(***************************************************************************)
(* The session of the setup wizard (controller/src/setup): the project     *)
(* being edited and the commands of the terminal UI that edit it.          *)
(*                                                                         *)
(* The wizard keeps two copies of a channel: the one in the project,       *)
(* `config`, and the one in the row that Devices shows, `mirror`           *)
(* (available_devices[..].current), from which a deselected row comes back *)
(* and which some commands write and some do not.                          *)
(*                                                                         *)
(* Rows are six-joint arms of one driver, each a device of its own, so     *)
(* every pair of them passes the direct-joint whitelist and no parallel    *)
(* pairing of them is valid.  A command that is refused leaves only a      *)
(* message and is not a step.                                              *)
(***************************************************************************)
EXTENDS Integers, SequencesExt

CONSTANTS
  Rows,          \* the rows in the order of discovery
  NoRow,         \* no identify target
  MaxCommands    \* bound: commands in a behaviour

ASSUME SetupAssumption ==
  /\ Rows \in Seq(Range(Rows)) /\ IsInjective(Rows)
  /\ NoRow \notin Range(Rows) /\ MaxCommands \in Nat

VARIABLES
  config,           \* the channels of the selected rows
  mirror,           \* the channels of all rows, as the Devices step has them
  pairings,
  step,             \* current_step, an index of Steps
  identify,         \* identify_device_name, or NoRow
  exit_kind,        \* "none", "saved" or "cancelled"
  config_changed,   \* of the mutations of the pass
  failed,           \* a command returned an error
  commands,         \* commands so far
  astray            \* history: a row was identified outside Devices

sessionVars == <<config, mirror, pairings, step, identify, exit_kind,
                 config_changed, failed, commands, astray>>

Row == Range(Rows)
Steps == <<"Devices", "Pairing", "States", "Storage", "Preview">>
InStep(name) == Steps[step] = name

StateKind == {"joint_position", "end_effector_pose", "parallel_position"}
SupportedStates == {"joint_position", "end_effector_pose"}
Mode == <<"FreeDrive", "CommandFollowing">>
Channel == [mode : Range(Mode), publish : SUBSET StateKind, recorded : SUBSET StateKind]

Policies == <<"direct-joint", "cartesian", "parallel">>
ArmPolicies == {"direct-joint", "cartesian"}
LeaderState(policy) ==
  CASE policy = "direct-joint" -> "joint_position"
    [] policy = "cartesian" -> "end_effector_pose"
    [] policy = "parallel" -> "parallel_position"

PairingFromChannels(policy, l, f) == [leader |-> l, follower |-> f, mapping |-> policy]

RotateIndex(i, len, delta) == ((i - 1 + len + delta) % len) + 1
Next1(s, x, delta) == s[RotateIndex(CHOOSE i \in DOMAIN s : s[i] = x, Len(s), delta)]

(* ProjectConfig::validate, as far as the commands can break it.             *)
ValidPairing(cfg, pair) ==
  /\ {pair.leader, pair.follower} \subseteq DOMAIN cfg
  /\ pair.leader # pair.follower
  /\ LeaderState(pair.mapping) \in cfg[pair.leader].publish
  /\ pair.mapping \in ArmPolicies

ValidChannel(channel) ==
  channel.publish # {} /\ channel.recorded \subseteq channel.publish

Validate(cfg, pairs) ==
  /\ DOMAIN cfg # {}
  /\ \A r \in DOMAIN cfg : ValidChannel(cfg[r])
  /\ \A i \in DOMAIN pairs : ValidPairing(cfg, pairs[i])

Discovered(i) ==
  [mode |-> IF i = 2 THEN "CommandFollowing" ELSE "FreeDrive",
   publish |-> SupportedStates, recorded |-> SupportedStates]

(* A new project starts in Devices, a resumed one in Preview. *)
SessionInit ==
  /\ mirror = [r \in Row |-> Discovered(CHOOSE i \in DOMAIN Rows : Rows[i] = r)]
  /\ config = mirror
  /\ pairings = IF Len(Rows) < 2 THEN <<>>
                ELSE <<PairingFromChannels("direct-joint", Rows[1], Rows[2])>>
  /\ step \in {1, Len(Steps)}
  /\ identify = NoRow /\ exit_kind = "none"
  /\ config_changed = FALSE /\ failed = FALSE
  /\ commands = 0 /\ astray = FALSE

Counted == commands < MaxCommands /\ commands' = commands + 1

(* The edit of a command that ends with `self.config.validate()?`.           *)
Commit(cfg, pairs) ==
  /\ config' = cfg /\ pairings' = pairs
  /\ failed' = ~Validate(cfg, pairs)
  /\ config_changed' = TRUE

-----------------------------------------------------------------------------
(* Steps *)

LeavesDevices(s) == identify' = IF Steps[s] = "Devices" THEN identify ELSE NoRow

Goto(s) ==
  /\ Counted
  /\ step' = s /\ LeavesDevices(s)
  /\ UNCHANGED <<config, mirror, pairings, exit_kind, config_changed, failed>>

(* Mutant: the last step is not the end. *)
AdvancePastEnd ==
  /\ Counted
  /\ step' = step + 1
  /\ identify' = NoRow
  /\ UNCHANGED <<config, mirror, pairings, exit_kind, config_changed, failed>>

AdvanceStep == step < Len(Steps) /\ Goto(step + 1)
RetreatStep == step > 1 /\ Goto(step - 1)
JumpToStep == \E s \in DOMAIN Steps : s # step /\ Goto(s)

-----------------------------------------------------------------------------
(* Devices and the states they publish *)

PrunePairings(cfg) ==
  LET Pruned[n \in 0 .. Len(pairings)] ==
        IF n = 0 THEN <<>>
        ELSE IF {pairings[n].leader, pairings[n].follower} \subseteq DOMAIN cfg
             THEN Append(Pruned[n - 1], pairings[n])
             ELSE Pruned[n - 1]
  IN  Pruned[Len(pairings)]

ToggleDeviceSelection(r) ==
  LET cfg == IF r \in DOMAIN config THEN Restrict(config, DOMAIN config \ {r})
             ELSE [x \in DOMAIN config \cup {r} |-> IF x = r THEN mirror[r] ELSE config[x]]
  IN  /\ Counted
      /\ Commit(cfg, PrunePairings(cfg))
      /\ identify' = IF identify = r /\ r \in DOMAIN config THEN NoRow ELSE identify
      /\ UNCHANGED <<mirror, step, exit_kind>>

(* The mirror is the starting point, and the whole channel of the project is *)
(* overwritten with it; nothing is validated.                                *)
CycleRobotMode(r, delta) ==
  /\ r \in DOMAIN config /\ Counted
  /\ mirror' = [mirror EXCEPT ![r].mode = Next1(Mode, @, delta)]
  /\ config' = [config EXCEPT ![r] = mirror'[r]]
  /\ config_changed' = TRUE
  /\ UNCHANGED <<pairings, step, identify, exit_kind, failed>>

SyncAvailableChannel(r) ==
  mirror' = IF failed' THEN mirror
            ELSE [mirror EXCEPT ![r].publish = config'[r].publish,
                                ![r].recorded = config'[r].recorded]

PublishToggled(r, kind) ==
  IF kind \in config[r].publish
  THEN [config EXCEPT ![r].publish = @ \ {kind}, ![r].recorded = @ \ {kind}]
  ELSE [config EXCEPT ![r].publish = @ \cup {kind}]

(* Mutant: the pairings that need the state are not looked at. *)
TogglePublishAlways(r, kind) ==
  /\ r \in DOMAIN config
  /\ kind \in config[r].publish \cup SupportedStates
  /\ Counted
  /\ Commit(PublishToggled(r, kind), pairings)
  /\ SyncAvailableChannel(r)
  /\ UNCHANGED <<step, identify, exit_kind>>

TogglePublishState(r, kind) ==
  /\ r \in DOMAIN config
  /\ IF kind \in config[r].publish
     THEN \A i \in DOMAIN pairings :
            ~(pairings[i].leader = r /\ LeaderState(pairings[i].mapping) = kind)
     ELSE kind \in SupportedStates
  /\ Counted
  /\ Commit(PublishToggled(r, kind), pairings)
  /\ SyncAvailableChannel(r)
  /\ UNCHANGED <<step, identify, exit_kind>>

ToggleRecordedState(r, kind) ==
  /\ r \in DOMAIN config
  /\ kind \in config[r].publish \cup config[r].recorded
  /\ Counted
  /\ Commit([config EXCEPT ![r].recorded = IF kind \in @ THEN @ \ {kind} ELSE @ \cup {kind}],
            pairings)
  /\ SyncAvailableChannel(r)
  /\ UNCHANGED <<step, identify, exit_kind>>

(* setup_toggle_identify asks for a selected row, whatever the step.         *)
ToggleIdentify(r) ==
  /\ r \in DOMAIN config \cup {identify}
  /\ Counted
  /\ identify' = IF identify = r THEN NoRow ELSE r
  /\ astray' = (astray \/ (identify # r /\ ~InStep("Devices")))
  /\ UNCHANGED <<config, mirror, pairings, step, exit_kind, config_changed, failed>>

-----------------------------------------------------------------------------
(* Pairings.  `except` is the index of the pairing being edited, or 0.       *)

EligibleLeaders(policy, except) ==
  {r \in DOMAIN config :
     /\ policy \in ArmPolicies
     /\ LeaderState(policy) \in config[r].publish
     /\ except # 0 => r # pairings[except].follower}

(* Mutant: a follower may be claimed twice. *)
EligibleTwice(policy, except) ==
  {r \in DOMAIN config :
     /\ policy \in ArmPolicies
     /\ except # 0 => r # pairings[except].leader}

EligibleFollowers(policy, except) ==
  {r \in DOMAIN config :
     /\ policy \in ArmPolicies
     /\ except # 0 => r # pairings[except].leader
     /\ \A i \in DOMAIN pairings \ {except} : r # pairings[i].follower}

(* Both act on the project alone: promote_follower_channel_... looks for the *)
(* row by the name of the device, and rows have names of their own.          *)
EnsurePublishes(cfg, r, kind) ==
  IF r \in DOMAIN cfg THEN [cfg EXCEPT ![r].publish = @ \cup {kind}] ELSE cfg
PromoteFollower(cfg, r) == [cfg EXCEPT ![r].mode = "CommandFollowing"]

WithPairing(pair) ==
  PromoteFollower(EnsurePublishes(config, pair.leader, LeaderState(pair.mapping)),
                  pair.follower)

(* When validation fails only the pairing is taken back.                     *)
CreatePairing(policy, l, f) ==
  LET pair == PairingFromChannels(policy, l, f)
      cfg == WithPairing(pair)
      pairs == Append(pairings, pair)
  IN  /\ l \in EligibleLeaders(policy, 0)
      /\ f \in EligibleFollowers(policy, 0)
      /\ l # f
      /\ Counted
      /\ config' = cfg
      /\ \/ /\ Validate(cfg, pairs)
            /\ pairings' = pairs /\ config_changed' = TRUE
         \/ /\ ~Validate(cfg, pairs)
            /\ UNCHANGED <<pairings, config_changed>>
      /\ UNCHANGED <<mirror, step, identify, exit_kind, failed>>

RemovePairing(i) ==
  /\ i \in DOMAIN pairings /\ Counted
  /\ Commit(config, RemoveAt(pairings, i))
  /\ UNCHANGED <<mirror, step, identify, exit_kind>>

SetPairing(i, pair) ==
  /\ Counted
  /\ Commit(WithPairing(pair), [pairings EXCEPT ![i] = pair])
  /\ UNCHANGED <<mirror, step, identify, exit_kind>>

SetPairingLeader(i, r) ==
  /\ i \in DOMAIN pairings
  /\ r \in EligibleLeaders(pairings[i].mapping, i)
  /\ SetPairing(i, [pairings[i] EXCEPT !.leader = r])

SetPairingFollower(i, r) ==
  /\ i \in DOMAIN pairings
  /\ r \in EligibleFollowers(pairings[i].mapping, i)
  /\ SetPairing(i, [pairings[i] EXCEPT !.follower = r])

Remapped(i, delta) == [pairings[i] EXCEPT !.mapping = Next1(Policies, @, delta)]
ForMapping(pair) == EnsurePublishes(config, pair.leader, LeaderState(pair.mapping))

(* Mutant: on failure the pairing is taken back, the opt-in state is not. *)
CycleKeepsOptIn(i, delta) ==
  LET pairs == [pairings EXCEPT ![i] = Remapped(i, delta)]
      cfg == ForMapping(Remapped(i, delta))
  IN  /\ i \in DOMAIN pairings /\ Counted
      /\ config' = cfg
      /\ pairings' = IF Validate(cfg, pairs) THEN pairs ELSE pairings
      /\ config_changed' = (config_changed \/ Validate(cfg, pairs))
      /\ UNCHANGED <<mirror, step, identify, exit_kind, failed>>

(* Mutant: the new mapping stays although it does not validate. *)
CycleKeepsPairing(i, delta) ==
  /\ i \in DOMAIN pairings /\ Counted
  /\ config' = ForMapping(Remapped(i, delta))
  /\ pairings' = [pairings EXCEPT ![i] = Remapped(i, delta)]
  /\ config_changed' = TRUE
  /\ UNCHANGED <<mirror, step, identify, exit_kind, failed>>

(* A mapping that does not validate is taken back, the opt-in state with it. *)
CyclePairMapping(i, delta) ==
  LET pairs == [pairings EXCEPT ![i] = Remapped(i, delta)]
      cfg == ForMapping(Remapped(i, delta))
  IN  /\ i \in DOMAIN pairings
      /\ Validate(cfg, pairs)
      /\ Counted
      /\ config' = cfg /\ pairings' = pairs
      /\ config_changed' = TRUE
      /\ UNCHANGED <<mirror, step, identify, exit_kind, failed>>

-----------------------------------------------------------------------------
(* setup_save writes the file without validating; the write may fail.        *)
Save ==
  /\ Counted
  /\ \/ exit_kind' = "saved" /\ UNCHANGED failed
     \/ failed' = TRUE /\ UNCHANGED exit_kind
  /\ UNCHANGED <<config, mirror, pairings, step, identify, config_changed>>

Cancel ==
  /\ Counted
  /\ exit_kind' = "cancelled"
  /\ UNCHANGED <<config, mirror, pairings, step, identify, config_changed, failed>>

Delta == {1, -1}

Edit ==
  \/ AdvanceStep \/ RetreatStep \/ JumpToStep
  \/ \E r \in Row :
       \/ ToggleDeviceSelection(r)
       \/ \E d \in Delta : CycleRobotMode(r, d)
       \/ \E k \in StateKind : TogglePublishState(r, k) \/ ToggleRecordedState(r, k)
  \/ \E i \in DOMAIN pairings :
       \/ RemovePairing(i)
       \/ \E d \in Delta : CyclePairMapping(i, d)
       \/ \E r \in Row : SetPairingLeader(i, r) \/ SetPairingFollower(i, r)
  \/ \E p \in Range(Policies), l, f \in Row : CreatePairing(p, l, f)
  \/ Save \/ Cancel

ApplyCommand ==
  \/ Edit /\ UNCHANGED astray
  \/ \E r \in Row : ToggleIdentify(r)
=============================================================================
