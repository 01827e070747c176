--------------------------- MODULE TeleopRouter ---------------------------
(***************************************************************************)
(* The teleop router (teleop-router/src/lib.rs): it forwards the leader    *)
(* arm's state to the follower arm as commands, after an initial ramp that *)
(* keeps the follower from snapping to the leader.                         *)
(*                                                                         *)
(* Positions are integers, one per axis: the joints for the joint ramp, a  *)
(* translation and a rotation for the cartesian ramp (both are clamped     *)
(* along the line to the leader, so one number each is enough).  The two   *)
(* axes of a pose have limits of their own in the code; one MaxStep and    *)
(* one Threshold stand for them.  A subscriber is drained to its newest    *)
(* sample, so only that one is kept.                                       *)
(***************************************************************************)
EXTENDS Integers

CONSTANTS
  Axis,         \* values of a command
  Reported,     \* of those, the ones the follower reports
  IndexMap,     \* joint_index_map: the leader value behind each axis
  Scale,        \* joint_scales
  Position,     \* positions the arms may report
  MaxStep,      \* SYNC_MAX_STEP_*
  Threshold,    \* SYNC_COMPLETE_THRESHOLD_*
  Hold,         \* SYNC_HOLD_DURATION
  MaxTime,      \* bound: the clock
  MaxStamp      \* bound: timestamps of leader samples

ASSUME AxisAssumption == Reported \subseteq Axis
ASSUME MappingAssumption == IndexMap \in [Axis -> Axis] /\ Scale \in [Axis -> Int]
ASSUME PositionAssumption == Position \subseteq Int /\ Position # {}
ASSUME LimitAssumption == MaxStep \in Nat /\ Threshold \in Nat /\ Hold \in Nat
ASSUME BoundAssumption == MaxTime \in Nat /\ MaxStamp \in Nat

VARIABLES
  Ramp,            \* SyncState::new, chosen by the configuration
  leader,          \* newest sample on the leader's state topic, and its timestamp
  leader_stamp,
  leader_waits,    \* it has not been read yet
  leader_complete, \* it has every value the mapping asks for
  follower,        \* newest sample on the follower's state topic
  follower_waits,
  shutdown,        \* Shutdown was published
  now,             \* the monotonic clock
  routerPhase,     \* place in run_router's loop
  follower_state, follower_seen,            \* Option<LeaderState>
  last_forwarded_timestamp_us,              \* 0: None
  synced,
  ramp_pose, ramp_set,                      \* Option<Pose7>
  closeness_started_at, close,              \* Option<Instant>
  command, commanded,      \* history: the last command published, if any
  ramped, basis,           \* history: it was ramped, against this follower state
  last_far,                \* history: when the gap was last seen too wide
  synced_at                \* history: when the ramp was declared complete

sample == <<leader, leader_stamp, leader_waits, leader_complete>>
inputs == <<sample, follower, follower_waits, shutdown, now>>
feedback == <<follower_state, follower_seen>>
sync == <<synced, ramp_pose, ramp_set, closeness_started_at, close>>
history == <<command, commanded, ramped, basis, last_far, synced_at>>
vars == <<Ramp, inputs, routerPhase, feedback, last_forwarded_timestamp_us, sync, history>>

(* The SyncState a configuration may ask for; a pose is reported as a whole. *)
RampKind ==
  {"joint", "disabled"} \cup (IF Reported = Axis THEN {"cartesian"} ELSE {})

Sample == [Axis -> Position]
Target == [Axis -> Int]

Init ==
  /\ Ramp \in RampKind
  /\ leader \in Sample /\ leader_stamp = 0
  /\ leader_waits = FALSE /\ leader_complete = TRUE
  /\ follower \in Sample /\ follower_waits = FALSE
  /\ shutdown = FALSE /\ now = 0
  /\ routerPhase = "control"
  /\ follower_state = follower /\ follower_seen = FALSE
  /\ last_forwarded_timestamp_us = 0
  /\ synced = FALSE
  /\ ramp_pose = follower /\ ramp_set = FALSE
  /\ closeness_started_at = 0 /\ close = FALSE
  /\ command = follower /\ commanded = FALSE /\ ramped = FALSE /\ basis = follower
  /\ last_far = 0 /\ synced_at = 0

-----------------------------------------------------------------------------
(* The two arms, the controller and the clock. *)

LeaderReports(p) ==
  /\ \E stamp \in {leader_stamp, leader_stamp + 1} :
       stamp \in 1 .. MaxStamp /\ leader_stamp' = stamp
  /\ leader' = p /\ leader_waits' = TRUE
  /\ leader_complete' \in IF Ramp = "cartesian" THEN {TRUE} ELSE BOOLEAN
  /\ UNCHANGED <<follower, follower_waits, shutdown, now, routerPhase, feedback,
                 last_forwarded_timestamp_us, sync, history>>

FollowerReports(p) ==
  /\ follower' = p /\ follower_waits' = TRUE
  /\ UNCHANGED <<sample, shutdown, now, routerPhase, feedback,
                 last_forwarded_timestamp_us, sync, history>>

ShutdownPublished ==
  /\ shutdown' = TRUE
  /\ UNCHANGED <<sample, follower, follower_waits, now,
                 routerPhase, feedback, last_forwarded_timestamp_us, sync, history>>

TimePasses ==
  /\ now < MaxTime
  /\ now' = now + 1
  /\ UNCHANGED <<sample, follower, follower_waits, shutdown,
                 routerPhase, feedback, last_forwarded_timestamp_us, sync, history>>

-----------------------------------------------------------------------------
(* One iteration: control events, follower state, leader state. *)

DrainControlEvents ==
  /\ routerPhase = "control"
  /\ routerPhase' = IF shutdown THEN "exited" ELSE "follower"
  /\ UNCHANGED <<inputs, feedback, last_forwarded_timestamp_us, sync, history>>

DrainFollower ==
  /\ routerPhase = "follower"
  /\ routerPhase' = "leader"
  /\ IF follower_waits
     THEN follower_state' = follower /\ follower_seen' = TRUE
     ELSE UNCHANGED feedback
  /\ follower_waits' = FALSE
  /\ UNCHANGED <<sample, follower, shutdown, now, last_forwarded_timestamp_us, sync,
                 history>>

(* Nothing to read, or a sample that was forwarded before. *)
NoNewLeaderState ==
  /\ routerPhase = "leader"
  /\ leader_waits => leader_stamp = last_forwarded_timestamp_us
  /\ routerPhase' = "control"
  /\ leader_waits' = FALSE
  /\ UNCHANGED <<leader, leader_stamp, leader_complete, follower, follower_waits, shutdown,
                 now, feedback, last_forwarded_timestamp_us, sync, history>>

NewLeaderState ==
  /\ routerPhase = "leader"
  /\ leader_waits
  /\ leader_stamp # last_forwarded_timestamp_us
  /\ leader_waits' = FALSE

(* LeaderValueOutOfRange ends the process. *)
RouteError ==
  /\ NewLeaderState
  /\ ~leader_complete
  /\ routerPhase' = "exited"
  /\ UNCHANGED <<leader, leader_stamp, leader_complete, follower, follower_waits, shutdown,
                 now, feedback, last_forwarded_timestamp_us, sync, history>>

TakeLeaderState ==
  /\ NewLeaderState
  /\ leader_complete
  /\ routerPhase' = "control"
  /\ UNCHANGED <<leader, leader_stamp, leader_complete, follower, follower_waits, shutdown,
                 now, feedback>>

(* map_leader_state, apply_joint_mapping; a pose is forwarded as it is. *)
Mapped(state) ==
  IF Ramp = "cartesian" THEN state
  ELSE [a \in Axis |-> state[IndexMap[a]] * Scale[a]]

Ramping == Ramp # "disabled" /\ ~synced

(* publish_command *)
PublishCommand(target) ==
  /\ command' = target /\ commanded' = TRUE
  /\ ramped' = Ramping /\ basis' = follower_state
  /\ last_forwarded_timestamp_us' = leader_stamp

Forward ==
  /\ TakeLeaderState
  /\ ~Ramping
  /\ PublishCommand(Mapped(leader))
  /\ UNCHANGED <<sync, last_far, synced_at>>

(* SyncOutcome::Hold *)
HoldSample ==
  /\ TakeLeaderState
  /\ Ramping /\ ~follower_seen
  /\ UNCHANGED <<last_forwarded_timestamp_us, sync, command, commanded, ramped, basis,
                 last_far, synced_at>>

-----------------------------------------------------------------------------
Within(d, limit) == -limit <= d /\ d <= limit

(* Mutant: the step limit is applied on one side only. *)
ClampAbove(target, anchor) ==
  IF target - anchor > MaxStep THEN anchor + MaxStep ELSE target

(* diff.clamp(-max_step, max_step), clamp_translation, clamp_rotation *)
Clamp(target, anchor) ==
  IF target - anchor > MaxStep THEN anchor + MaxStep
  ELSE IF anchor - target > MaxStep THEN anchor - MaxStep
  ELSE target

(* The gap between the live leader and the live follower. *)
GapClosed == \A a \in Reported : Within(Mapped(leader)[a] - follower_state[a], Threshold)

(* JointSyncState::apply: the follower's own position anchors the step; a    *)
(* value the follower does not report is forwarded as it is.                 *)
RampJoint ==
  /\ TakeLeaderState
  /\ Ramp = "joint" /\ Ramping /\ follower_seen
  /\ PublishCommand([a \in Axis |-> IF a \in Reported
                                    THEN Clamp(Mapped(leader)[a], follower_state[a])
                                    ELSE Mapped(leader)[a]])
  /\ synced' = GapClosed
  /\ synced_at' = IF GapClosed THEN now ELSE synced_at
  /\ last_far' = IF GapClosed THEN last_far ELSE now
  /\ UNCHANGED <<ramp_pose, ramp_set, closeness_started_at, close>>

(* CartesianSyncState::apply_with_clock: the last target anchors the step.   *)
(* Close to the leader, the leader itself is published and the hold window   *)
(* runs.                                                                     *)
CartesianClose ==
  /\ TakeLeaderState
  /\ Ramp = "cartesian" /\ Ramping /\ follower_seen
  /\ GapClosed
  /\ PublishCommand(Mapped(leader))
  /\ ramp_pose' = Mapped(leader) /\ ramp_set' = TRUE
  /\ close' = TRUE
  /\ closeness_started_at' = IF close THEN closeness_started_at ELSE now
  /\ synced' = IF now - closeness_started_at' >= Hold THEN TRUE ELSE synced
  /\ synced_at' = IF synced' THEN now ELSE synced_at
  /\ UNCHANGED last_far

(* Mutant: the ramp starts from an anchor the follower never reported. *)
AnchorUnset == ramp_pose

Anchor == IF ramp_set THEN ramp_pose ELSE follower_state

Step(target) == [a \in Axis |-> Clamp(target[a], Anchor[a])]

(* Mutant: a tick with a wide gap does not restart the window. *)
CartesianFarKeepsStreak ==
  /\ TakeLeaderState
  /\ Ramp = "cartesian" /\ Ramping /\ follower_seen
  /\ ~GapClosed
  /\ PublishCommand(Step(Mapped(leader)))
  /\ ramp_pose' = Step(Mapped(leader)) /\ ramp_set' = TRUE
  /\ last_far' = now
  /\ UNCHANGED <<synced, closeness_started_at, close, synced_at>>

(* Mutant: the anchor does not follow the published target. *)
CartesianFarForgetsAnchor ==
  /\ TakeLeaderState
  /\ Ramp = "cartesian" /\ Ramping /\ follower_seen
  /\ ~GapClosed
  /\ PublishCommand(Step(Mapped(leader)))
  /\ ramp_pose' = Anchor /\ ramp_set' = TRUE
  /\ close' = FALSE
  /\ last_far' = now
  /\ UNCHANGED <<synced, closeness_started_at, synced_at>>

CartesianFar ==
  /\ TakeLeaderState
  /\ Ramp = "cartesian" /\ Ramping /\ follower_seen
  /\ ~GapClosed
  /\ PublishCommand(Step(Mapped(leader)))
  /\ ramp_pose' = Step(Mapped(leader)) /\ ramp_set' = TRUE
  /\ close' = FALSE
  /\ last_far' = now
  /\ UNCHANGED <<synced, closeness_started_at, synced_at>>

-----------------------------------------------------------------------------
Loop ==
  \/ DrainControlEvents \/ DrainFollower
  \/ NoNewLeaderState \/ RouteError \/ Forward \/ HoldSample
  \/ RampJoint \/ CartesianClose \/ CartesianFar

Finished == routerPhase = "exited" /\ UNCHANGED vars

Next ==
  /\ \/ \E p \in Sample : LeaderReports(p) \/ FollowerReports(p)
     \/ ShutdownPublished \/ TimePasses
     \/ Loop \/ Finished
  /\ UNCHANGED Ramp

Spec == Init /\ [][Next]_vars

-----------------------------------------------------------------------------
ValuesOK ==
  /\ leader \in Sample /\ follower \in Sample /\ follower_state \in Sample
  /\ leader_stamp \in 0 .. MaxStamp /\ last_forwarded_timestamp_us \in 0 .. leader_stamp
  /\ now \in 0 .. MaxTime
  /\ closeness_started_at \in 0 .. MaxTime
  /\ last_far \in 0 .. MaxTime /\ synced_at \in 0 .. MaxTime
  /\ ramp_pose \in Target /\ command \in Target /\ basis \in Sample

FlagsOK ==
  /\ Ramp \in RampKind
  /\ leader_waits \in BOOLEAN /\ leader_complete \in BOOLEAN
  /\ follower_waits \in BOOLEAN /\ follower_seen \in BOOLEAN /\ shutdown \in BOOLEAN
  /\ synced \in BOOLEAN /\ ramp_set \in BOOLEAN /\ close \in BOOLEAN
  /\ commanded \in BOOLEAN /\ ramped \in BOOLEAN
  /\ routerPhase \in {"control", "follower", "leader", "exited"}

(* Every variable has its type, and no forwarded stamp is ahead of the leader. *)
TypeOK == ValuesOK /\ FlagsOK

Limit == IF MaxStep > Threshold THEN MaxStep ELSE Threshold

(* While the joint ramp runs, no joint is sent further than MaxStep from the *)
(* position the follower last reported, wherever the leader is and however   *)
(* the two arms' samples interleave.                                         *)
JointRampNearFollower ==
  Ramp = "joint" /\ ramped => \A a \in Reported : Within(command[a] - basis[a], MaxStep)

(* "The very first command we publish is close to where the follower already *)
(* is", and none is published before the follower has reported.              *)
FirstCommandNear ==
  [][Ramp # "disabled" /\ ~commanded /\ commanded' =>
       /\ follower_seen
       /\ \A a \in Reported : Within(command'[a] - follower_state[a], Limit)]_vars

(* The cartesian target has no jump: a ramped target lies within MaxStep of  *)
(* the target before it, or within Threshold of the follower.                *)
TargetContinuous ==
  [][Ramp = "cartesian" /\ commanded /\ ramped' /\ commanded' =>
       \/ \A a \in Axis : Within(command'[a] - command[a], MaxStep)
       \/ \A a \in Axis : Within(command'[a] - basis'[a], Threshold)]_vars

(* Pass-through is earned: when the cartesian ramp is declared complete, no  *)
(* tick of the last Hold saw the gap too wide.                               *)
PassThroughEarned == Ramp = "cartesian" /\ synced => synced_at - last_far >= Hold
============================================================================
