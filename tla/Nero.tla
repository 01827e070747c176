-------------------------------- MODULE Nero --------------------------------
(***************************************************************************)
(* The AGX Nero driver (robots/nero/src/rollio_device_nero/runtime): the   *)
(* arm thread, which computes the joint targets itself and homes the arm   *)
(* before it ends, and the gripper thread.                                 *)
(*                                                                         *)
(* Joints are clamped and ramped one by one, so there is one; angles are   *)
(* integers.  Inverse kinematics is a choice of a goal; its seed cache,    *)
(* gains and torques are left out, except that a target is tracked or not  *)
(* (kp > 0).  Time is counted in control periods; a tick may be late.      *)
(***************************************************************************)
EXTENDS DriverThreads

CONSTANTS
  Angle,       \* measured positions, and goals of commands
  HoldQ,       \* DISABLED_HOLD_Q
  MaxDelta,    \* MAX_COMMAND_JOINT_DELTA_RAD
  RampTime,    \* RAMP_DURATION_S
  Settle,      \* HOMING_SETTLE_S
  MaxDelay     \* bound: periods from one tick to the next

ASSUME AngleAssumption == Angle \subseteq Int /\ Angle # {} /\ HoldQ \in Int
ASSUME ClampAssumption == MaxDelta \in Nat \ {0}
ASSUME TimeAssumption ==
  RampTime \in Nat \ {0} /\ Settle \in Nat /\ MaxDelay \in 1 .. Settle

VARIABLES
  angle,                  \* the joint, as the CAN reader has it
  sensed,                 \* the reader has had a frame
  ramping, q_start, elapsed,   \* _disabled_ramp; time since started_at
  target, targeted,       \* _latest_joint_target
  last_sent, anchored,    \* _last_sent_p_des
  homing_left,            \* time to homing_deadline
  identify_started,       \* the gripper's _identify_started_at is set
  sent,                   \* history: the last target sent, ...
  tracking,               \* ... and a tracked one was sent since mode or ramp began
  measured,               \* history: the pose read on entering Disabled
  blind,                  \* history: there was none, the ramp starts at zero
  goal, commanded,        \* history: the goal of the last command of this stay
  homed                   \* history: homing began with feedback

ramp == <<ramping, q_start, elapsed>>
follow == <<target, targeted, last_sent, anchored, goal, commanded>>
neroHistory == <<sent, tracking, measured, blind, homed>>
arm == <<angle, sensed, ramp, follow, homing_left, neroHistory>>
neroVars == <<driverVars, arm, identify_started>>

ArmInit ==
  /\ angle \in Angle /\ sensed \in BOOLEAN
  /\ ramping = FALSE /\ q_start = 0 /\ elapsed = 0
  /\ target = 0 /\ targeted = FALSE
  /\ last_sent = 0 /\ anchored = FALSE
  /\ homing_left = 0
  /\ sent = 0 /\ tracking = FALSE /\ measured = 0 /\ blind = FALSE
  /\ goal = 0 /\ commanded = FALSE
  /\ homed = FALSE

(* Mutant: the constructor does not know the configured mode. *)
GripperInitUnset == identify_started = FALSE

GripperInit == identify_started = (mode["eef"] = "Identifying")

NeroInit(boot) == ThreadsInit(boot, "check") /\ ArmInit /\ GripperInit

-----------------------------------------------------------------------------
(* The arm itself: it is pushed, it lags, it follows; its first frame comes. *)

ArmMoves ==
  /\ angle' \in Angle /\ sensed' \in {sensed, TRUE}
  /\ UNCHANGED <<driverVars, ramp, follow, homing_left, neroHistory, identify_started>>

-----------------------------------------------------------------------------
(* ArmController *)

(* _on_mode_change, entering Disabled: the ramp starts where the arm is. *)
StartRamp ==
  /\ ramping' = TRUE /\ elapsed' = 0
  /\ q_start' = IF sensed THEN angle ELSE 0
  /\ measured' = angle /\ blind' = ~sensed

DropRamp ==
  /\ ramping' = FALSE /\ q_start' = 0 /\ elapsed' = 0
  /\ blind' = FALSE /\ measured' = 0

(* Mutant: the target sent before is not forgotten. *)
ForgetGoals ==
  /\ targeted' = FALSE /\ commanded' = FALSE
  /\ target' = 0 /\ goal' = 0
  /\ UNCHANGED <<last_sent, anchored>>

(* Mutant: the target sent before starts as zero, not as None. *)
ForgetToZero ==
  /\ targeted' = FALSE /\ anchored' = TRUE /\ commanded' = FALSE
  /\ target' = 0 /\ last_sent' = 0 /\ goal' = 0

(* _on_mode_change, entering CommandFollowing. *)
ForgetTargets ==
  /\ targeted' = FALSE /\ anchored' = FALSE /\ commanded' = FALSE
  /\ target' = 0 /\ last_sent' = 0 /\ goal' = 0

OnModeChange(next_mode) ==
  /\ mode' = [mode EXCEPT !["arm"] = next_mode]
  /\ IF next_mode = "Disabled" THEN StartRamp
     ELSE IF mode["arm"] = "Disabled" THEN DropRamp
     ELSE UNCHANGED <<ramp, measured, blind>>
  /\ IF next_mode = "CommandFollowing" THEN ForgetTargets ELSE UNCHANGED follow
  /\ tracking' = FALSE
  /\ UNCHANGED <<angle, sensed, sent>>

PollMode ==
  /\ Loops("arm")
  /\ TakeRequest("arm") /\ Goto("arm", "act")
  /\ IF NextMode("arm") # mode["arm"]
       THEN OnModeChange(NextMode("arm"))
       ELSE UNCHANGED <<mode, angle, sensed, ramp, follow, sent, tracking, measured, blind>>
  /\ UNCHANGED <<stop, shutdown, queue, requests, commands, fed, outdated, homing_left, homed,
                 identify_started>>

(* Time until the next tick; it only counts while something is timed. *)
Passes ==
  \E d \in 1 .. MaxDelay :
    /\ elapsed' = IF ramping' /\ elapsed + d < RampTime THEN elapsed + d
                  ELSE IF ramping' THEN RampTime ELSE 0
    /\ homing_left' = IF homing_left > d THEN homing_left - d ELSE 0

(* _DisabledRamp.desired *)
Desired(start, time) ==
  IF time >= RampTime THEN HoldQ
  ELSE start + ((HoldQ - start) * time) \div RampTime

(* _clamp_p_des_to_max_joint_delta *)
Clamp(p, ref) ==
  IF p - ref > MaxDelta THEN ref + MaxDelta
  ELSE IF ref - p > MaxDelta THEN ref - MaxDelta
  ELSE p

(* The command taken: end_pose before joint_mit before joint_position. *)
Priority(waiting) ==
  CASE "end_pose" \in waiting -> {"end_pose"}
    [] "end_pose" \notin waiting /\ "joint_mit" \in waiting -> {"joint_mit"}
    [] OTHER -> waiting

Taken == IF mode["arm"] = "CommandFollowing" THEN Priority(Waiting("arm")) ELSE {}

(* Commands are polled while they are followed, up to the first that waits. *)
ArmUndrained == Waiting("arm") \ Taken

Send(p, tracked) ==
  /\ sent' = p
  /\ tracking' = tracked

(* No feedback yet: the tick ends after the mode was published. *)
SkipTick ==
  /\ ~sensed
  /\ UNCHANGED <<ramping, q_start, follow, sent, tracking, queue, outdated>>

(* Disabled; a driver that starts in it has no ramp yet. *)
HoldDisabled ==
  /\ sensed /\ mode["arm"] = "Disabled"
  /\ ramping' = TRUE
  /\ q_start' = IF ramping THEN q_start ELSE angle
  /\ Send(Desired(q_start', elapsed), TRUE)
  /\ DrainCommands("arm", ArmUndrained, {})
  /\ UNCHANGED follow

(* FreeDrive and Identifying: the target is zero, with no stiffness. *)
Float ==
  /\ sensed /\ mode["arm"] \in {"FreeDrive", "Identifying"}
  /\ Send(0, FALSE)
  /\ DrainCommands("arm", ArmUndrained, {})
  /\ UNCHANGED <<ramping, q_start, follow>>

(* _desired: the target is clamped to the one sent before, not to the arm. *)
SendClamped(p) ==
  LET clamped == Clamp(p, IF anchored THEN last_sent ELSE angle) IN
    /\ last_sent' = clamped /\ anchored' = TRUE
    /\ Send(clamped, TRUE)

(* Mutant: what is kept is the clamped goal. *)
KeepClamped(g) ==
  /\ target' = Clamp(g, IF anchored THEN last_sent ELSE angle)
  /\ targeted' = TRUE

(* A command's goal is kept as it came; joints it does not name stay put. *)
KeepGoal(g) == target' = g /\ targeted' = TRUE

TakeCommand ==
  /\ Taken # {}
  /\ \E g \in Angle \cup {angle} :
       /\ KeepGoal(g) /\ goal' = g /\ commanded' = TRUE
       /\ SendClamped(g)

HoldTarget ==
  /\ Taken = {}
  /\ SendClamped(IF targeted THEN target ELSE angle)
  /\ UNCHANGED <<target, targeted, goal, commanded>>

Follow ==
  /\ sensed /\ mode["arm"] = "CommandFollowing"
  /\ TakeCommand \/ HoldTarget
  /\ DrainCommands("arm", ArmUndrained, Taken)
  /\ UNCHANGED <<ramping, q_start>>

(* step, from the feedback on *)
Control ==
  /\ SkipTick \/ HoldDisabled \/ Float \/ Follow
  /\ Passes
  /\ UNCHANGED <<stop, shutdown, mode, requested, requests, commands, fed,
                 angle, sensed, measured, blind, homed, identify_started>>

Tick ==
  /\ pc["arm"] = "act"
  /\ Goto("arm", "check")
  /\ Control

(* Mutant: the ramp's own duration is not waited for. *)
SettleOnly == Settle

(* The time homing takes. *)
HomingTime == RampTime + Settle

(* _home_to_disabled_hold, once feedback is there or the wait is over *)
BeginHoming ==
  /\ Leaves("arm")
  /\ Goto("arm", "homing")
  /\ homing_left' = HomingTime
  /\ homed' = sensed
  /\ IF mode["arm"] # "Disabled"
       THEN OnModeChange("Disabled")
       ELSE DropRamp /\ tracking' = FALSE /\ UNCHANGED <<mode, angle, sensed, follow, sent>>
  /\ UNCHANGED <<stop, shutdown, traffic, outdated, identify_started>>

(* Steps that do not poll the mode. *)
HomingTick ==
  /\ pc["arm"] = "homing" /\ homing_left > 0
  /\ UNCHANGED pc
  /\ Control

HomingDone ==
  /\ pc["arm"] = "homing" /\ homing_left = 0
  /\ Goto("arm", "done")
  /\ UNCHANGED <<stop, shutdown, mode, traffic, outdated, arm, identify_started>>

-----------------------------------------------------------------------------
(* GripperController *)

PollGripperMode ==
  /\ Loops("eef")
  /\ TakeRequest("eef") /\ Goto("eef", "act")
  /\ mode' = [mode EXCEPT !["eef"] = NextMode("eef")]
  /\ identify_started' = IF NextMode("eef") = mode["eef"] THEN identify_started
                         ELSE NextMode("eef") = "Identifying"
  /\ UNCHANGED <<stop, shutdown, queue, requests, commands, fed, outdated, arm>>

(* The MIT command wins, and the position is then not polled. *)
GripperTaken ==
  IF mode["eef"] # "CommandFollowing" THEN {}
  ELSE IF "parallel_mit" \in Waiting("eef") THEN {"parallel_mit"}
  ELSE Waiting("eef")

(* Mutant: topics are polled only in CommandFollowing. *)
GripperLeavesAll ==
  IF mode["eef"] # "CommandFollowing" THEN Topic("eef")
  ELSE IF GripperTaken = {"parallel_mit"} THEN {"parallel_position"}
  ELSE {}

(* FreeDrive and Disabled drain both topics; Identifying polls neither. *)
GripperUndrained ==
  IF mode["eef"] = "Identifying" THEN Topic("eef")
  ELSE IF GripperTaken = {"parallel_mit"} THEN {"parallel_position"}
  ELSE {}

GripperTick ==
  /\ pc["eef"] = "act"
  /\ DrainCommands("eef", GripperUndrained, GripperTaken)
  /\ Goto("eef", "check")
  /\ UNCHANGED <<stop, shutdown, mode, requested, requests, commands, fed, arm, identify_started>>

GripperExit ==
  /\ Leaves("eef")
  /\ Goto("eef", "done")
  /\ UNCHANGED <<stop, shutdown, mode, traffic, outdated, arm, identify_started>>

-----------------------------------------------------------------------------
NeroThread(ch) ==
  \/ ch = "arm" /\ (PollMode \/ Tick \/ BeginHoming \/ HomingTick \/ HomingDone)
  \/ ch = "eef" /\ (PollGripperMode \/ GripperTick \/ GripperExit)

NeroNext ==
  \/ Outside /\ UNCHANGED <<arm, identify_started>>
  \/ ArmMoves
  \/ \E ch \in Channel :
       NeroThread(ch) \/ (Fail(ch) /\ UNCHANGED <<arm, identify_started>>)

-----------------------------------------------------------------------------
NeroOK ==
  /\ angle \in Angle /\ sensed \in BOOLEAN
  /\ ramping \in BOOLEAN /\ q_start \in Int /\ elapsed \in 0 .. RampTime
  /\ target \in Int /\ targeted \in BOOLEAN
  /\ last_sent \in Int /\ anchored \in BOOLEAN
  /\ homing_left \in 0 .. RampTime + Settle
  /\ identify_started \in BOOLEAN
  /\ sent \in Int /\ tracking \in BOOLEAN /\ measured \in Int /\ blind \in BOOLEAN
  /\ goal \in Int /\ commanded \in BOOLEAN /\ homed \in BOOLEAN

Abs(n) == IF n < 0 THEN -n ELSE n

(* How far a target may move in one tick. *)
Reach ==
  IF mode["arm"] = "Disabled"
    THEN (Abs(HoldQ - q_start') * MaxDelay + RampTime - 1) \div RampTime
    ELSE MaxDelta

(* What a target has to be near: the one sent before it and, for the first   *)
(* of a mode, the arm as it is or, under a ramp, as the ramp found it.       *)
Reference ==
  IF tracking THEN sent
  ELSE IF mode["arm"] = "Disabled" /\ ramping THEN measured
  ELSE angle

(* No snap (arm.py:101): a tracked target is near the tracked target before *)
(* it, and the first one of a mode is near where the arm is, whatever the   *)
(* mode before left behind.  Only a ramp that starts without feedback is    *)
(* not.                                                                     *)
NoSnap ==
  [][(pc["arm"] \in {"act", "homing"} /\ tracking' /\ ~blind)
       => Abs(sent' - Reference) <= Reach]_<<pc, arm>>

(* The arm that had feedback is at the parking pose when its thread ends,  *)
(* whatever mode requests arrived meanwhile (arm.py:398).                  *)
HomedAtExit ==
  (pc["arm"] = "done" /\ homed) => (tracking /\ sent = HoldQ)

(* Whenever the gripper's pattern is computed its start is known: the     *)
(* assertion of step (gripper.py:180).                                     *)
IdentifyHasStart ==
  (pc["eef"] = "act" /\ mode["eef"] = "Identifying") => identify_started

(* What is held without a new command is the goal of this stay's last one. *)
GoalOfThisStay ==
  (mode["arm"] = "CommandFollowing" /\ targeted) => (commanded /\ target = goal)

(* The clamp does not stall: an arm that follows, and is sent no further   *)
(* command, is sent all the way to the goal of the last one (arm.py:667).  *)
GoalIsReached ==
  []<>(\/ pc["arm"] \notin {"check", "act"} \/ mode["arm"] # "CommandFollowing"
       \/ ~commanded \/ Waiting("arm") # {}
       \/ sent = goal)

=============================================================================
