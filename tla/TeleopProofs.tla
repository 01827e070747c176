--------------------------- MODULE TeleopProofs ---------------------------
(***************************************************************************)
(* Proofs that the ramp of TeleopRouter keeps its promises for every set   *)
(* of axes, every mapping, every limit and every sequence of samples.      *)
(***************************************************************************)
EXTENDS TeleopRouter, TLAPS

(* map_leader_state turns a leader sample into an integer target. *)
LEMMA MappedType == \A p \in Sample : Mapped(p) \in Target
<1> SUFFICES ASSUME NEW p \in Sample PROVE Mapped(p) \in Target
  OBVIOUS
<1>1. ASSUME NEW a \in Axis PROVE p[IndexMap[a]] * Scale[a] \in Int
  <2>1. IndexMap[a] \in Axis /\ Scale[a] \in Int
    BY MappingAssumption
  <2>2. p[IndexMap[a]] \in Int
    BY <2>1, PositionAssumption DEF Sample
  <2> QED BY <2>1, <2>2
<1>2. p \in Target
  BY PositionAssumption DEF Sample, Target
<1> QED BY <1>1, <1>2 DEF Mapped, Target

(* A clamped value lies within MaxStep of the anchor. *)
LEMMA ClampNear ==
  ASSUME NEW target \in Int, NEW anchor \in Int
  PROVE  Clamp(target, anchor) \in Int /\ Within(Clamp(target, anchor) - anchor, MaxStep)
BY LimitAssumption DEF Clamp, Within

(* One step of the cartesian ramp: typed, and within MaxStep of its anchor. *)
LEMMA StepType ==
  ASSUME TypeOK
  PROVE  /\ Mapped(leader) \in Target /\ Anchor \in Target
         /\ Step(Mapped(leader)) \in Target
         /\ \A a \in Axis : Within(Step(Mapped(leader))[a] - Anchor[a], MaxStep)
<1>1. Mapped(leader) \in Target
  BY MappedType DEF TypeOK, ValuesOK
<1>2. Anchor \in Target
  BY PositionAssumption DEF TypeOK, ValuesOK, Anchor, Sample, Target
<1>3. ASSUME NEW a \in Axis
      PROVE  /\ Clamp(Mapped(leader)[a], Anchor[a]) \in Int
             /\ Within(Clamp(Mapped(leader)[a], Anchor[a]) - Anchor[a], MaxStep)
  <2>1. Mapped(leader)[a] \in Int /\ Anchor[a] \in Int
    BY <1>1, <1>2 DEF Target
  <2> QED BY <2>1, ClampNear
<1>4. Step(Mapped(leader)) = [a \in Axis |-> Clamp(Mapped(leader)[a], Anchor[a])]
  BY DEF Step
<1> QED BY <1>1, <1>2, <1>3, <1>4 DEF Target

(* The command of the joint ramp. *)
JointTarget ==
  [a \in Axis |-> IF a \in Reported THEN Clamp(Mapped(leader)[a], follower_state[a])
                  ELSE Mapped(leader)[a]]

(* JointSyncState::apply clamps every reported joint around the follower. *)
LEMMA JointTargetNear ==
  ASSUME TypeOK
  PROVE  /\ JointTarget \in Target
         /\ \A a \in Reported : Within(JointTarget[a] - follower_state[a], MaxStep)
<1>1. ASSUME NEW a \in Axis
      PROVE  /\ Mapped(leader)[a] \in Int
             /\ Clamp(Mapped(leader)[a], follower_state[a]) \in Int
             /\ Within(Clamp(Mapped(leader)[a], follower_state[a]) - follower_state[a], MaxStep)
  <2>1. Mapped(leader)[a] \in Int
    BY MappedType DEF TypeOK, ValuesOK, Target
  <2>2. follower_state[a] \in Int
    BY PositionAssumption DEF TypeOK, ValuesOK, Sample
  <2> QED BY <2>1, <2>2, ClampNear
<1> QED BY <1>1, AxisAssumption DEF JointTarget, Target

-----------------------------------------------------------------------------
(* Every step of the router keeps the flags Boolean. *)
LEMMA FlagsPreserved == FlagsOK /\ [Next]_vars => FlagsOK'
<1> SUFFICES ASSUME FlagsOK, [Next]_vars PROVE FlagsOK'
  OBVIOUS
<1> USE DEF FlagsOK
<1>0. Ramp' \in RampKind
  BY DEF Next, vars
<1>1. ASSUME NEW p \in Sample, LeaderReports(p) PROVE FlagsOK'
  <2>1. leader_complete' \in BOOLEAN
    BY <1>0, <1>1, Zenon DEF LeaderReports
  <2>2. leader_waits' \in BOOLEAN
    BY <1>0, <1>1, Zenon DEF LeaderReports
  <2> QED BY <1>0, <1>1, <2>1, <2>2, Zenon DEF LeaderReports, feedback, sync, history
<1>2. ASSUME NEW p \in Sample, FollowerReports(p) PROVE FlagsOK'
  BY <1>0, <1>2 DEF FollowerReports, sample, feedback, sync, history
<1>3. CASE ShutdownPublished
  BY <1>0, <1>3, Zenon DEF ShutdownPublished, sample, feedback, sync, history
<1>4. CASE TimePasses
  BY <1>0, <1>4, Zenon DEF TimePasses, sample, feedback, sync, history
<1>5. CASE DrainControlEvents
  BY <1>0, <1>5 DEF DrainControlEvents, inputs, sample, feedback, sync, history
<1>6. CASE DrainFollower
  BY <1>0, <1>6 DEF DrainFollower, sample, feedback, sync, history
<1>7. CASE NoNewLeaderState
  BY <1>0, <1>7 DEF NoNewLeaderState, feedback, sync, history
<1>8. CASE RouteError
  BY <1>0, <1>8 DEF RouteError, NewLeaderState, feedback, sync, history
<1>9. CASE Forward \/ HoldSample
  BY <1>0, <1>9 DEF Forward, HoldSample, TakeLeaderState, NewLeaderState, PublishCommand,
              Ramping, feedback, sync
<1>10. CASE RampJoint
  BY <1>0, <1>10 DEF RampJoint, TakeLeaderState, NewLeaderState, PublishCommand, Ramping,
              GapClosed, feedback
<1>11. CASE CartesianClose
  <2>1. synced' \in BOOLEAN
    BY <1>0, <1>11, Zenon DEF CartesianClose
  <2> QED BY <1>0, <1>11, <2>1, Zenon DEF CartesianClose, TakeLeaderState, NewLeaderState,
                                    PublishCommand, Ramping, feedback
<1>12. CASE CartesianFar
  BY <1>0, <1>12 DEF CartesianFar, TakeLeaderState, NewLeaderState, PublishCommand, Ramping,
              feedback
<1>13. CASE UNCHANGED vars
  BY <1>0, <1>13 DEF vars, inputs, sample, feedback, sync, history
<1> QED BY <1>1, <1>2, <1>3, <1>4, <1>5, <1>6, <1>7, <1>8, <1>9, <1>10, <1>11,
           <1>12, <1>13 DEF Next, Loop, Finished

(* Every step of the router keeps positions, stamps and times in range. *)
LEMMA ValuesPreserved == TypeOK /\ [Next]_vars => ValuesOK'
<1> SUFFICES ASSUME TypeOK, [Next]_vars PROVE ValuesOK'
  OBVIOUS
<1> USE BoundAssumption DEF ValuesOK
<1>0. ValuesOK
  BY DEF TypeOK
<1>1. ASSUME NEW p \in Sample, LeaderReports(p) PROVE ValuesOK'
  <2>1. leader_stamp' \in 0 .. MaxStamp /\ last_forwarded_timestamp_us' \in 0 .. leader_stamp'
    BY <1>0, <1>1 DEF LeaderReports
  <2> QED BY <1>0, <1>1, <2>1 DEF LeaderReports, feedback, sync, history
<1>2. ASSUME NEW p \in Sample, FollowerReports(p) PROVE ValuesOK'
  BY <1>0, <1>2 DEF FollowerReports, sample, feedback, sync, history
<1>3. CASE ShutdownPublished \/ TimePasses
  BY <1>0, <1>3 DEF ShutdownPublished, TimePasses, sample, feedback, sync, history
<1>4. CASE DrainControlEvents \/ DrainFollower \/ NoNewLeaderState \/ RouteError
  BY <1>0, <1>4 DEF DrainControlEvents, DrainFollower, NoNewLeaderState, RouteError,
                    NewLeaderState, inputs, sample, feedback, sync, history
<1>5. CASE Forward
  <2>1. Mapped(leader) \in Target
    BY <1>0, MappedType
  <2> QED BY <1>0, <1>5, <2>1 DEF Forward, TakeLeaderState, NewLeaderState, PublishCommand,
                                  feedback, sync
<1>6. CASE HoldSample
  BY <1>0, <1>6 DEF HoldSample, TakeLeaderState, NewLeaderState, feedback, sync
<1>7. CASE RampJoint
  <2>1. JointTarget \in Target
    BY JointTargetNear
  <2>2. command' = JointTarget
    BY <1>7 DEF RampJoint, PublishCommand, JointTarget
  <2> QED BY <1>0, <1>7, <2>1, <2>2 DEF RampJoint, TakeLeaderState, NewLeaderState,
                                        PublishCommand, feedback
<1>8. CASE CartesianClose
  <2>1. Mapped(leader) \in Target
    BY <1>0, MappedType
  <2> QED BY <1>0, <1>8, <2>1 DEF CartesianClose, TakeLeaderState, NewLeaderState,
                                  PublishCommand, feedback
<1>9. CASE CartesianFar
  <2>1. Step(Mapped(leader)) \in Target
    BY StepType
  <2> QED BY <1>0, <1>9, <2>1 DEF CartesianFar, TakeLeaderState, NewLeaderState,
                                  PublishCommand, feedback
<1>10. CASE UNCHANGED vars
  BY <1>0, <1>10 DEF vars, inputs, sample, feedback, sync, history
<1> QED BY <1>1, <1>2, <1>3, <1>4, <1>5, <1>6, <1>7, <1>8, <1>9, <1>10
           DEF Next, Loop, Finished

(* Type correctness of run_router's state; targets are integers, and the     *)
(* forwarded stamp is never ahead of the leader's.                           *)
THEOREM Typing == Spec => []TypeOK
<1>1. Init => TypeOK
  <2> SUFFICES ASSUME Init PROVE TypeOK
    OBVIOUS
  <2>1. follower \in Target
    BY PositionAssumption DEF Init, Sample, Target
  <2>2. ValuesOK
    BY <2>1, BoundAssumption DEF Init, ValuesOK
  <2>3. FlagsOK
    BY DEF Init, FlagsOK
  <2> QED BY <2>2, <2>3 DEF TypeOK
<1>2. TypeOK /\ [Next]_vars => TypeOK'
  BY FlagsPreserved, ValuesPreserved DEF TypeOK
<1> QED BY <1>1, <1>2, PTL DEF Spec

-----------------------------------------------------------------------------
(* The inductive invariant: the anchor of a cartesian ramp that has begun is *)
(* the target last published, nothing is synced or anchored before the first *)
(* command, and a running streak began after the last wide gap.              *)
AnchorIsCommand ==
  Ramp = "cartesian" /\ commanded /\ ~synced => ramp_set /\ ramp_pose = command
NothingBeforeCommand == synced \/ ramp_set => commanded
StreakAfterFar ==
  /\ last_far <= now
  /\ Ramp = "cartesian" /\ close => last_far <= closeness_started_at

RampInv ==
  /\ AnchorIsCommand /\ NothingBeforeCommand /\ StreakAfterFar
  /\ PassThroughEarned /\ JointRampNearFollower

(* RampInv is inductive, given the types. *)
LEMMA RampInvHolds == Spec => []RampInv
<1>1. Init => RampInv
  BY DEF Init, RampInv, AnchorIsCommand, NothingBeforeCommand, StreakAfterFar,
         PassThroughEarned, JointRampNearFollower
<1>2. TypeOK /\ RampInv /\ [Next]_vars => RampInv'
  <2> SUFFICES ASSUME TypeOK, RampInv, [Next]_vars PROVE RampInv'
    OBVIOUS
  <2> USE DEF RampInv, AnchorIsCommand, NothingBeforeCommand, StreakAfterFar,
              PassThroughEarned, JointRampNearFollower
  <2>11. Ramp' = Ramp
    BY DEF Next, vars
  <2>0. /\ now \in Int /\ last_far \in Int /\ closeness_started_at \in Int
        /\ synced_at \in Int /\ Hold \in Int
    BY LimitAssumption, BoundAssumption DEF TypeOK, ValuesOK
  <2>1. CASE UNCHANGED <<sync, history>> /\ (now' = now \/ now' = now + 1)
    BY <2>11, <2>0, <2>1 DEF sync, history
  <2>2. CASE Forward
    BY <2>11, <2>0, <2>2 DEF Forward, TakeLeaderState, NewLeaderState, PublishCommand, Ramping, sync
  <2>3. CASE HoldSample
    BY <2>11, <2>0, <2>3 DEF HoldSample, TakeLeaderState, NewLeaderState, sync
  <2>4. CASE RampJoint
    <3>1. command' = JointTarget /\ basis' = follower_state
      BY <2>4 DEF RampJoint, PublishCommand, JointTarget
    <3>2. JointRampNearFollower'
      BY <2>11, <3>1, JointTargetNear
    <3> QED BY <2>11, <2>0, <2>4, <3>2 DEF RampJoint, TakeLeaderState, NewLeaderState,
                                    PublishCommand, Ramping
  <2>5. CASE CartesianClose
    BY <2>11, <2>0, <2>5 DEF CartesianClose, TakeLeaderState, NewLeaderState, PublishCommand, Ramping
  <2>6. CASE CartesianFar
    BY <2>11, <2>0, <2>6 DEF CartesianFar, TakeLeaderState, NewLeaderState, PublishCommand, Ramping
  <2>7. CASE \E p \in Sample : LeaderReports(p) \/ FollowerReports(p)
    BY <2>11, <2>1, <2>7 DEF LeaderReports, FollowerReports
  <2>8. CASE ShutdownPublished \/ TimePasses
    BY <2>11, <2>1, <2>8 DEF ShutdownPublished, TimePasses
  <2>9. CASE DrainControlEvents \/ DrainFollower \/ NoNewLeaderState \/ RouteError
    BY <2>11, <2>1, <2>9 DEF DrainControlEvents, DrainFollower, NoNewLeaderState, RouteError, inputs
  <2>10. CASE UNCHANGED vars
    BY <2>11, <2>1, <2>10 DEF vars, inputs
  <2> QED BY <2>2, <2>3, <2>4, <2>5, <2>6, <2>7, <2>8, <2>9, <2>10 DEF Next, Loop, Finished
<1> QED BY <1>1, <1>2, Typing, PTL DEF Spec

(* While the joint ramp runs, JointSyncState::apply sends no reported joint  *)
(* further than the step limit from the follower's last reported position.   *)
THEOREM JointRampIsNear == Spec => []JointRampNearFollower
BY RampInvHolds, PTL DEF RampInv

(* The cartesian ramp hands over to pass-through only when no tick of the    *)
(* last SYNC_HOLD_DURATION saw the gap too wide.                             *)
THEOREM PassThroughIsEarned == Spec => []PassThroughEarned
BY RampInvHolds, PTL DEF RampInv

(* A ramped cartesian target is near the target before it or near the        *)
(* follower: apply_with_clock's anchor never loses the published pose.       *)
THEOREM TargetIsContinuous == Spec => TargetContinuous
<1> DEFINE P == Ramp = "cartesian" /\ commanded /\ ramped' /\ commanded' =>
                  \/ \A a \in Axis : Within(command'[a] - command[a], MaxStep)
                  \/ \A a \in Axis : Within(command'[a] - basis'[a], Threshold)
<1>1. TypeOK /\ RampInv /\ [Next]_vars => P
  <2> SUFFICES ASSUME TypeOK, RampInv, [Next]_vars, Ramp = "cartesian", commanded,
                      ramped', commanded'
               PROVE  \/ \A a \in Axis : Within(command'[a] - command[a], MaxStep)
                      \/ \A a \in Axis : Within(command'[a] - basis'[a], Threshold)
    OBVIOUS
  <2>1. CASE command' = command
    BY <2>1, LimitAssumption DEF TypeOK, ValuesOK, Target, Within
  <2>2. CASE Forward \/ RampJoint
    BY <2>2 DEF Forward, RampJoint, PublishCommand
  <2>3. CASE CartesianClose
    BY <2>3 DEF CartesianClose, GapClosed, PublishCommand, TypeOK, FlagsOK, RampKind
  <2>4. CASE CartesianFar
    <3>1. Anchor = command
      BY <2>4 DEF CartesianFar, Ramping, Anchor, RampInv, AnchorIsCommand
    <3>2. command' = Step(Mapped(leader))
      BY <2>4 DEF CartesianFar, PublishCommand
    <3> QED BY <3>1, <3>2, StepType
  <2>5. CASE \E p \in Sample : LeaderReports(p) \/ FollowerReports(p)
    BY <2>1, <2>5 DEF LeaderReports, FollowerReports, history
  <2>6. CASE ShutdownPublished \/ TimePasses \/ HoldSample
    BY <2>1, <2>6 DEF ShutdownPublished, TimePasses, HoldSample, history
  <2>7. CASE DrainControlEvents \/ DrainFollower \/ NoNewLeaderState \/ RouteError
    BY <2>1, <2>7 DEF DrainControlEvents, DrainFollower, NoNewLeaderState, RouteError, history
  <2>8. CASE UNCHANGED vars
    BY <2>1, <2>8 DEF vars, history
  <2> QED BY <2>2, <2>3, <2>4, <2>5, <2>6, <2>7, <2>8 DEF Next, Loop, Finished
<1>2. Spec => [][P]_vars
  BY <1>1, Typing, RampInvHolds, PTL DEF Spec
<1> QED BY <1>2 DEF TargetContinuous

(* The first command of a ramped router follows feedback and lies near the   *)
(* follower's reported position, for both ramps.                             *)
THEOREM FirstCommandIsNear == Spec => FirstCommandNear
<1> DEFINE P == Ramp # "disabled" /\ ~commanded /\ commanded' =>
                  /\ follower_seen
                  /\ \A a \in Reported : Within(command'[a] - follower_state[a], Limit)
<1>1. TypeOK /\ RampInv /\ [Next]_vars => P
  <2> SUFFICES ASSUME TypeOK, RampInv, [Next]_vars, Ramp # "disabled", ~commanded, commanded'
               PROVE  /\ follower_seen
                      /\ \A a \in Reported : Within(command'[a] - follower_state[a], Limit)
    OBVIOUS
  <2>1. ~synced /\ ~ramp_set
    BY DEF RampInv, NothingBeforeCommand
  <2>2. \A d \in Int : Within(d, MaxStep) \/ Within(d, Threshold) => Within(d, Limit)
    BY LimitAssumption DEF Within, Limit
  <2>3. \A a \in Reported : a \in Axis /\ follower_state[a] \in Int
    <3>1. follower_state \in [Axis -> Position]
      BY DEF TypeOK, ValuesOK, Sample
    <3> QED BY <3>1, AxisAssumption, PositionAssumption
  <2>4. CASE Forward
    BY <2>1, <2>4 DEF Forward, Ramping
  <2>5. CASE RampJoint
    <3>1. command' = JointTarget
      BY <2>5 DEF RampJoint, PublishCommand, JointTarget
    <3>2. ASSUME NEW a \in Reported PROVE JointTarget[a] - follower_state[a] \in Int
      BY <2>3, JointTargetNear DEF Target
    <3> QED BY <2>2, <2>5, <3>1, <3>2, JointTargetNear DEF RampJoint
  <2>6. CASE CartesianClose
    <3>1. command' = Mapped(leader) /\ follower_seen /\ GapClosed
      BY <2>6 DEF CartesianClose, PublishCommand
    <3>2. ASSUME NEW a \in Reported PROVE Mapped(leader)[a] - follower_state[a] \in Int
      BY <2>3, StepType DEF Target
    <3> QED BY <2>2, <3>1, <3>2 DEF GapClosed
  <2>7. CASE CartesianFar
    <3>1. command' = Step(Mapped(leader)) /\ follower_seen /\ Anchor = follower_state
      BY <2>1, <2>7 DEF CartesianFar, PublishCommand, Anchor
    <3>2. ASSUME NEW a \in Reported PROVE Step(Mapped(leader))[a] - follower_state[a] \in Int
      BY <2>3, StepType DEF Target
    <3> QED BY <2>2, <3>1, <3>2, StepType, AxisAssumption
  <2>8. commanded' # commanded
    BY DEF TypeOK, FlagsOK
  <2>9. CASE \E p \in Sample : LeaderReports(p) \/ FollowerReports(p)
    BY <2>8, <2>9 DEF LeaderReports, FollowerReports, history
  <2>10. CASE ShutdownPublished \/ TimePasses \/ HoldSample
    BY <2>8, <2>10 DEF ShutdownPublished, TimePasses, HoldSample, history
  <2>11. CASE DrainControlEvents \/ DrainFollower \/ NoNewLeaderState \/ RouteError
    BY <2>8, <2>11 DEF DrainControlEvents, DrainFollower, NoNewLeaderState, RouteError, history
  <2>12. CASE UNCHANGED vars
    BY <2>8, <2>12 DEF vars, history
  <2> QED BY <2>4, <2>5, <2>6, <2>7, <2>9, <2>10, <2>11, <2>12 DEF Next, Loop, Finished
<1>2. Spec => [][P]_vars
  BY <1>1, Typing, RampInvHolds, PTL DEF Spec
<1> QED BY <1>2 DEF FirstCommandNear
============================================================================
