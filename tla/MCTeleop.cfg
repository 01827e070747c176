CONSTANTS
  Axis = {1}
  Reported = {1}
  IndexMap <- MCIdentity
  Scale <- MCMirrored
  Position = {0, 3, 5}
  MaxStep = 1
  Threshold = 2
  Hold = 2
  MaxTime = 2
  MaxStamp = 3
SPECIFICATION Spec
INVARIANTS PassThroughEarned JointRampNearFollower
PROPERTIES FirstCommandNear TargetContinuous
