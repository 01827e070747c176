CONSTANTS
  Layout <- MCLayout
  MaxRequests = 2
  MaxCommands = 1
  Angle = {0, 6}
  HoldQ = 6
  MaxDelta = 2
  RampTime = 3
  Settle = 2
  MaxDelay = 2
SPECIFICATION Spec
INVARIANTS CommandsDiscarded DriverSound
PROPERTIES NoSnap StopEndsDriver GoalIsReached
