CONSTANTS
  UiClient = {a}
  Capacity = 2
  RingDepth = 1
  MaxStates = 2
  MaxPressure = 2
  MaxCommands = 2
SPECIFICATION FairServerSpec
INVARIANT BridgeSound
PROPERTY NewestReachesClients
CHECK_DEADLOCK FALSE
