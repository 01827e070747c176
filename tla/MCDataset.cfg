SPECIFICATION Spec
CONSTANTS
  Config = {c1, c2}
  Format = {"lerobot", "mcap"}
  MaxEpisodes = 3
  MaxTakes = 4
  MaxSessions = 3
INVARIANTS DatasetSound StoredIsWhole
PROPERTY LeRobotNotOverwritten
CHECK_DEADLOCK FALSE
