CONSTANTS
  BufferSize = 2
  MaxEpisodes = 2
  MaxPackets = 5
SPECIFICATION Spec
INVARIANTS NoFalseFailure CompleteIsGapless
