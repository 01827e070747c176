SPECIFICATION Spec
CONSTANTS
  BufferSize = 2
  MaxEpisodes = 2
  ResumeIndex = 0
  ResumeCount = 0
INVARIANTS ControlStream CountIsStored StatusFresh
