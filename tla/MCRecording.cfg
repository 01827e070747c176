CONSTANTS
  BufferSize = 2
  MaxEpisodes = 2
  Codec = "libav"
  QueueSize = 1
  FrameDepth = 2
  MaxFrames = 2
SPECIFICATION FairSpec
PROPERTIES StreamsAsPromised StopEndsOpenStream ShutdownEndsEncoder
