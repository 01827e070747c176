CONSTANTS
  Client = {a, b}
  Request <- SomeRequests
  MaxLoad = 3
  Resizable = TRUE
  Depth = 2
  PacketDepth = 1
  Configured <- DefaultConfiguration
  MaxGroups = 2
SPECIFICATION FairSpec
INVARIANTS SizesSound DecodableOrLost
PROPERTIES ResizeTakesEffect
