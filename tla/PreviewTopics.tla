--------------------------- MODULE PreviewTopics ---------------------------
(***************************************************************************)
(* What visualizer and preview encoder of one camera share: the ring of    *)
(* PreviewControl::SetSize messages on preview-control, the ring of        *)
(* packets on preview-packets, and the Shutdown both wait for.             *)
(***************************************************************************)
EXTENDS Ring, PreviewSizes

CONSTANTS
  Resizable,      \* the camera's preview_resize_policy is not FixedSource
  Depth,          \* of the encoder's ring of sizes (iceoryx2 default: 2)
  PacketDepth     \* of the visualizer's ring of packets (PREVIEW_PACKET_BUFFER, 8)

ASSUME TopicsAssumption ==
  Resizable \in BOOLEAN /\ Depth \in Nat \ {0} /\ PacketDepth \in Nat \ {0}

VARIABLES
  sizeRing,
  packetRing,
  listening,      \* the visualizer has subscribed
  over            \* Shutdown was published

topics == <<sizeRing, packetRing, listening, over>>

TopicsInit == sizeRing = <<>> /\ packetRing = <<>> /\ listening = FALSE /\ over = FALSE
============================================================================
