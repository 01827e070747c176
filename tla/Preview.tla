------------------------------ MODULE Preview ------------------------------
(***************************************************************************)
(* The live preview of one camera: browsers, visualizer, preview encoder,  *)
(* camera, and the Shutdown that ends a session.  Cameras share nothing    *)
(* but the resizes, which each gets alike.                                 *)
(***************************************************************************)
EXTENDS Visualizer, PreviewEncoder

vars == <<topics, visualizerVars, encoderVars>>

Init == TopicsInit /\ VisualizerInit /\ EncoderInit

(* Both processes read the control events; what is published before the      *)
(* visualizer subscribed is lost to it (the controller terminates it then).  *)
PublishShutdown ==
  /\ ~over /\ listening
  /\ over' = TRUE
  /\ UNCHANGED <<sizeRing, packetRing, listening, visualizerVars, encoderVars>>

Browser ==
  /\ \E c \in Client : Connect(c) \/ AskForSize(c) \/ Leave(c)
  /\ UNCHANGED encoderVars

Tasks(c) == TaskStep(c) /\ UNCHANGED encoderVars
Pump ==
  /\ Subscribe \/ ForwardResize \/ TakePacket \/ VisualizerExits
  /\ UNCHANGED encoderVars
Encode == EncoderStep /\ UNCHANGED visualizerVars
EncodePacket == (EncodeKeyframe \/ EncodeDelta) /\ UNCHANGED visualizerVars

Finished == viz = "exited" /\ enc = "exited" /\ UNCHANGED vars

Next ==
  \/ Browser \/ \E c \in Client : Tasks(c)
  \/ Pump \/ Encode \/ PublishShutdown \/ Finished

Spec == Init /\ [][Next]_vars

(* The two loops and the clients' tasks run; the camera goes on delivering   *)
(* frames and the codec does not fail for ever.  That a group of pictures    *)
(* ends is not assumed: a camera that codes by itself may never begin one.   *)
FairSpec ==
  /\ Spec
  /\ WF_vars((Subscribe \/ ForwardResize) /\ UNCHANGED encoderVars)
  /\ WF_vars(TakePacket /\ UNCHANGED encoderVars)
  /\ WF_vars(Encode) /\ SF_vars(EncodePacket)
  /\ \A c \in Client : WF_vars(Tasks(c))

-----------------------------------------------------------------------------
TypeOK ==
  /\ sizeRing \in Seq(Asked) /\ Len(sizeRing) <= Depth
  /\ Len(packetRing) <= PacketDepth
  /\ client \in [Client -> ClientPlace] /\ want \in [Client -> Asked]
  /\ changed \in [Client -> BOOLEAN]
  /\ active_width \in {s.width : s \in Asked} /\ active_height \in {s.height : s \in Asked}
  /\ bounds \in Asked /\ resize_rx \in Seq(Asked)
  /\ viz \in {"starting", "running", "exited"}
  /\ enc \in EncPlace
  /\ session \in {"none", "opened", "coding"} /\ group \in Nat \ {0}

(* What the visualizer forwards the encoder accepts, whatever a browser asks *)
(* for: the constants the two crates repeat agree ("Mirrors                  *)
(* visualizer::preview_config::MIN_PREVIEW_DIMENSION").                      *)
ForwardedAreValid ==
  \A i \in DOMAIN sizeRing : IsValidSize(sizeRing[i])

(* Two clients may interleave between the two swaps of set_requested_size    *)
(* and leave a width of one with a height of the other in the atomics; such  *)
(* a torn size never reaches the encoder.                                    *)
WholeSizes == dims \in Asked \cup {[width |-> Configured[1], height |-> Configured[2]]}

(* connected_clients is the number of clients that are being served, through *)
(* failed greetings and concurrent leavings, so that exactly the last one    *)
(* out resets the size.                                                      *)
CountsClients ==
  viz # "exited" => connected_clients = Cardinality({c \in Client : Counted(c)})

(* The size under concurrent clients: counted, whole and valid wherever it   *)
(* passes.                                                                   *)
SizesSound == TypeOK /\ ForwardedAreValid /\ WholeSizes /\ CountsClients

(* No delta is sent to the browsers but after the keyframe it depends on, in *)
(* whatever order sessions, resizes and the visualizer's start fell, unless  *)
(* the packet ring lost that keyframe and nothing had announced it: it was   *)
(* one within a session, or its session's EndOfStream was lost or not sent.  *)
DecodableOrLost ==
  packetRing # <<>> /\ seen_keyframe /\ Head(packetRing).kind = "Delta" =>
    Head(packetRing).group \in {keyed} \cup (keyLost \cap unannounced)

(* The gate is shut and waits for a keyframe the packet ring lost. *)
KeyMissed == ~seen_keyframe /\ group \in keyLost

(* The last of several sizes forwarded to the encoder reaches the screen and *)
(* stays: it is neither lost between the queues it passes, nor refused, nor  *)
(* does the change of session leave the picture frozen, unless a keyframe    *)
(* was lost and nothing begins another group.  What the code does lose is a  *)
(* size that the encoder reads together with one before it and that it still *)
(* has: takenBack.                                                           *)
ResizeTakesEffect ==
  \A s \in Asked :
    Resizable /\ <>[](forwarded = {s} /\ ~over)
      => <>[](screen = s \/ takenBack \/ KeyMissed)
============================================================================
