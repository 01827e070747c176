---------------------------- MODULE PreviewEncoder ----------------------------
(***************************************************************************)
(* The preview role of the encoder (encoder/src/preview_runtime.rs): a     *)
(* single loop that drains control events, then size changes, then encodes *)
(* the newest frame, if there is one.  The packets of a size form a        *)
(* session, which opens with a keyframe and is closed by EndOfStream (the  *)
(* output mode "encoded"; a JPEG needs no session).  What the codec holds  *)
(* back and gives out when it is finished counts as sent just before.      *)
(*                                                                         *)
(* A keyframe and the deltas that depend on it are a group of pictures.    *)
(* Groups are numbered; an EndOfStream has the number of the group that    *)
(* comes after it.                                                         *)
(***************************************************************************)
EXTENDS PreviewTopics

CONSTANTS
  Configured,     \* the <<width, height>> of the encoder's configuration
  MaxGroups       \* bound: groups that are begun within a session

ASSUME PreviewEncoderAssumption == Configured \in Nat \X Nat /\ MaxGroups \in Nat

VARIABLES
  enc,            \* place in run's loop, "exited" at its end
  dims,           \* current_dims
  session,        \* "none", "opened" before its first packet, or "coding"
  group,          \* of the next delta or, but for "coding", of the next keyframe
  keyLost,        \* history: the groups whose keyframe was overwritten
  unannounced,    \* history: those whose EndOfStream was, or that had none
  takenBack       \* history: the size read last was skipped for an older one

encoderVars == <<enc, dims, session, group, keyLost, unannounced, takenBack>>

EncPlace == {"drain", "frame", "last_frame", "finish", "exited"}

EncoderInit ==
  /\ enc = "drain"
  /\ dims = [width |-> Configured[1], height |-> Configured[2]]
  /\ session = "none" /\ group = 1
  /\ keyLost = {} /\ unannounced = {} /\ takenBack = FALSE

Packet(kind, g) == [kind |-> kind, group |-> g, size |-> dims]

(* The packet a publication overwrites: the oldest one not read. *)
Overwritten ==
  IF listening /\ Len(packetRing) = PacketDepth THEN {Head(packetRing)} ELSE {}

LostGroups(kind) == {p.group : p \in {q \in Overwritten : q.kind = kind}}

(* A packet is published, possibly over the oldest one, by which the groups  *)
(* in silent begin without EndOfStream; before the visualizer has subscribed *)
(* it is not received.                                                       *)
PublishPacket(p, silent) ==
  /\ packetRing' = IF listening THEN RingSend(packetRing, p, PacketDepth) ELSE packetRing
  /\ keyLost' = keyLost \cup LostGroups("Key")
  /\ unannounced' = unannounced \cup LostGroups("EndOfStream") \cup silent

(* The group that begins next. *)
NextGroup == IF session = "coding" THEN group + 1 ELSE group

(* Session.finish, if one is open; it may fail before EndOfStream is sent. *)
FinishSession ==
  IF session = "none" THEN UNCHANGED <<session, group, packetRing, keyLost, unannounced>>
  ELSE /\ session' = "none" /\ group' = NextGroup
       /\ \/ PublishPacket(Packet("EndOfStream", NextGroup), {})
          \/ unannounced' = unannounced \cup {NextGroup} /\ UNCHANGED <<packetRing, keyLost>>

-----------------------------------------------------------------------------
(* The pass in which Shutdown is seen is the last. *)
AfterDrain == IF over THEN "last_frame" ELSE "frame"

(* Of the sizes that wait, an invalid one is refused, the size there is now  *)
(* is skipped, and the last of the others wins.                              *)
Pending ==
  {i \in DOMAIN sizeRing : Resizable /\ IsValidSize(sizeRing[i]) /\ sizeRing[i] # dims}

Drain ==
  /\ enc = "drain"
  /\ sizeRing' = <<>>
  /\ takenBack' = IF sizeRing = <<>> THEN takenBack
                  ELSE Pending # {} /\ Len(sizeRing) \notin Pending
  /\ UNCHANGED <<listening, over>>

KeepSize ==
  /\ Drain /\ Pending = {}
  /\ enc' = AfterDrain
  /\ UNCHANGED <<packetRing, dims, session, group, keyLost, unannounced>>

(* PreviewState::resize: the session is finished, the next frame opens one. *)
Resize ==
  /\ Drain
  /\ enc' = AfterDrain
  /\ \E i \in Pending : (\A j \in Pending : j <= i) /\ dims' = sizeRing[i]
  /\ FinishSession

(* The newest frame, when one waits, goes to handle_frame. *)
WithFrame ==
  /\ enc \in {"frame", "last_frame"}
  /\ enc' = IF enc = "frame" THEN "drain" ELSE "finish"
  /\ UNCHANGED <<sizeRing, listening, over, dims, takenBack>>

(* The first packet of a session is a keyframe, later ones when the codec's  *)
(* group of pictures ends, which no EndOfStream announces.                   *)
EncodeKeyframe ==
  /\ WithFrame
  /\ session = "coding" => group < MaxGroups
  /\ session' = "coding" /\ group' = NextGroup
  /\ PublishPacket(Packet("Key", NextGroup), IF session = "coding" THEN {NextGroup} ELSE {})

EncodeDelta ==
  /\ WithFrame
  /\ session = "coding"
  /\ PublishPacket(Packet("Delta", group), {})
  /\ UNCHANGED <<session, group>>

(* No frame waits, no session could be opened for it, or one was opened (or  *)
(* was there) and the codec gave no packet: it failed or holds it back.      *)
WithoutPacket ==
  /\ WithFrame
  /\ session' \in {session, IF session = "none" THEN "opened" ELSE session}
  /\ UNCHANGED <<packetRing, group, keyLost, unannounced>>

EncoderStops ==
  /\ enc = "finish"
  /\ enc' = "exited"
  /\ FinishSession
  /\ UNCHANGED <<sizeRing, listening, over, dims, takenBack>>

EncoderStep ==
  \/ KeepSize \/ Resize
  \/ EncodeKeyframe \/ EncodeDelta \/ WithoutPacket \/ EncoderStops
============================================================================
