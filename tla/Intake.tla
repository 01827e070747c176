------------------------------ MODULE Intake ------------------------------
(***************************************************************************)
(* The assembler's intake of one camera: control events and packets come   *)
(* from two processes over two topics, and nothing orders one against the  *)
(* other.  An assembler (episode-lerobot or episode-mcap)                  *)
(* first drains the control events, then the packets, and drops a packet   *)
(* of an episode it does not know.                                         *)
(*                                                                         *)
(* The encoder is its promise, StreamSpec (Recording shows that it keeps   *)
(* it), from the moment RecordingStart is published, and the weaker one:   *)
(* any keyframe pattern, as in passthrough streams.  The packet topic is   *)
(* opened without safe overflow and its publisher blocks: packets arrive   *)
(* in order and none is lost on the way.                                   *)
(***************************************************************************)
EXTENDS Messages, PacketStream

CONSTANT MaxPackets     \* bound: packets and EndOfStreams published

ASSUME MaxPacketsAssumption == MaxPackets \in Nat

VARIABLES
  inbox,         \* the assembler's ring of control/events
  state,         \* the controller's EpisodeState
  started,       \* recordings started so far, and the next index
  packets,       \* everything published on the recording-packets topic
  drain,         \* which drain the assembler is in: "control" or "packets"
  known,         \* keys of EpisodeManager.episodes
  keep_requested,
  buffer,        \* the stream buffer of a known episode
  consumed       \* packets read

assemblerVars == <<drain, known, keep_requested, buffer, consumed>>
vars == <<inbox, state, started, packets, assemblerVars>>

Topic == INSTANCE StreamSpec WITH Episodes <- Episode, Stamps <- {0}, Encoded <- FALSE

Init ==
  /\ Topic!Init
  /\ inbox = <<>> /\ state = "Idle" /\ started = 0
  /\ drain = "control"
  /\ known = {} /\ keep_requested = {}
  /\ \E f \in Format : buffer = [e \in Episode |-> EmptyBuffer(f)]
  /\ consumed = 0

-----------------------------------------------------------------------------
(* The controller's events and the encoder's packets. *)

Step(from, type, e, to) ==
  /\ state = from
  /\ state' = to
  /\ inbox' = Send(inbox, Msg(type, e))
  /\ UNCHANGED <<packets, assemblerVars>>

StartRecording ==
  /\ started < MaxEpisodes
  /\ Step("Idle", "RecordingStart", started, "Recording")
  /\ started' = started + 1

StopOrDecide ==
  /\ \/ Step("Recording", "RecordingStop", started - 1, "Pending")
     \/ Step("Pending", "EpisodeKeep", started - 1, "Idle")
     \/ Step("Pending", "EpisodeDiscard", started - 1, "Idle")
  /\ UNCHANGED started

EncoderPublishes ==
  /\ Len(packets) < MaxPackets
  /\ Topic!Next
  /\ packets'[Len(packets')].episode < started
  /\ UNCHANGED <<inbox, state, started, assemblerVars>>

-----------------------------------------------------------------------------
(* The assembler. *)

OnControlEvent ==
  /\ drain = "control"
  /\ inbox # <<>>
  /\ inbox' = Tail(inbox)
  /\ LET e == Head(inbox).episode_index
         Is(type) == Head(inbox).type = type
         starts == IF Is("RecordingStart") THEN {e} ELSE {}
         ends == IF Is("EpisodeDiscard") THEN {e} ELSE {}
         keeps == IF Is("EpisodeKeep") THEN {e} \cap known ELSE {}
     IN  /\ known' = (known \cup starts) \ ends
         /\ keep_requested' = (keep_requested \cup keeps) \ (starts \cup ends)
         /\ buffer' = [d \in Episode |-> IF d \in starts THEN EmptyBuffer(buffer[d].format) ELSE buffer[d]]
  /\ UNCHANGED <<state, started, packets, drain, consumed>>

Advance(from, to) ==
  /\ drain = from
  /\ drain' = to
  /\ UNCHANGED <<inbox, state, started, packets, known, keep_requested, buffer, consumed>>

ControlDrained == inbox = <<>> /\ Advance("control", "packets")

OnPacket ==
  /\ drain = "packets"
  /\ consumed < Len(packets)
  /\ consumed' = consumed + 1
  /\ LET packet == packets[consumed + 1]
         e == packet.episode
     IN  /\ buffer' = IF e \in known THEN [buffer EXCEPT ![e] = Observe(@, packet)] ELSE buffer
  /\ UNCHANGED <<inbox, state, started, packets, drain, known, keep_requested>>

(* dispatch_ready_episodes: a kept episode leaves the map, staged or timed   *)
(* out (Assembler has the conditions and the rest).                          *)
Leave(e) ==
  /\ drain = "packets"
  /\ consumed = Len(packets)
  /\ e \in keep_requested
  /\ known' = known \ {e}
  /\ keep_requested' = keep_requested \ {e}
  /\ UNCHANGED <<inbox, state, started, packets, drain, buffer, consumed>>

PacketsDrained == consumed = Len(packets) /\ Advance("packets", "control")

-----------------------------------------------------------------------------
Next ==
  \/ StartRecording \/ StopOrDecide \/ EncoderPublishes
  \/ OnControlEvent \/ ControlDrained \/ OnPacket \/ PacketsDrained
  \/ \E e \in Episode : Leave(e)

Spec == Init /\ [][Next]_vars

-----------------------------------------------------------------------------
(* A stream the assembler joined late is no sequence error: what it missed   *)
(* lies before the first packet it keeps, so it never drops an episode for   *)
(* "packet_stream_failure" on a topic that loses nothing.                    *)
NoFalseFailure == \A e \in known : ~buffer[e].failed

(* A complete buffer holds the stream without a hole, from its first         *)
(* keyframe to the packet before EndOfStream.                                *)
CompleteIsGapless ==
  \A e \in known : Complete(buffer[e]) =>
    \A i \in 1 .. consumed :
      LET p == packets[i]
      IN  (p.kind = "Packet" /\ p.episode = e /\ \E k \in buffer[e].kept : k <= p.sequence)
            => p.sequence \in buffer[e].kept
============================================================================
