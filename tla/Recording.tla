----------------------------- MODULE Recording -----------------------------
(***************************************************************************)
(* The recording path of one camera up to the packet topic: the control    *)
(* events of a session, the camera, and the encoder.  Encoders of          *)
(* different cameras share nothing, so one is enough.                      *)
(*                                                                         *)
(* The session publishes the stream of events that ControllerProofs shows  *)
(* of the controller (ControlStream).  The encoder ignores EpisodeKeep and *)
(* EpisodeDiscard alike, so one of them stands for both.                   *)
(***************************************************************************)
EXTENDS Encoder, Functions

CONSTANTS
  FrameDepth,    \* depth of the encoder's frame ring (iceoryx2 default: 2)
  MaxFrames      \* bound: frames the camera captures

ASSUME FrameAssumption == FrameDepth \in Nat \ {0} /\ MaxFrames \in Nat

VARIABLES
  state,         \* the controller's EpisodeState, or "Over" after Shutdown
  started,       \* recordings started so far: the clock, and the next index
  captured       \* frames captured so far

sessionState == <<state, started, captured>>
vars == <<inbox, frameRing, encoderVars, sessionState>>

Init ==
  /\ EncoderInit
  /\ inbox = <<>> /\ frameRing = <<>>
  /\ state = "Idle" /\ started = 0 /\ captured = 0

-----------------------------------------------------------------------------
(* The session and the camera. *)

PublishEvent(type, e) ==
  /\ inbox' = Send(inbox, Msg(type, e))
  /\ UNCHANGED <<frameRing, encoderVars, captured>>

StartRecording ==
  /\ state = "Idle" /\ started < MaxEpisodes
  /\ PublishEvent("RecordingStart", started)
  /\ state' = "Recording"
  /\ started' = started + 1

StopRecording ==
  /\ state = "Recording"
  /\ PublishEvent("RecordingStop", started - 1)
  /\ state' = "Pending"
  /\ UNCHANGED started

Decide ==
  /\ state = "Pending"
  /\ PublishEvent("EpisodeKeep", started - 1)
  /\ state' = "Idle"
  /\ UNCHANGED started

EndSession ==
  /\ state # "Over"
  /\ PublishEvent("Shutdown", 0)
  /\ state' = "Over"
  /\ UNCHANGED started

Capture ==
  /\ captured < MaxFrames
  /\ captured' = captured + 1
  /\ frameRing' = Append(IF Len(frameRing) < FrameDepth THEN frameRing ELSE Tail(frameRing),
                         started)
  /\ UNCHANGED <<inbox, encoderVars, state, started>>

-----------------------------------------------------------------------------
EncoderMain == MainStep /\ UNCHANGED sessionState
EncoderWorker == WorkerStep /\ UNCHANGED sessionState
EncoderFault == (EncodeFails \/ FinishFails) /\ UNCHANGED sessionState

Finished == mainPhase = "exited" /\ UNCHANGED vars

Next ==
  \/ StartRecording \/ StopRecording \/ Decide \/ EndSession
  \/ Capture
  \/ EncoderMain \/ EncoderWorker \/ EncoderFault \/ Finished

Spec == Init /\ [][Next]_vars

(* The encoder's two threads run; nothing is assumed of the user, of the     *)
(* camera or of a codec's errors.                                            *)
FairSpec == Spec /\ WF_vars(EncoderMain) /\ WF_vars(EncoderWorker)

-----------------------------------------------------------------------------
Stream(e) == {p \in Range(packets) : p.episode = e}
Ended(e) == \E p \in Stream(e) : p.kind = "EndOfStream"
Stopped(e) == e < started /\ (e + 1 < started \/ state # "Recording")

(* The encoder keeps the promise of StreamSpec, in whatever order Stop,      *)
(* Start and Shutdown met frames that were still queued: although frames     *)
(* older than the recording wait in the frame ring and in the worker's       *)
(* queue, and although the frame that opened the session may itself be too   *)
(* old to be encoded.                                                        *)
Promise == INSTANCE StreamSpec
             WITH Episodes <- Episode, Stamps <- 0 .. MaxEpisodes, Encoded <- Codec = "libav"

StreamsAsPromised == Promise!Spec

(* Once an episode has a packet, its stop is followed by its EndOfStream,    *)
(* even when RecordingStop itself was overwritten in the encoder's ring.     *)
StopEndsOpenStream ==
  \A e \in Episode : (Stream(e) # {} /\ Stopped(e)) ~> (Ended(e) \/ WorkerGone)

(* Shutdown ends the encoder process, whatever it was doing and although     *)
(* sessions may fail to finish.  Only a worker that failed to encode after   *)
(* it was sent Shutdown leaves the main loop waiting for an event that       *)
(* nobody sends.                                                             *)
ShutdownEndsEncoder == state = "Over" ~> (mainPhase = "exited" \/ workerPhase = "failed")
============================================================================
