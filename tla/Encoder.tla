------------------------------ MODULE Encoder ------------------------------
(***************************************************************************)
(* A camera's recording encoder (encoder/src/recording_runtime.rs): the    *)
(* main loop, which relays control events and frames, and the worker       *)
(* thread, which owns the encoder session and publishes packets.           *)
(*                                                                         *)
(* Time is the number of recordings started so far: a frame carries the    *)
(* value at its capture (its timestamp), and RecordingStart of episode e   *)
(* carries e + 1, so "older than recording_start_us" is a comparison.  A   *)
(* frame that is encoded becomes one packet at once; a codec that holds    *)
(* packets back emits them in the same order, at the latest in finish.     *)
(***************************************************************************)
EXTENDS Messages

CONSTANTS
  Codec,        \* "libav", "rvl" or "passthrough": the session behind EncoderSession
  QueueSize     \* recording.queue_size, the bounded frame channel

ASSUME CodecAssumption == Codec \in {"libav", "rvl", "passthrough"}
ASSUME QueueSizeAssumption == QueueSize \in Nat \ {0}    \* "queue_size must be > 0"

VARIABLES
  inbox,               \* the encoder's ring of control/events
  frameRing,           \* the encoder's ring of the camera's frame topic
  mainPhase,           \* place in the main loop
  recording_active,
  request_stop,
  request_shutdown,
  shutdown_requested,
  frameQ,              \* frame_tx/frame_rx
  workQ,               \* control_tx/control_rx
  eventQ,              \* event_tx/event_rx
  workerPhase,         \* place in worker_main
  processed_any_frame,
  pending_episode,
  session,             \* active_session: its episode
  next_sequence,       \* of the session
  force_keyframe,      \* of the session
  stop_after_drain,
  packets              \* everything published on the recording-packets topic

mainVars == <<mainPhase, recording_active, request_stop, request_shutdown, shutdown_requested>>
sessionVars == <<pending_episode, session, next_sequence, force_keyframe, stop_after_drain>>
workerVars == <<workerPhase, processed_any_frame, sessionVars, packets>>
encoderVars == <<mainVars, frameQ, workQ, eventQ, workerVars>>

EncoderInit ==
  /\ mainPhase = "events"
  /\ recording_active = FALSE
  /\ request_stop = FALSE /\ request_shutdown = FALSE /\ shutdown_requested = FALSE
  /\ frameQ = <<>> /\ workQ = <<>> /\ eventQ = <<>>
  /\ workerPhase = "control" /\ processed_any_frame = FALSE
  /\ pending_episode = None /\ session = None
  /\ next_sequence = 0 /\ force_keyframe = FALSE
  /\ stop_after_drain = FALSE
  /\ packets = <<>>

(* worker_main has returned: "failed" when it left no event behind. *)
WorkerGone == workerPhase \in {"exited", "failed"}

-----------------------------------------------------------------------------
(* The main loop.  Sending to a worker that has returned fails, and `?` (or  *)
(* the Disconnected branch) ends the process.                                *)

MainExits ==
  /\ mainPhase' = "exited"
  /\ UNCHANGED <<recording_active, request_stop, request_shutdown, shutdown_requested,
                 frameQ, workQ, eventQ>>

OnWorkerEvent ==
  /\ mainPhase = "events"
  /\ eventQ # <<>>
  /\ eventQ' = Tail(eventQ)
  /\ IF Head(eventQ) = "Error"
     THEN mainPhase' = "exited" /\ UNCHANGED shutdown_requested
     ELSE shutdown_requested' = TRUE /\ UNCHANGED mainPhase
  /\ UNCHANGED <<inbox, frameRing, recording_active, request_stop, request_shutdown,
                 frameQ, workQ, workerVars>>

AdvanceMain(from, to) ==
  /\ mainPhase = from
  /\ mainPhase' = to
  /\ UNCHANGED <<inbox, frameRing, recording_active, request_stop, request_shutdown,
                 shutdown_requested, frameQ, workQ, eventQ, workerVars>>

EventsDrained == eventQ = <<>> /\ AdvanceMain("events", "control")

Controlled(types) ==
  /\ mainPhase = "control"
  /\ inbox # <<>>
  /\ Head(inbox).type \in types
  /\ inbox' = Tail(inbox)
  /\ UNCHANGED <<frameRing, workerVars>>

OnRecordingStart ==
  /\ Controlled({"RecordingStart"})
  /\ \/ WorkerGone /\ MainExits
     \/ /\ ~WorkerGone
        /\ workQ' = Append(workQ, Head(inbox))
        /\ recording_active' = TRUE
        /\ UNCHANGED <<mainPhase, request_stop, request_shutdown, shutdown_requested,
                       frameQ, eventQ>>

(* Stop and Shutdown are only noted; the worker is told after the frames. *)
OnRecordingStop ==
  /\ Controlled({"RecordingStop"})
  /\ request_stop' = TRUE
  /\ UNCHANGED <<mainPhase, recording_active, request_shutdown, shutdown_requested,
                 frameQ, workQ, eventQ>>

OnShutdown ==
  /\ Controlled({"Shutdown"})
  /\ request_shutdown' = TRUE
  /\ UNCHANGED <<mainPhase, recording_active, request_stop, shutdown_requested,
                 frameQ, workQ, eventQ>>

OnDecision ==
  /\ Controlled({"EpisodeKeep", "EpisodeDiscard"})
  /\ UNCHANGED <<mainVars, frameQ, workQ, eventQ>>

ControlDrained == inbox = <<>> /\ AdvanceMain("control", "frames")

(* A full frame queue costs the frame: backpressure is reported to the       *)
(* controller (ControllerEnv) and the worker counts the loss.                *)
ForwardFrame(frame) ==
  /\ IF Len(frameQ) < QueueSize
     THEN frameQ' = Append(frameQ, frame) /\ UNCHANGED workQ
     ELSE workQ' = Append(workQ, Msg("DroppedFrame", 0)) /\ UNCHANGED frameQ
  /\ UNCHANGED <<mainVars, eventQ>>

OnFrame ==
  /\ mainPhase = "frames"
  /\ frameRing # <<>>
  /\ frameRing' = Tail(frameRing)
  /\ \/ ~recording_active /\ UNCHANGED <<mainVars, frameQ, workQ, eventQ>>
     \/ recording_active /\ WorkerGone /\ MainExits
     \/ recording_active /\ ~WorkerGone /\ ForwardFrame(Head(frameRing))
  /\ UNCHANGED <<inbox, workerVars>>

Requested ==
  (IF request_stop THEN <<Msg("RecordingStop", 0)>> ELSE <<>>)
    \o (IF request_shutdown THEN <<Shutdown>> ELSE <<>>)

(* End of an iteration: tell the worker, leave if it has shut down. *)
SignalWorker ==
  /\ mainPhase = "frames"
  /\ frameRing = <<>>
  /\ \/ WorkerGone /\ Requested # <<>> /\ MainExits
     \/ /\ ~WorkerGone \/ Requested = <<>>
        /\ workQ' = workQ \o Requested
        /\ recording_active' = (recording_active /\ Requested = <<>>)
        /\ request_stop' = FALSE /\ request_shutdown' = FALSE
        /\ mainPhase' = IF shutdown_requested THEN "exited" ELSE "events"
        /\ UNCHANGED <<shutdown_requested, frameQ, eventQ>>
  /\ UNCHANGED <<inbox, frameRing, workerVars>>

MainStep ==
  \/ OnWorkerEvent \/ EventsDrained
  \/ OnRecordingStart \/ OnRecordingStop \/ OnShutdown \/ OnDecision \/ ControlDrained
  \/ OnFrame \/ SignalWorker

-----------------------------------------------------------------------------
(* The session: encode publishes a packet, finish the EndOfStream. *)

PacketOf(kind, e, sequence, key, captured) ==
  [kind |-> kind, episode |-> e, sequence |-> sequence, key |-> key, captured |-> captured]

(* Mutant: the session is dropped without its EndOfStream. *)
AbandonSession == packets' = packets

FinishSession ==
  packets' = IF session = None THEN packets
             ELSE Append(packets, PacketOf("EndOfStream", session, next_sequence, FALSE, 0))

(* Mutant: frames captured before the recording started are encoded. *)
TooOldForNone(frame, e) == FALSE

(* compute_pts_us; rvl and passthrough clamp the timestamp instead. *)
TooOld(frame, e) == Codec = "libav" /\ frame < e + 1

(* Which packets are keyframes: the first one and those the codec inserts    *)
(* for libav, every one for rvl, what the camera sends for passthrough.      *)
LibavKeys(forced) == IF forced THEN {TRUE} ELSE BOOLEAN
RvlKeys == {TRUE}
PassthroughKeys == BOOLEAN

(* Mutant: the keyframe request is lost. *)
KeyChoiceUnforced(forced) == IF Codec = "rvl" THEN RvlKeys ELSE BOOLEAN

KeyChoice(forced) ==
  CASE Codec = "libav" -> LibavKeys(forced)
    [] Codec = "rvl" -> RvlKeys
    [] Codec = "passthrough" -> PassthroughKeys

(* CodecSession::encode of the session of episode e. *)
Encode(frame, e, sequence, forced) ==
  IF TooOld(frame, e)
  THEN next_sequence' = sequence /\ force_keyframe' = forced /\ UNCHANGED packets
  ELSE \E key \in KeyChoice(forced) :
         /\ packets' = Append(packets, PacketOf("Packet", e, sequence, key, frame))
         /\ next_sequence' = sequence + 1
         /\ force_keyframe' = FALSE

(* The episode whose session takes the next frame: a session is opened on    *)
(* the first frame after RecordingStart.                                     *)
FrameOwner == IF session = None THEN pending_episode ELSE session

HandleFrame(frame) ==
  /\ session' = FrameOwner
  /\ \/ FrameOwner = None /\ UNCHANGED <<next_sequence, force_keyframe, packets>>
     \/ FrameOwner # None /\ session = None /\ Encode(frame, FrameOwner, 0, TRUE)
     \/ session # None /\ Encode(frame, session, next_sequence, force_keyframe)
  /\ UNCHANGED <<pending_episode, stop_after_drain>>

-----------------------------------------------------------------------------
(* The worker loop: all controls, then all frames, then one timed wait. *)

TakeControl(type) ==
  /\ workerPhase = "control"
  /\ workQ # <<>>
  /\ Head(workQ).type = type
  /\ workQ' = Tail(workQ)
  /\ UNCHANGED <<inbox, frameRing, mainVars, frameQ>>

WorkerStart ==
  /\ TakeControl("RecordingStart")
  /\ FinishSession
  /\ session' = None
  /\ pending_episode' = Head(workQ).episode_index
  /\ stop_after_drain' = FALSE
  /\ UNCHANGED <<next_sequence, force_keyframe, eventQ, workerPhase, processed_any_frame>>

(* Mutant: RecordingStop is not remembered. *)
WorkerStopForgets ==
  /\ TakeControl("RecordingStop")
  /\ UNCHANGED <<sessionVars, packets, eventQ, workerPhase, processed_any_frame>>

WorkerStop ==
  /\ TakeControl("RecordingStop")
  /\ stop_after_drain' = TRUE
  /\ UNCHANGED <<pending_episode, session, next_sequence, force_keyframe, packets, eventQ,
                 workerPhase, processed_any_frame>>

(* DroppedFrame only counts in the session's metrics. *)
WorkerDropped ==
  /\ TakeControl("DroppedFrame")
  /\ UNCHANGED <<workerVars, eventQ>>

(* Mutant: the worker returns without telling the main loop. *)
WorkerShutdownSilently ==
  /\ TakeControl("Shutdown")
  /\ FinishSession
  /\ session' = None
  /\ workerPhase' = "exited"
  /\ UNCHANGED <<pending_episode, next_sequence, force_keyframe, stop_after_drain,
                 processed_any_frame, eventQ>>

WorkerShutdown ==
  /\ TakeControl("Shutdown")
  /\ FinishSession
  /\ session' = None
  /\ eventQ' = Append(eventQ, "ShutdownComplete")
  /\ workerPhase' = "exited"
  /\ UNCHANGED <<pending_episode, next_sequence, force_keyframe, stop_after_drain,
                 processed_any_frame>>

WorkerControlDrained ==
  /\ workerPhase = "control"
  /\ workQ = <<>>
  /\ workerPhase' = "frames"
  /\ processed_any_frame' = FALSE
  /\ UNCHANGED <<inbox, frameRing, mainVars, frameQ, workQ, eventQ, sessionVars, packets>>

(* try_recv stays with the frames; a frame that ends the timed wait leads    *)
(* straight back to the controls.                                            *)
WorkerFrame ==
  /\ workerPhase \in {"frames", "wait"}
  /\ frameQ # <<>>
  /\ HandleFrame(Head(frameQ))
  /\ frameQ' = Tail(frameQ)
  /\ processed_any_frame' = TRUE
  /\ workerPhase' = IF workerPhase = "wait" THEN "control" ELSE "frames"
  /\ UNCHANGED <<inbox, frameRing, mainVars, workQ, eventQ>>

WorkerFramesDrained ==
  /\ workerPhase = "frames"
  /\ frameQ = <<>>
  /\ workerPhase' = IF processed_any_frame THEN "control" ELSE "wait"
  /\ UNCHANGED <<inbox, frameRing, mainVars, frameQ, workQ, eventQ, processed_any_frame,
                 sessionVars, packets>>

(* The wait times out: with a stop requested, the recording is over. *)
WorkerTimeout ==
  /\ workerPhase = "wait"
  /\ frameQ = <<>>
  /\ workerPhase' = "control"
  /\ IF stop_after_drain
     THEN /\ FinishSession
          /\ session' = None /\ pending_episode' = None
          /\ stop_after_drain' = FALSE
     ELSE UNCHANGED <<packets, session, pending_episode, stop_after_drain>>
  /\ UNCHANGED <<inbox, frameRing, mainVars, frameQ, workQ, eventQ, processed_any_frame,
                 next_sequence, force_keyframe>>

WorkerStep ==
  \/ WorkerStart \/ WorkerStop \/ WorkerDropped \/ WorkerShutdown
  \/ WorkerControlDrained \/ WorkerFrame \/ WorkerFramesDrained \/ WorkerTimeout

(* A session that cannot be opened or that fails to encode makes worker_main *)
(* return without an event; one that fails to finish is reported.            *)
EncodeFails ==
  /\ workerPhase \in {"frames", "wait"}
  /\ frameQ # <<>>
  /\ FrameOwner # None
  /\ workerPhase' = "failed"
  /\ frameQ' = Tail(frameQ)
  /\ UNCHANGED <<inbox, frameRing, mainVars, workQ, eventQ, processed_any_frame, sessionVars,
                 packets>>

FinishFails ==
  /\ session # None
  /\ \/ /\ workerPhase = "control"
        /\ workQ # <<>>
        /\ Head(workQ).type \in {"RecordingStart", "Shutdown"}
     \/ workerPhase = "wait" /\ frameQ = <<>> /\ stop_after_drain
  /\ workerPhase' = "exited"
  /\ eventQ' = Append(eventQ, "Error")
  /\ UNCHANGED <<inbox, frameRing, mainVars, frameQ, workQ, processed_any_frame, sessionVars,
                 packets>>
============================================================================
