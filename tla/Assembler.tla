----------------------------- MODULE Assembler -----------------------------
(***************************************************************************)
(* The episode assembler (episode-lerobot/src/runtime.rs): the             *)
(* EpisodeManager owned by the main loop, and the staging worker thread    *)
(* that turns a finished episode into a directory for the storage process. *)
(*                                                                         *)
(* `episodes` is split into the set of its keys and one set or function    *)
(* per field.  Of a camera's packet stream the manager only asks whether   *)
(* EndOfStream was seen ("eos") and whether a sequence error occurred      *)
(* ("failed"); otherwise it is "open" (PacketStream models the buffer).    *)
(* episode-mcap has the same manager, loop and worker (its Discard does not *)
(* look for a staging directory; an episode in the map has none).          *)
(* Both clocks (missing_eos_timeout_ms and stale_after) are abstracted:    *)
(* whenever a wait is under way its deadline may pass.                     *)
(*                                                                         *)
(* The main loop drains its inputs in a fixed order.  Two inputs that      *)
(* nothing else separates share a phase, because a sample may always       *)
(* arrive between finding a queue empty and looking at the next one: the   *)
(* camera packets share "dispatch", the stale sweep shares "stored".       *)
(***************************************************************************)
EXTENDS Bus

CONSTANTS
  Camera,         \* config.cameras
  StagingSlots    \* config.staging_slots

ASSUME CameraAssumption == Camera # {}                  \* "at least one camera is required"
ASSUME StagingSlotsAssumption == StagingSlots \in Nat \ {0}

VARIABLES
  active_episode_index,
  episodes,          \* keys of EpisodeManager.episodes
  stopped,           \* of those, the ones with stop_time_us
  keep_requested,    \* of those, the ones with keep_requested
  stream,            \* camera_streams of an episode, by camera
  in_flight,
  shutdown_requested,
  assemblerPhase,    \* place in the main loop
  stageQ,            \* WorkerCommand channel, unbounded
  stageEventQ,       \* WorkerEvent channel, unbounded
  stager,            \* the worker thread: "running" or "exited"
  staging,           \* disk: episodes with a finished staging directory
  dropped            \* history: episodes named in an EpisodeDropped

manager == <<active_episode_index, episodes, stopped, keep_requested, stream>>
stagerVars == <<stageQ, stageEventQ, stager, staging>>
assemblerVars ==
  <<manager, in_flight, shutdown_requested, assemblerPhase, stagerVars, dropped>>

StreamStatus == {"open", "eos", "failed"}

FreshStreams == [c \in Camera |-> "open"]

(* WorkerCommand and WorkerEvent; Shutdown, Error and ShutdownComplete are   *)
(* about no episode and carry 0.                                             *)
StageCommand == [type : {"Stage", "Shutdown"}, episode_index : Episode]

StageEvent == [type : {"Staged", "Error", "ShutdownComplete"}, episode_index : Episode]

AssemblerPhase ==
  {"control", "dispatch", "stored", "worker", "exited"}

AssemblerInit ==
  /\ active_episode_index = None
  /\ episodes = {} /\ stopped = {} /\ keep_requested = {}
  /\ stream = [e \in Episode |-> FreshStreams]
  /\ in_flight = {}
  /\ shutdown_requested = FALSE
  /\ assemblerPhase = "control"
  /\ stageQ = <<>> /\ stageEventQ = <<>>
  /\ stager = "running"
  /\ staging = {}
  /\ dropped = {}

-----------------------------------------------------------------------------
(* EpisodeManager.episodes: insert and remove. *)

InsertEpisode(e) ==
  /\ episodes' = episodes \cup {e}
  /\ stopped' = stopped \ {e}
  /\ keep_requested' = keep_requested \ {e}
  /\ stream' = [stream EXCEPT ![e] = FreshStreams]

RemoveEpisode(e) ==
  /\ episodes' = episodes \ {e}
  /\ stopped' = stopped \ {e}
  /\ keep_requested' = keep_requested \ {e}
  /\ stream' = [stream EXCEPT ![e] = FreshStreams]

(* remove_episode_artifacts: best-effort removal of the staging directory. *)
RemoveArtifacts(e) == staging' = staging \ {e}

ClearActive(e) ==
  active_episode_index' = IF active_episode_index = e THEN None ELSE active_episode_index

-----------------------------------------------------------------------------
(* Phase 1: drain_control_events, one event per step; Shutdown ends the drain. *)

Controlled(type, e) ==
  /\ assemblerPhase = "control"
  /\ Waiting("assembler.control")
  /\ Head(ring["assembler.control"]) = Msg(type, e)
  /\ ring' = Receive(ring, "assembler.control")
  /\ assemblerPhase' = IF type = "Shutdown" THEN "dispatch" ELSE "control"
  /\ UNCHANGED <<in_flight, stageQ, stageEventQ, stager, dropped>>

OnRecordingStart(e) ==
  /\ Controlled("RecordingStart", e)
  /\ InsertEpisode(e)
  /\ active_episode_index' = e
  /\ UNCHANGED <<shutdown_requested, staging>>

OnRecordingStop(e) ==
  /\ Controlled("RecordingStop", e)
  /\ stopped' = IF e \in episodes THEN stopped \cup {e} ELSE stopped
  /\ ClearActive(e)
  /\ UNCHANGED <<episodes, keep_requested, stream, shutdown_requested, staging>>

OnEpisodeKeep(e) ==
  /\ Controlled("EpisodeKeep", e)
  /\ keep_requested' = IF e \in episodes THEN keep_requested \cup {e}
                                         ELSE keep_requested
  /\ UNCHANGED <<active_episode_index, episodes, stopped, stream,
                 shutdown_requested, staging>>

OnEpisodeDiscard(e) ==
  /\ Controlled("EpisodeDiscard", e)
  /\ IF e \in episodes
     THEN RemoveEpisode(e) /\ RemoveArtifacts(e)
     ELSE UNCHANGED <<episodes, stopped, keep_requested, stream, staging>>
  /\ ClearActive(e)
  /\ UNCHANGED shutdown_requested

OnShutdown ==
  /\ Controlled("Shutdown", 0)
  /\ shutdown_requested' = TRUE
  /\ UNCHANGED <<manager, staging>>

(* A phase that ends without doing anything more. *)
AdvanceAssembler(from, to) ==
  /\ assemblerPhase = from
  /\ assemblerPhase' = to
  /\ UNCHANGED <<manager, in_flight, shutdown_requested, stagerVars, dropped, ring>>

ControlDrained ==
  ~Waiting("assembler.control") /\ AdvanceAssembler("control", "dispatch")

-----------------------------------------------------------------------------
(* Phase 2: drain_camera_packets.  A packet of an unknown episode is        *)
(* dropped; otherwise it moves the stream of its camera along.  Packets     *)
(* that change no status are not steps of the model.  (Observations and     *)
(* actions only add samples to the active episode; no decision reads them.) *)

StreamStep == {<<"open", "eos">>, <<"open", "failed">>, <<"eos", "failed">>}

OnPacket(e, c, to) ==
  /\ assemblerPhase = "dispatch"
  /\ e \in episodes
  /\ <<stream[e][c], to>> \in StreamStep
  /\ stream' = [stream EXCEPT ![e][c] = to]
  /\ UNCHANGED <<active_episode_index, episodes, stopped, keep_requested, in_flight,
                 shutdown_requested, assemblerPhase, stagerVars, dropped, ring>>

-----------------------------------------------------------------------------
(* Phase 2, second half: dispatch_ready_episodes and publish_drop.  The      *)
(* three lists are worked off one episode per step, the failed ones first.   *)

Failed(e) == e \in episodes /\ \E c \in Camera : stream[e][c] = "failed"

AllCamerasEos(e) == \A c \in Camera : stream[e][c] = "eos"

(* Mutant: a stopped episode is staged without waiting for the user. *)
StoppedOnly(e) == e \in episodes /\ e \in stopped

(* keep_requested and stop_time_us: the user kept it and the wait for the    *)
(* cameras' EndOfStream has started.                                         *)
KeptAndStopped(e) == e \in episodes /\ e \in keep_requested /\ e \in stopped

Ready(e) == KeptAndStopped(e) /\ ~Failed(e) /\ AllCamerasEos(e)

AwaitsEos(e) == KeptAndStopped(e) /\ ~Failed(e) /\ ~AllCamerasEos(e)

(* publish_drop: the backpressure event goes out before the drop notice. *)
PublishDrop(e, backpressure) ==
  /\ LET r == IF backpressure
              THEN Publish(ring, {"controller.backpressure"}, Msg("Backpressure", 0))
              ELSE ring
     IN  ring' = Publish(r, {"controller.dropped"}, Msg("EpisodeDropped", e))
  /\ dropped' = dropped \cup {e}

DropEpisode(e, backpressure) ==
  /\ assemblerPhase = "dispatch"
  /\ RemoveEpisode(e)
  /\ RemoveArtifacts(e)
  /\ PublishDrop(e, backpressure)
  /\ UNCHANGED <<active_episode_index, in_flight, shutdown_requested, assemblerPhase,
                 stageQ, stageEventQ, stager>>

NoneFailed == \A d \in Episode : ~Failed(d)

(* "packet_stream_failure", whether or not the episode is still recording. *)
DropFailed(e) == Failed(e) /\ DropEpisode(e, FALSE)

(* "missing_end_of_stream": missing_eos_timeout_ms has passed. *)
DropTimedOut(e) == NoneFailed /\ AwaitsEos(e) /\ DropEpisode(e, FALSE)

(* Ready episodes are taken in index order. *)
FirstReady(e) == NoneFailed /\ Ready(e) /\ \A d \in Episode : d < e => ~Ready(d)

(* Mutant: off by one in the slot check. *)
SlotFreeOneMore == Cardinality(in_flight) <= StagingSlots

SlotFree == Cardinality(in_flight) < StagingSlots

(* "staging_slots_full" *)
DropNoSlot(e) == FirstReady(e) /\ ~SlotFree /\ DropEpisode(e, TRUE)

(* Mutant: the dispatched episode is not removed from the map. *)
DispatchCopies(e) ==
  /\ assemblerPhase = "dispatch"
  /\ FirstReady(e)
  /\ SlotFree
  /\ stageQ' = Append(stageQ, Msg("Stage", e))
  /\ in_flight' = in_flight \cup {e}
  /\ UNCHANGED <<manager, shutdown_requested, assemblerPhase, stageEventQ, stager, staging,
                 dropped, ring>>

(* Mutant: no slot is taken for the dispatched episode. *)
DispatchTakesNoSlot(e) ==
  /\ assemblerPhase = "dispatch"
  /\ FirstReady(e)
  /\ SlotFree
  /\ stageQ' = Append(stageQ, Msg("Stage", e))
  /\ RemoveEpisode(e)
  /\ UNCHANGED <<active_episode_index, in_flight, shutdown_requested, assemblerPhase,
                 stageEventQ, stager, staging, dropped, ring>>

Dispatch(e) ==
  /\ assemblerPhase = "dispatch"
  /\ FirstReady(e)
  /\ SlotFree
  /\ stageQ' = Append(stageQ, Msg("Stage", e))
  /\ RemoveEpisode(e)
  /\ in_flight' = in_flight \cup {e}
  /\ UNCHANGED <<active_episode_index, shutdown_requested, assemblerPhase, stageEventQ,
                 stager, staging, dropped, ring>>

DispatchDone ==
  /\ \A e \in Episode : ~Failed(e) /\ ~Ready(e)
  /\ AdvanceAssembler("dispatch", "stored")

-----------------------------------------------------------------------------
(* Phase 3: EpisodeStored releases a slot; a slot held for longer than      *)
(* stale_after is taken back and its episode declared dropped.              *)

ReleaseSlot ==
  /\ assemblerPhase = "stored"
  /\ Waiting("assembler.stored")
  /\ in_flight' = in_flight \ {Head(ring["assembler.stored"]).episode_index}
  /\ ring' = Receive(ring, "assembler.stored")
  /\ UNCHANGED <<manager, shutdown_requested, assemblerPhase, stagerVars, dropped>>

SlotsReleased == ~Waiting("assembler.stored") /\ AdvanceAssembler("stored", "worker")

(* Mutant: the sweep cleans up the directory of the slot it takes back. *)
SweepRemovesArtifacts(e) ==
  /\ assemblerPhase = "stored"
  /\ ~Waiting("assembler.stored")
  /\ e \in in_flight
  /\ in_flight' = in_flight \ {e}
  /\ PublishDrop(e, TRUE)
  /\ RemoveArtifacts(e)
  /\ UNCHANGED <<manager, shutdown_requested, assemblerPhase, stageQ, stageEventQ, stager>>

(* Mutant: the sweep takes the slot back without a drop notice. *)
SweepSilently(e) ==
  /\ assemblerPhase = "stored"
  /\ ~Waiting("assembler.stored")
  /\ e \in in_flight
  /\ in_flight' = in_flight \ {e}
  /\ UNCHANGED <<manager, shutdown_requested, assemblerPhase, stagerVars, dropped, ring>>

(* "staging_slot_leak" *)
SweepStaleSlot(e) ==
  /\ assemblerPhase = "stored"
  /\ ~Waiting("assembler.stored")
  /\ e \in in_flight
  /\ in_flight' = in_flight \ {e}
  /\ PublishDrop(e, TRUE)
  /\ UNCHANGED <<manager, shutdown_requested, assemblerPhase, stagerVars>>

-----------------------------------------------------------------------------
(* Phase 4: the worker's events, then the shutdown check. *)

TakeStageEvent(type) ==
  /\ assemblerPhase = "worker"
  /\ stageEventQ # <<>>
  /\ Head(stageEventQ).type = type
  /\ stageEventQ' = Tail(stageEventQ)
  /\ UNCHANGED <<manager, in_flight, shutdown_requested, stageQ, stager, staging, dropped>>

OnStaged ==
  /\ TakeStageEvent("Staged")
  /\ ring' = Publish(ring, {"storage.ready"},
                     Msg("EpisodeReady", Head(stageEventQ).episode_index))
  /\ UNCHANGED assemblerPhase

(* A staging error is only logged: the slot stays taken. *)
OnStageError == TakeStageEvent("Error") /\ UNCHANGED <<assemblerPhase, ring>>

OnStageShutdown ==
  /\ TakeStageEvent("ShutdownComplete")
  /\ assemblerPhase' = "exited"
  /\ ring' = Forget(ring, AssemblerPort)

(* Mutant: a shutdown request is forgotten while work is pending. *)
LoopForgetsShutdown ==
  /\ assemblerPhase = "worker"
  /\ stageEventQ = <<>>
  /\ assemblerPhase' = "control"
  /\ shutdown_requested' = FALSE
  /\ stageQ' = IF shutdown_requested /\ episodes = {} /\ in_flight = {}
               THEN Append(stageQ, Msg("Shutdown", 0)) ELSE stageQ
  /\ UNCHANGED <<manager, in_flight, stageEventQ, stager, staging, dropped, ring>>

LoopAgain ==
  /\ assemblerPhase = "worker"
  /\ stageEventQ = <<>>
  /\ assemblerPhase' = "control"
  /\ IF shutdown_requested /\ episodes = {} /\ in_flight = {}
     THEN /\ stageQ' = Append(stageQ, Msg("Shutdown", 0))
         /\ shutdown_requested' = FALSE
     ELSE UNCHANGED <<stageQ, shutdown_requested>>
  /\ UNCHANGED <<manager, in_flight, stageEventQ, stager, staging, dropped, ring>>

-----------------------------------------------------------------------------
(* The staging worker thread: stage_worker_main and stage_episode. *)

TakeStageCommand(type, event) ==
  /\ stager = "running"
  /\ stageQ # <<>>
  /\ Head(stageQ).type = type
  /\ stageQ' = Tail(stageQ)
  /\ stageEventQ' = Append(stageEventQ, Msg(event, Head(stageQ).episode_index))
  /\ UNCHANGED <<manager, in_flight, shutdown_requested, assemblerPhase, dropped, ring>>

(* stage_episode wipes what an earlier attempt left, then writes the         *)
(* directory.  It fails on a camera that ended without a keyframe, and on    *)
(* any I/O error.                                                            *)
StageOk ==
  /\ TakeStageCommand("Stage", "Staged")
  /\ staging' = staging \cup {Head(stageQ).episode_index}
  /\ UNCHANGED stager

StageFails ==
  /\ TakeStageCommand("Stage", "Error")
  /\ staging' = staging \ {Head(stageQ).episode_index}
  /\ UNCHANGED stager

StageShutdown ==
  /\ TakeStageCommand("Shutdown", "ShutdownComplete")
  /\ stager' = "exited"
  /\ UNCHANGED staging

-----------------------------------------------------------------------------
AssemblerLoop ==
  \/ \E e \in Episode : \/ OnRecordingStart(e) \/ OnRecordingStop(e)
                        \/ OnEpisodeKeep(e) \/ OnEpisodeDiscard(e)
                        \/ DropFailed(e) \/ DropTimedOut(e) \/ DropNoSlot(e)
                        \/ Dispatch(e) \/ SweepStaleSlot(e)
  \/ \E e \in Episode, c \in Camera, to \in StreamStatus : OnPacket(e, c, to)
  \/ OnShutdown \/ ControlDrained \/ DispatchDone
  \/ ReleaseSlot \/ SlotsReleased
  \/ OnStaged \/ OnStageError \/ OnStageShutdown \/ LoopAgain

StagerNext == StageOk \/ StageFails \/ StageShutdown

(* SIGTERM or SIGKILL from the controller: the node is built with            *)
(* SignalHandlingMode::Disabled and there is no handler, so the process ends *)
(* with both threads and all it held in memory.                              *)
AssemblerKilled ==
  /\ assemblerPhase # "exited"
  /\ assemblerPhase' = "exited"
  /\ stager' = "exited"
  /\ active_episode_index' = None
  /\ episodes' = {} /\ stopped' = {} /\ keep_requested' = {}
  /\ stream' = [e \in Episode |-> FreshStreams]
  /\ in_flight' = {}
  /\ shutdown_requested' = FALSE
  /\ stageQ' = <<>> /\ stageEventQ' = <<>>
  /\ ring' = Forget(ring, AssemblerPort)
  /\ UNCHANGED <<staging, dropped>>
============================================================================
