---------------------------- MODULE Controller ----------------------------
(***************************************************************************)
(* The controller of a collection session: the EpisodeLifecycle state      *)
(* machine (controller/src/episode.rs) driven by run_collect_loop          *)
(* (controller/src/collect.rs).                                            *)
(*                                                                         *)
(* One tick of the loop polls for shutdown, then drains four services in   *)
(* a fixed order and finally publishes the status.  `phase` is the place   *)
(* in the tick.  Draining receives one sample per step, so a sample that   *)
(* arrives after its phase was passed waits for the next tick while one    *)
(* for a later phase is still seen in this one.                            *)
(***************************************************************************)
EXTENDS Bus

CONSTANTS
  ResumeIndex,   \* ResumeHint.next_episode_index, 0 without a hint
  ResumeCount    \* ResumeHint.prior_stored_episode_count, 0 without a hint

ASSUME ResumeAssumption == ResumeIndex \in 0 .. MaxEpisodes /\ ResumeCount \in Nat

VARIABLES
  state, episode_count, next_episode_index, stored_episode_indices,
  start_blocked, status_changed,
  status,          \* the EpisodeStatus last published (what a UI shows)
  phase,           \* place in the tick
  sent             \* history: every control event ever published

lifecycle == <<state, episode_count, next_episode_index, stored_episode_indices>>
controllerVars == <<lifecycle, start_blocked, status_changed, status, phase, sent>>

EpisodeState == {"Idle", "Recording", "Pending"}

Phase == {"poll", "backpressure", "stored", "dropped", "commands", "terminating", "done"}

Status == [state |-> state, episode_count |-> episode_count]

ControllerInit ==
  /\ state = "Idle"
  /\ next_episode_index = ResumeIndex
  /\ episode_count = ResumeCount
  /\ stored_episode_indices = {}
  /\ start_blocked = FALSE
  /\ status_changed = FALSE
  /\ status = Status
  /\ phase = "poll"
  /\ sent = {}

PublishControl(r, event) ==
  /\ ring' = Publish(r, ControlPort, event)
  /\ sent' = sent \cup {event}

-----------------------------------------------------------------------------
(* The tick, phase by phase. *)

(* Neither the signal flag is set nor has a child exited: the tick goes on. *)
PollContinue(child_exited) ==
  /\ phase = "poll"
  /\ ~child_exited
  /\ phase' = "backpressure"
  /\ UNCHANGED <<lifecycle, start_blocked, status_changed, status, sent, ring>>

(* SIGINT/SIGTERM (which may arrive at any time) or a child's exit ends the  *)
(* loop, and Shutdown is broadcast.  Nothing is received from here on.        *)
PollHalt ==
  /\ phase = "poll"
  /\ phase' = "terminating"
  /\ PublishControl(Forget(ring, ControllerPort), Shutdown)
  /\ UNCHANGED <<lifecycle, start_blocked, status_changed, status>>

(* A service is drained when its ring is found empty. *)
Drained(from, port, to) ==
  /\ phase = from
  /\ ~Waiting(port)
  /\ phase' = to
  /\ UNCHANGED <<lifecycle, start_blocked, status_changed, status, sent, ring>>

ApplyBackpressure ==
  /\ phase = "backpressure"
  /\ Waiting("controller.backpressure")
  /\ ring' = Receive(ring, "controller.backpressure")
  /\ start_blocked' = TRUE
  /\ UNCHANGED <<lifecycle, status_changed, status, phase, sent>>

BackpressureDrained == Drained("backpressure", "controller.backpressure", "stored")

(* Mutant: a repeated notice is counted again. *)
CountsRepeats(e) == e < next_episode_index

(* EpisodeLifecycle::record_episode_stored accepts an index at most once, *)
(* and only one that is already decided.                                  *)
CountsAsStored(e) == e < next_episode_index /\ e \notin stored_episode_indices

ApplyStored ==
  /\ phase = "stored"
  /\ Waiting("controller.stored")
  /\ ring' = Receive(ring, "controller.stored")
  /\ LET e == Head(ring["controller.stored"]).episode_index
     IN  IF CountsAsStored(e)
         THEN /\ stored_episode_indices' = stored_episode_indices \cup {e}
              /\ episode_count' = episode_count + 1
              /\ start_blocked' = FALSE
              /\ status_changed' = TRUE
         ELSE UNCHANGED <<stored_episode_indices, episode_count, start_blocked,
                          status_changed>>
  /\ UNCHANGED <<state, next_episode_index, status, phase, sent>>

StoredDrained == Drained("stored", "controller.stored", "dropped")

ApplyDropped ==
  /\ phase = "dropped"
  /\ Waiting("controller.dropped")
  /\ ring' = Receive(ring, "controller.dropped")
  /\ start_blocked' = FALSE
  /\ status_changed' = TRUE
  /\ UNCHANGED <<lifecycle, status, phase, sent>>

DroppedDrained == Drained("dropped", "controller.dropped", "commands")

(* Commands: EpisodeLifecycle::handle_command under collect_control_events. *)
(* The code publishes the events of a batch after handling the batch; no    *)
(* one sees the lifecycle in between, so each event goes out with its step. *)
Commanded(c) ==
  /\ phase = "commands"
  /\ Waiting("controller.command")
  /\ Head(ring["controller.command"]).type = c
  /\ UNCHANGED <<episode_count, stored_episode_indices, status, phase>>

(* Mutant: the change is not flagged for publication. *)
TransitionUnflagged(from, to, event) ==
  /\ state = from
  /\ state' = to
  /\ UNCHANGED status_changed
  /\ PublishControl(Receive(ring, "controller.command"), Msg(event, next_episode_index))

Transition(from, to, event) ==
  /\ state = from
  /\ state' = to
  /\ status_changed' = TRUE
  /\ PublishControl(Receive(ring, "controller.command"), Msg(event, next_episode_index))

(* Within the bound MaxEpisodes: past it the model's controller refuses. *)
MayStart == ~start_blocked /\ next_episode_index < MaxEpisodes

StartEpisode ==
  /\ Commanded("Start")
  /\ MayStart
  /\ Transition("Idle", "Recording", "RecordingStart")
  /\ UNCHANGED <<next_episode_index, start_blocked>>

StopEpisode ==
  /\ Commanded("Stop")
  /\ Transition("Recording", "Pending", "RecordingStop")
  /\ UNCHANGED <<next_episode_index, start_blocked>>

(* Mutant: a kept episode's index is used again. *)
KeepReusesIndex ==
  /\ Commanded("Keep")
  /\ Transition("Pending", "Idle", "EpisodeKeep")
  /\ UNCHANGED <<next_episode_index, start_blocked>>

KeepEpisode ==
  /\ Commanded("Keep")
  /\ Transition("Pending", "Idle", "EpisodeKeep")
  /\ next_episode_index' = next_episode_index + 1
  /\ UNCHANGED start_blocked

(* Mutant: a discarded episode's index is used again. *)
DiscardReusesIndex ==
  /\ Commanded("Discard")
  /\ Transition("Pending", "Idle", "EpisodeDiscard")
  /\ start_blocked' = FALSE
  /\ UNCHANGED next_episode_index

DiscardEpisode ==
  /\ Commanded("Discard")
  /\ Transition("Pending", "Idle", "EpisodeDiscard")
  /\ next_episode_index' = next_episode_index + 1
  /\ start_blocked' = FALSE

Accepts(c) ==
  \/ c = "Start" /\ MayStart /\ state = "Idle"
  \/ c = "Stop" /\ state = "Recording"
  \/ c \in {"Keep", "Discard"} /\ state = "Pending"

(* A blocked Start is skipped and a command that does not fit the state is *)
(* refused: both are logged and change nothing.                            *)
RefuseCommand ==
  \E c \in EpisodeCommand :
    /\ Commanded(c)
    /\ ~Accepts(c)
    /\ ring' = Receive(ring, "controller.command")
    /\ UNCHANGED <<state, next_episode_index, start_blocked, status_changed, sent>>

(* The end of a tick publishes the status when something changed or while   *)
(* recording (the elapsed time moves).                                      *)
CommandsDrained ==
  /\ phase = "commands"
  /\ ~Waiting("controller.command")
  /\ phase' = "poll"
  /\ status' = IF status_changed \/ state = "Recording" THEN Status ELSE status
  /\ status_changed' = FALSE
  /\ UNCHANGED <<lifecycle, start_blocked, sent, ring>>

Tick(child_exited) ==
  \/ PollContinue(child_exited)
  \/ ApplyBackpressure \/ BackpressureDrained
  \/ ApplyStored \/ StoredDrained
  \/ ApplyDropped \/ DroppedDrained
  \/ StartEpisode \/ StopEpisode \/ KeepEpisode \/ DiscardEpisode
  \/ RefuseCommand \/ CommandsDrained
============================================================================
