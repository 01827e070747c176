--------------------------- MODULE ControllerEnv ---------------------------
(***************************************************************************)
(* The controller alone, against every environment the bus allows: a user  *)
(* who issues any command at any time, and assembler and storage processes *)
(* that publish backpressure, stored and dropped notices for any episode,  *)
(* late, repeated or out of order.  The control rings are not read: they   *)
(* hold the last BufferSize events.                                        *)
(***************************************************************************)
EXTENDS Controller

vars == <<controllerVars, ring>>

Arrives(port, sample) ==
  /\ ring' = Publish(ring, {port}, sample)
  /\ UNCHANGED controllerVars

Environment ==
  \/ \E c \in EpisodeCommand : Arrives("controller.command", Msg(c, 0))
  \/ Arrives("controller.backpressure", Msg("Backpressure", 0))
  \/ \E e \in Episode : Arrives("controller.stored", Msg("EpisodeStored", e))
  \/ Arrives("controller.dropped", Msg("EpisodeDropped", 0))   \* index only logged

Init == BusInit /\ ControllerInit

Next == Tick(FALSE) \/ PollHalt \/ Environment

Spec == Init /\ [][Next]_vars

-----------------------------------------------------------------------------
(* Type invariant: the controller's state and the contents of its rings. *)
TypeOK ==
  /\ ring \in [Port -> Seq(Message)]
  /\ state \in EpisodeState
  /\ episode_count \in Nat
  /\ next_episode_index \in ResumeIndex .. MaxEpisodes
  /\ state # "Idle" => next_episode_index < MaxEpisodes
  /\ stored_episode_indices \subseteq Episode
  /\ start_blocked \in BOOLEAN
  /\ status_changed \in BOOLEAN
  /\ status \in [state : EpisodeState, episode_count : Nat]
  /\ phase \in Phase
  /\ sent \subseteq Message

(* The control stream.  Every index from ResumeIndex up to the next one has  *)
(* been started, stopped and decided, kept or discarded but never both; the  *)
(* next index has seen exactly what the lifecycle state says; no other       *)
(* index, in particular none of an earlier session, was ever published       *)
(* (EpisodeLifecycle::handle_command and resume_from_prior_recordings).      *)
StreamOf(e) ==
  LET did(t) == Msg(t, e) \in sent
  IN  /\ did("RecordingStart") <=>
           \/ ResumeIndex <= e /\ e < next_episode_index
           \/ e = next_episode_index /\ state # "Idle"
      /\ did("RecordingStop") <=>
           \/ ResumeIndex <= e /\ e < next_episode_index
           \/ e = next_episode_index /\ state = "Pending"
      /\ did("EpisodeKeep") \/ did("EpisodeDiscard") <=>
           ResumeIndex <= e /\ e < next_episode_index
      /\ ~(did("EpisodeKeep") /\ did("EpisodeDiscard"))

ControlStream == \A e \in Episode : StreamOf(e)

(* episode_count is the resumed count plus one for every distinct stored     *)
(* episode, however often a notice is repeated (record_episode_stored).      *)
CountIsStored ==
  episode_count = ResumeCount + Cardinality(stored_episode_indices)

(* Between two ticks the status a UI shows is the lifecycle's: no path       *)
(* through a tick changes state or count without publishing                  *)
(* (status_changed in run_collect_loop).                                     *)
StatusFresh == phase = "poll" => status = Status

(* No control event is published twice: the assembler and the encoders key   *)
(* their state by episode index and would start an episode over.             *)
PublishedOnce ==
  [][ring'["assembler.control"] # ring["assembler.control"] => sent' # sent]_vars
============================================================================
