------------------------------ MODULE Messages ------------------------------
(***************************************************************************)
(* The messages of the episode services and what a subscriber's ring does  *)
(* with them.  Each subscriber of an iceoryx2 service owns a ring of       *)
(* BufferSize samples; a publisher that meets a full ring overwrites the   *)
(* oldest sample ("safe overflow"), so a slow subscriber loses events      *)
(* silently.  The episode services (control/events, episode-command,       *)
(* backpressure, episode-ready, -stored, -dropped) are opened with the     *)
(* library's default depth, 2 (rollio-bus/src/lib.rs).                     *)
(***************************************************************************)
EXTENDS Naturals, Sequences, FiniteSets

CONSTANTS
  BufferSize,    \* depth of a subscriber's ring (iceoryx2 default: 2)
  MaxEpisodes    \* bound: episode indices of the model are below it

ASSUME BufferSizeAssumption == BufferSize \in Nat \ {0}
ASSUME MaxEpisodesAssumption == MaxEpisodes \in Nat \ {0}

Episode == 0 .. MaxEpisodes - 1

None == MaxEpisodes      \* Option::None for an index, a number no episode has

(* Every sample is a type and the episode it is about; commands, Shutdown    *)
(* and backpressure are about none and carry 0.  The reasons and paths the   *)
(* notices carry are only logged.                                            *)
ControlEventType ==
  {"RecordingStart", "RecordingStop", "EpisodeKeep", "EpisodeDiscard", "Shutdown"}

EpisodeCommand == {"Start", "Stop", "Keep", "Discard"}

Message ==
  [type : ControlEventType \cup EpisodeCommand
            \cup {"EpisodeReady", "EpisodeStored", "EpisodeDropped", "Backpressure"},
   episode_index : Episode]

Msg(t, e) == [type |-> t, episode_index |-> e]

Shutdown == Msg("Shutdown", 0)

(* A ring after one more sample was published to it. *)
Send(q, sample) ==
  IF Len(q) < BufferSize THEN Append(q, sample) ELSE Append(Tail(q), sample)
============================================================================
