------------------------------ MODULE Dataset ------------------------------
(***************************************************************************)
(* The dataset on disk over several sessions: how a staged episode is      *)
(* merged into it one file operation at a time                             *)
(* (storage/local-lerobot/src/runtime.rs; storage/local for mcap), how a   *)
(* session finds out where to continue (controller/src/dataset_resume.rs), *)
(* and what is left when the storage process dies in between.              *)
(*                                                                         *)
(* A take is one recorded episode; files are identified by the take they   *)
(* came from, so that an overwritten file can be told from an old one.     *)
(* Each tree (data, videos, raw) has one file per episode.  The assembler  *)
(* stages neither tasks.jsonl nor episodes_stats.jsonl, so their merges do *)
(* nothing.  A line appended to episodes.jsonl is one short write and is   *)
(* taken to be there or not; info.json is truncated and then written.      *)
(***************************************************************************)
EXTENDS Integers, Sequences, FiniteSets

CONSTANTS
  Config,         \* project configurations
  Format,         \* the episode formats, each with its storage process
  MaxEpisodes,    \* bound: episode indices
  MaxTakes,       \* bound: episodes recorded, over all sessions
  MaxSessions     \* bound: sessions

ASSUME FormatAssumption == Format \subseteq {"lerobot", "mcap"} /\ Format # {}
ASSUME ConfigAssumption == Config # {}
ASSUME MaxAssumption == MaxEpisodes \in Nat \ {0} /\ MaxTakes \in Nat /\ MaxSessions \in Nat

VARIABLES
  format,         \* config.episode.format of this dataset
  files,          \* the trees: the take each episode's file came from, 0 without one
  torn,           \* files that were only partly copied
  jsonl,          \* meta/episodes.jsonl: the takes with a line, in order
  info, total_episodes, embedded_config,   \* meta/info.json
  session,        \* "off" or "collecting"
  config,         \* the session's project configuration
  next_episode_index,
  queue,          \* EpisodeReady requests waiting for the storage worker
  step,           \* the worker's place in StoreSteps, 0 when it is idle
  takes,          \* history: episode index and configuration of every take
  stored,         \* history: takes EpisodeStored was sent for
  sessions        \* history: sessions started

disk == <<format, files, torn, jsonl, info, total_episodes, embedded_config>>
process == <<session, config, next_episode_index, queue, step>>
vars == <<disk, process, takes, stored, sessions>>

Episode == 0 .. MaxEpisodes - 1
Take == 1 .. MaxTakes
Part == IF format = "mcap" THEN {"episode.mcap"} ELSE {"data", "videos", "raw"}

(* Mutants: the file is moved before the old directory is cleared; the line  *)
(* of episodes.jsonl is written before the videos; info.json before the line. *)
StoreStepsLateClear == <<"episode.mcap", "clear", "remove_staging">>
StoreStepsEarlyLine == <<"data", "episodes.jsonl", "videos", "raw", "info.json", "remove_staging">>
StoreStepsEarlyInfo == <<"data", "videos", "raw", "info.json", "episodes.jsonl", "remove_staging">>

(* store_episode_local, from the first merge to the removal of the staging   *)
(* directory.  storage/local clears the episode's directory and moves its    *)
(* one file.                                                                 *)
StoreSteps ==
  IF format = "mcap" THEN <<"clear", "episode.mcap", "remove_staging">>
  ELSE <<"data", "videos", "raw", "episodes.jsonl", "info.json", "remove_staging">>

Init ==
  /\ format \in Format
  /\ files = [p \in Part |-> [e \in Episode |-> 0]]
  /\ torn = {}
  /\ jsonl = <<>>
  /\ info = "absent" /\ total_episodes = 0 /\ embedded_config \in Config
  /\ session = "off" /\ config = embedded_config /\ next_episode_index = 0
  /\ queue = <<>> /\ step = 0
  /\ takes = <<>> /\ stored = {} /\ sessions = 0

-----------------------------------------------------------------------------
(* Starting a session: probe_resume. *)

Listed == {takes[jsonl[i]].episode : i \in DOMAIN jsonl}
InData == {e \in Episode : files["data"][e] # 0}

(* Mutant: only episodes.jsonl is looked at. *)
SeenIgnoresData == Listed

(* lerobot_resume_hint_if_episodes_exist: indices with a line or a parquet file. *)
Seen == IF format = "mcap" THEN {} ELSE Listed \cup InData

(* Mutant: any configuration may continue the dataset. *)
ConfigMatchesAny(c) == info = "valid"

(* read_info_embedded_config_toml, embedded_configs_match *)
ConfigMatches(c) == info = "valid" /\ embedded_config = c

NextIndex == IF Seen = {} THEN 0 ELSE (CHOOSE m \in Seen : \A e \in Seen : e <= m) + 1

(* A session that is refused starts nothing, and is no step of the model. *)
StartSession(c) ==
  /\ session = "off" /\ sessions < MaxSessions
  /\ Seen # {} => ConfigMatches(c)
  /\ session' = "collecting"
  /\ config' = c
  /\ next_episode_index' = NextIndex
  /\ sessions' = sessions + 1
  /\ UNCHANGED <<disk, queue, step, takes, stored>>

(* Mutant: the request names the episode index instead of the take. *)
RecordEpisodeByIndex ==
  /\ session = "collecting"
  /\ next_episode_index < MaxEpisodes /\ Len(takes) < MaxTakes
  /\ next_episode_index' = next_episode_index + 1
  /\ takes' = Append(takes, [episode |-> next_episode_index, config |-> config])
  /\ queue' = Append(queue, next_episode_index)
  /\ UNCHANGED <<disk, session, config, step, stored, sessions>>

(* An episode is recorded, kept and staged, or discarded. *)
RecordEpisode ==
  /\ session = "collecting"
  /\ next_episode_index < MaxEpisodes /\ Len(takes) < MaxTakes
  /\ next_episode_index' = next_episode_index + 1
  /\ takes' = Append(takes, [episode |-> next_episode_index, config |-> config])
  /\ queue' = Append(queue, Len(takes'))
  /\ UNCHANGED <<disk, session, config, step, stored, sessions>>

DiscardEpisode ==
  /\ session = "collecting"
  /\ next_episode_index < MaxEpisodes
  /\ next_episode_index' = next_episode_index + 1
  /\ UNCHANGED <<disk, session, config, queue, step, takes, stored, sessions>>

(* The session ends: by a shutdown, by a store error (the worker returns and *)
(* the storage process with it), by a signal or a crash, at any point.       *)
EndSession ==
  /\ session = "collecting"
  /\ session' = "off"
  /\ queue' = <<>> /\ step' = 0
  /\ UNCHANGED <<disk, config, next_episode_index, takes, stored, sessions>>

-----------------------------------------------------------------------------
(* The storage worker. *)

Current == Head(queue)
Index == takes[Current].episode

(* A request is taken: staged info.json is read, nothing is written yet. *)
BeginStore ==
  /\ session = "collecting"
  /\ step = 0 /\ queue # <<>>
  /\ step' = 1
  /\ UNCHANGED <<disk, session, config, next_episode_index, queue, takes, stored, sessions>>

At(s) == session = "collecting" /\ step # 0 /\ StoreSteps[step] = s

Proceed ==
  /\ step' = step + 1
  /\ UNCHANGED <<session, config, next_episode_index, queue, takes, stored, sessions>>

(* storage/local: the episode's old directory is removed. *)
ClearEpisodeDir ==
  /\ At("clear")
  /\ files' = [p \in Part |-> [files[p] EXCEPT ![Index] = 0]]
  /\ torn' = {f \in torn : f[2] # Index}
  /\ Proceed
  /\ UNCHANGED <<format, jsonl, info, total_episodes, embedded_config>>

(* merge_tree_if_present, move_or_copy_file: a rename, or a copy that can be *)
(* cut short.                                                                *)
MoveFile(p) ==
  /\ At(p)
  /\ files' = [files EXCEPT ![p][Index] = Current]
  /\ torn' = torn \ {<<p, Index>>}
  /\ Proceed
  /\ UNCHANGED <<format, jsonl, info, total_episodes, embedded_config>>

CopyPart(p) ==
  /\ At(p)
  /\ <<p, Index>> \notin torn
  /\ files' = [files EXCEPT ![p][Index] = Current]
  /\ torn' = torn \cup {<<p, Index>>}
  /\ UNCHANGED <<format, jsonl, info, total_episodes, embedded_config, process, takes, stored, sessions>>

(* Mutant: the staged file already holds the line once before it is appended. *)
AppendEpisodeLineTwice ==
  /\ At("episodes.jsonl")
  /\ jsonl' = jsonl \o <<Current, Current>>
  /\ Proceed
  /\ UNCHANGED <<format, files, torn, info, total_episodes, embedded_config>>

(* merge_meta_jsonl_if_present *)
AppendEpisodeLine ==
  /\ At("episodes.jsonl")
  /\ jsonl' = Append(jsonl, Current)
  /\ Proceed
  /\ UNCHANGED <<format, files, torn, info, total_episodes, embedded_config>>

(* update_root_info: fs::write truncates the file before it writes it. *)
TruncateInfo ==
  /\ At("info.json")
  /\ info # "torn"
  /\ total_episodes' = total_episodes + 1
  /\ embedded_config' = IF info = "absent" THEN takes[Current].config ELSE embedded_config
  /\ info' = "torn"
  /\ UNCHANGED <<format, files, torn, jsonl, process, takes, stored, sessions>>

WriteInfo ==
  /\ At("info.json")
  /\ info = "torn"
  /\ info' = "valid"
  /\ Proceed
  /\ UNCHANGED <<format, files, torn, jsonl, total_episodes, embedded_config>>

(* The staging directory is removed and the episode reported stored. *)
FinishStore ==
  /\ At("remove_staging")
  /\ stored' = stored \cup {Current}
  /\ queue' = Tail(queue)
  /\ step' = 0
  /\ UNCHANGED <<disk, session, config, next_episode_index, takes, sessions>>

-----------------------------------------------------------------------------
Next ==
  \/ \E c \in Config : StartSession(c)
  \/ RecordEpisode \/ DiscardEpisode \/ EndSession
  \/ BeginStore \/ ClearEpisodeDir
  \/ \E p \in Part : MoveFile(p) \/ CopyPart(p)
  \/ AppendEpisodeLine \/ TruncateInfo \/ WriteInfo \/ FinishStore

Spec == Init /\ [][Next]_vars

-----------------------------------------------------------------------------
TypeOK ==
  /\ format \in Format
  /\ files \in [Part -> [Episode -> 0 .. MaxTakes]]
  /\ torn \subseteq Part \X Episode
  /\ jsonl \in Seq(Take)
  /\ info \in {"absent", "torn", "valid"} /\ total_episodes \in Nat
  /\ embedded_config \in Config /\ config \in Config
  /\ session \in {"off", "collecting"}
  /\ next_episode_index \in 0 .. MaxEpisodes
  /\ queue \in Seq(Take)
  /\ step \in 0 .. Len(StoreSteps)
  /\ takes \in Seq([episode : Episode, config : Config]) /\ Len(takes) <= MaxTakes
  /\ stored \subseteq Take
  /\ sessions \in 0 .. MaxSessions

KeepsFiles ==
  \A p \in Part, e \in Episode : files[p][e] # 0 => files'[p][e] = files[p][e]

(* No file of a LeRobot dataset is ever replaced by, or removed for, another *)
(* take, whatever sessions came before and wherever the storage process      *)
(* died: the reason why dataset_resume.rs refuses or continues a dataset.    *)
LeRobotNotOverwritten == [][format = "lerobot" => KeepsFiles]_vars

(* A line of episodes.jsonl stands for an episode all of whose files are     *)
(* there, whole and its own: store_episode_local writes the line last.       *)
ListedIsComplete ==
  \A i \in DOMAIN jsonl, p \in Part :
    LET e == takes[jsonl[i]].episode IN files[p][e] = jsonl[i] /\ <<p, e>> \notin torn

(* No episode index has two lines in episodes.jsonl, over any number of      *)
(* sessions, discarded episodes and crashes.                                 *)
ListedOnce ==
  \A i, j \in DOMAIN jsonl : takes[jsonl[i]].episode = takes[jsonl[j]].episode => i = j

(* The count in a readable info.json lies between the episodes reported      *)
(* stored and the lines of episodes.jsonl; a crash between the two writes    *)
(* makes it fall behind for good, never run ahead.                           *)
CountsBracketed ==
  info = "valid" => Cardinality(stored) <= total_episodes /\ total_episodes <= Len(jsonl)

(* A LeRobot dataset holds the episodes of one project configuration, and a  *)
(* readable info.json names it: what probe_resume checks is enough.          *)
OneConfig ==
  format = "lerobot" =>
  LET takesOnDisk == {files[p][e] : p \in Part, e \in Episode} \ {0}
      onDisk == {takes[t].config : t \in takesOnDisk}
  IN  /\ Cardinality(onDisk) <= 1
      /\ info = "valid" => onDisk \subseteq {embedded_config}

(* The dataset on disk, together: takes are recorded and indexed within      *)
(* bounds, each line is complete and alone, info.json fits the lines, and    *)
(* all of it is of one configuration.                                        *)
DatasetSound == TypeOK /\ ListedIsComplete /\ ListedOnce /\ CountsBracketed /\ OneConfig

(* An episode reported stored has whole files of its own, until an episode   *)
(* recorded later under the same index takes their place (mcap sessions      *)
(* count from zero again).                                                   *)
StoredIsWhole ==
  \A t \in stored, p \in Part :
    LET e == takes[t].episode
    IN  \/ files[p][e] = t /\ <<p, e>> \notin torn
        \/ \E u \in t + 1 .. Len(takes) : takes[u].episode = e
============================================================================
