--------------------------- MODULE DatasetProofs ---------------------------
(***************************************************************************)
(* Proofs about the dataset on disk: for any number of sessions, takes and *)
(* configurations, and wherever the storage process dies, a LeRobot        *)
(* dataset is never overwritten, its lines are complete and of one         *)
(* configuration, and what was reported stored is whole.                   *)
(***************************************************************************)
EXTENDS Dataset, SequenceTheorems, FiniteSetTheorems, WellFoundedInduction, TLAPS

Recorded == 1 .. Len(takes)

(* TypeOK, with every reference to a take one to a take that was recorded,  *)
(* and a worker that has something to work on.                              *)
Typed ==
  /\ TypeOK
  /\ files \in [Part -> [Episode -> 0 .. Len(takes)]]
  /\ jsonl \in Seq(Recorded) /\ queue \in Seq(Recorded) /\ stored \subseteq Recorded
  /\ session = "off" => queue = <<>> /\ step = 0
  /\ step # 0 => queue # <<>>

(* The requests of a session are in order, of its configuration, and newer  *)
(* than anything stored.                                                    *)
Queued ==
  /\ \A i \in DOMAIN queue : /\ takes[queue[i]].config = config
                             /\ takes[queue[i]].episode < next_episode_index
  /\ \A i, j \in DOMAIN queue :
       i < j => /\ queue[i] < queue[j]
                /\ takes[queue[i]].episode < takes[queue[j]].episode
  /\ \A t \in stored, i \in DOMAIN queue : t < queue[i]

(* The step of the worker that moves a file. *)
StepOf(p) ==
  CASE p = "data" -> 1 [] p = "videos" -> 2 [] p = "raw" -> 3 [] p = "episode.mcap" -> 2

(* How far the files of the episode at work are. *)
Progress ==
  step # 0 =>
    \A p \in Part :
      /\ StepOf(p) < step => files[p][Index] = Current /\ <<p, Index>> \notin torn
      /\ StepOf(p) = step =>
           files[p][Index] = 0 \/ (files[p][Index] = Current /\ <<p, Index>> \in torn)
      /\ (format = "lerobot" /\ StepOf(p) > step) => files[p][Index] = 0

(* storage/local keeps no meta files. *)
McapHasNoMeta == format = "mcap" => jsonl = <<>> /\ info = "absent"

OnList(t) == \E i \in DOMAIN jsonl : jsonl[i] = t

(* LeRobot: no file where an episode is still to come, the parquet file is  *)
(* the first of an episode's files, ...                                     *)
Untouched ==
  /\ \A p \in Part, e \in Episode : files[p][e] # 0 => files["data"][e] # 0
  /\ session = "collecting" =>
       \A e \in Episode : e >= next_episode_index => files["data"][e] = 0
  /\ \A i \in DOMAIN queue, p \in Part :
       (i # 1 \/ step = 0) => files[p][takes[queue[i]].episode] = 0

(* ... everything is of the last session's configuration, ... *)
Configured ==
  /\ \A p \in Part, e \in Episode : files[p][e] # 0 => takes[files[p][e]].config = config
  /\ info # "absent" => embedded_config = config /\ jsonl # <<>>
  /\ (info = "torn" /\ session = "collecting") => step = 5

(* ... and an episode is listed, counted and reported in this order. *)
Accounted ==
  /\ \A i \in DOMAIN queue : OnList(queue[i]) => i = 1 /\ step >= 5
  /\ \A t \in stored : OnList(t)
  /\ step >= 5 => OnList(Current)
  /\ total_episodes <= Len(jsonl) /\ Cardinality(stored) <= total_episodes
  /\ (step = 5 /\ info # "torn") => total_episodes + 1 <= Len(jsonl)
  /\ ((step = 5 /\ info = "torn") \/ step = 6) => Cardinality(stored) + 1 <= total_episodes

LeRobot == Untouched /\ Configured /\ Accounted

Inductive ==
  /\ Typed /\ Queued /\ Progress /\ McapHasNoMeta
  /\ format = "lerobot" => LeRobot
  /\ ListedIsComplete /\ ListedOnce /\ StoredIsWhole

-----------------------------------------------------------------------------
(* The worker. *)

(* Where in the format's list of steps the worker is. *)
LEMMA StepPlaces ==
  ASSUME Typed
  PROVE  /\ At("clear") => format = "mcap" /\ step = 1
         /\ \A p \in Part : At(p) => step = StepOf(p)
         /\ At("episodes.jsonl") => format = "lerobot" /\ step = 4
         /\ At("info.json") => format = "lerobot" /\ step = 5
         /\ At("remove_staging") =>
              (format = "lerobot" /\ step = 6) \/ (format = "mcap" /\ step = 3)
         /\ format = "lerobot" => step \in 0 .. 6 /\ Part = {"data", "videos", "raw"}
         /\ format = "mcap" => step \in 0 .. 3 /\ Part = {"episode.mcap"}
         /\ format \in {"lerobot", "mcap"}
         /\ \A s : At(s) => step \in 1 .. Len(StoreSteps)
<1>1. format \in {"lerobot", "mcap"} /\ step \in 0 .. Len(StoreSteps)
  BY FormatAssumption DEF Typed, TypeOK
<1>2. CASE format = "lerobot"
  <2>1. StoreSteps = <<"data", "videos", "raw", "episodes.jsonl", "info.json", "remove_staging">>
    BY <1>2 DEF StoreSteps
  <2> QED
    BY <1>1, <1>2, <2>1 DEF At, StepOf, Part
<1>3. CASE format = "mcap"
  <2>1. StoreSteps = <<"clear", "episode.mcap", "remove_staging">>
    BY <1>3 DEF StoreSteps
  <2> QED
    BY <1>1, <1>3, <2>1 DEF At, StepOf, Part
<1> QED
  BY <1>1, <1>2, <1>3

(* A take has an episode index and a configuration. *)
LEMMA TakeTyped ==
  ASSUME Typed, NEW t \in Recorded
  PROVE  takes[t].episode \in Episode /\ takes[t].config \in Config
<1> DEFINE R == [episode : Episode, config : Config]
<1>1. takes \in Seq(R)
  BY DEF Typed, TypeOK
<1> HIDE DEF R
<1>2. takes[t] \in R
  BY <1>1, ElementOfSeq DEF Recorded
<1> QED
  BY <1>2 DEF R

(* A worker that is at some step works on the first request. *)
LEMMA AtWork ==
  ASSUME Typed, step # 0
  PROVE  /\ queue # <<>> /\ 1 \in DOMAIN queue /\ Current = queue[1]
         /\ Current \in Recorded /\ Index \in Episode /\ Current \in Nat \ {0}
<1>1. queue \in Seq(Recorded) /\ queue # <<>>
  BY DEF Typed
<1>2. Current \in Recorded /\ 1 \in DOMAIN queue /\ Current = queue[1]
  BY <1>1 DEF Current
<1>3. Index \in Episode
  BY <1>2, TakeTyped DEF Index
<1> QED
  BY <1>1, <1>2, <1>3 DEF Recorded

(* One file is written. *)
LEMMA FileWritten ==
  ASSUME Typed, NEW p \in Part, At(p), files' = [files EXCEPT ![p][Index] = Current],
         UNCHANGED <<format, takes>>
  PROVE  /\ files' \in [Part -> [Episode -> 0 .. Len(takes)]]
         /\ \A q \in Part, e \in Episode :
              files'[q][e] = IF q = p /\ e = Index THEN Current ELSE files[q][e]
<1>1. Current \in 0 .. Len(takes) /\ Index \in Episode
  <2>1. Current \in Recorded /\ Index \in Episode
    BY AtWork DEF At
  <2> QED
    BY <2>1 DEF Recorded
<1>2. files \in [Part -> [Episode -> 0 .. Len(takes)]]
  BY DEF Typed
<1> DEFINE f == [files[p] EXCEPT ![Index] = Current]
<1>3. f \in [Episode -> 0 .. Len(takes)]
  BY <1>1, <1>2
<1>4. \A e \in Episode : f[e] = IF e = Index THEN Current ELSE files[p][e]
  BY <1>1, <1>2
<1>5. files' = [files EXCEPT ![p] = f]
  OBVIOUS
<1> HIDE DEF f
<1> QED
  BY <1>2, <1>3, <1>4, <1>5

(* The directory of an mcap episode is cleared. *)
LEMMA DirCleared ==
  ASSUME Typed, ClearEpisodeDir
  PROVE  /\ files' \in [Part -> [Episode -> 0 .. Len(takes)]]
         /\ \A q \in Part, e \in Episode : files'[q][e] = IF e = Index THEN 0 ELSE files[q][e]
<1>1. Index \in Episode
  BY AtWork DEF ClearEpisodeDir, At
<1>2. files \in [Part -> [Episode -> 0 .. Len(takes)]] /\ 0 \in 0 .. Len(takes)
  BY DEF Typed, TypeOK
<1>3. files' = [q \in Part |-> [files[q] EXCEPT ![Index] = 0]]
  BY DEF ClearEpisodeDir
<1> QED
  BY <1>1, <1>2, <1>3

(* Steps that write to the disk leave the rest of the state alone. *)
LEMMA WorkerFrame ==
  ASSUME NEW p \in Part,
         \/ ClearEpisodeDir \/ MoveFile(p) \/ CopyPart(p)
         \/ AppendEpisodeLine \/ TruncateInfo \/ WriteInfo
  PROVE  UNCHANGED <<format, session, config, next_episode_index, queue, takes, stored, sessions>>
BY DEF ClearEpisodeDir, MoveFile, CopyPart, AppendEpisodeLine, TruncateInfo, WriteInfo, Proceed,
       process

-----------------------------------------------------------------------------
(* Types. *)

(* A set of episode indices has a largest one. *)
LEMMA HasLargest ==
  ASSUME NEW S, S \subseteq Episode, S # {}
  PROVE  \E m \in S : \A e \in S : e <= m
<1> DEFINE R == OpToRel(<, Nat)
           T == {MaxEpisodes - 1 - e : e \in S}
<1>1. IsWellFoundedOn(R, Nat)
  BY NatLessThanWellFounded
<1>2. \A a, b \in Nat : a < b => <<a, b>> \in R
  BY DEF OpToRel
<1> HIDE DEF R
<1>3. T \subseteq Nat /\ T # {}
  <2>1. \A e \in S : MaxEpisodes - 1 - e \in Nat
    BY MaxAssumption DEF Episode
  <2> QED
    BY <2>1
<1>4. PICK x \in T : \A y \in T : ~(<<y, x>> \in R)
  <2> HIDE DEF T
  <2> QED
    BY <1>1, <1>3, WFMin
<1>5. PICK m \in S : x = MaxEpisodes - 1 - m
  OBVIOUS
<1>6. ASSUME NEW e \in S PROVE e <= m
  <2>1. MaxEpisodes - 1 - e \in T
    OBVIOUS
  <2>2. ~(MaxEpisodes - 1 - e < x)
    BY <1>2, <1>3, <1>4, <2>1
  <2> QED
    BY <1>5, <2>2, MaxAssumption DEF Episode
<1> QED
  BY <1>6

(* Where the next session starts counting. *)
LEMMA NextIndexTyped ==
  ASSUME Typed
  PROVE  /\ Seen \subseteq Episode
         /\ NextIndex \in 0 .. MaxEpisodes
         /\ \A e \in Seen : e < NextIndex
<1>1. Seen \subseteq Episode
  <2>1. ASSUME NEW i \in DOMAIN jsonl PROVE takes[jsonl[i]].episode \in Episode
    <3>1. jsonl[i] \in Recorded
      BY DEF Typed
    <3> QED
      BY <3>1, TakeTyped
  <2>2. Listed \subseteq Episode
    BY <2>1 DEF Listed
  <2> QED
    BY <2>2 DEF Seen, InData
<1>2. CASE Seen = {}
  BY <1>1, <1>2, MaxAssumption DEF NextIndex
<1>3. CASE Seen # {}
  <2>2. \E m \in Seen : \A e \in Seen : e <= m
    BY <1>1, <1>3, HasLargest
  <2> DEFINE m == CHOOSE m \in Seen : \A e \in Seen : e <= m
  <2>3. m \in Seen /\ \A e \in Seen : e <= m
    BY <2>2
  <2> HIDE DEF m
  <2>4. m \in Episode /\ NextIndex = m + 1
    BY <1>1, <1>3, <2>3 DEF NextIndex, m
  <2> QED
    BY <1>1, <2>3, <2>4, MaxAssumption DEF Episode
<1> QED
  BY <1>2, <1>3

(* What recording a take does to the takes: those there are stay. *)
LEMMA TakeRecorded ==
  ASSUME Typed, RecordEpisode
  PROVE  /\ Len(takes') = Len(takes) + 1 /\ Len(takes) \in Nat
         /\ \A t \in Recorded : takes'[t] = takes[t]
         /\ takes'[Len(takes')] = [episode |-> next_episode_index, config |-> config]
         /\ takes' \in Seq([episode : Episode, config : Config])
         /\ Recorded \subseteq Recorded' /\ Len(takes') \in Recorded'
         /\ Len(takes') <= MaxTakes /\ next_episode_index \in Episode
         /\ next_episode_index' = next_episode_index + 1
<1> DEFINE R == [episode : Episode, config : Config]
           r == [episode |-> next_episode_index, config |-> config]
<1>1. next_episode_index \in Episode /\ config \in Config
  BY MaxAssumption DEF RecordEpisode, Typed, TypeOK, Episode
<1>2. r \in R /\ takes \in Seq(R) /\ takes' = Append(takes, r)
  BY <1>1 DEF RecordEpisode, Typed, TypeOK
<1>3. Len(takes) < MaxTakes
  BY DEF RecordEpisode
<1>4. next_episode_index' = next_episode_index + 1
  BY DEF RecordEpisode
<1> HIDE DEF R, r
<1>5. /\ Append(takes, r) \in Seq(R) /\ Len(Append(takes, r)) = Len(takes) + 1
      /\ \A t \in 1 .. Len(takes) : Append(takes, r)[t] = takes[t]
      /\ Append(takes, r)[Len(takes) + 1] = r /\ Len(takes) \in Nat
  BY <1>2, AppendProperties, LenProperties
<1>6. /\ Len(takes') = Len(takes) + 1 /\ Len(takes) \in Nat
      /\ \A t \in Recorded : takes'[t] = takes[t]
      /\ takes' \in Seq(R) /\ takes'[Len(takes')] = r
  BY <1>2, <1>5 DEF Recorded
<1>7. Recorded \subseteq Recorded' /\ Len(takes') \in Recorded' /\ Len(takes') <= MaxTakes
  BY <1>3, <1>6, MaxAssumption DEF Recorded
<1>8. takes'[Len(takes')] = [episode |-> next_episode_index, config |-> config]
  BY <1>6 DEF r
<1>9. takes' \in Seq([episode : Episode, config : Config])
  BY <1>6 DEF R
<1> QED
  BY <1>1, <1>4, <1>6, <1>7, <1>8, <1>9

(* The index set of the trees does not change. *)
LEMMA PartStays ==
  ASSUME [Next]_vars
  PROVE  UNCHANGED <<format, Part>>
BY DEF Next, vars, disk, StartSession, RecordEpisode, DiscardEpisode, EndSession, BeginStore,
       ClearEpisodeDir, MoveFile, CopyPart, AppendEpisodeLine, TruncateInfo, WriteInfo,
       FinishStore, Part

(* Each step keeps the types. *)
LEMMA TypedStep == Typed /\ [Next]_vars => Typed'
<1> SUFFICES ASSUME Typed, [Next]_vars PROVE Typed'
  OBVIOUS
<1>0. /\ format \in Format /\ TypeOK /\ UNCHANGED <<format, Part>>
      /\ StoreSteps' = StoreSteps /\ Len(StoreSteps) \in Nat
  BY PartStays DEF Typed, TypeOK, StoreSteps
<1>1. CASE UNCHANGED vars
  BY <1>0, <1>1 DEF Typed, TypeOK, vars, disk, process, Recorded
<1>2. CASE \E c \in Config : StartSession(c)
  <2>1. PICK c \in Config : StartSession(c)
    BY <1>2
  <2>2. next_episode_index' \in 0 .. MaxEpisodes /\ config' \in Config /\ session' = "collecting"
    BY <2>1, NextIndexTyped DEF StartSession
  <2>3. sessions' \in 0 .. MaxSessions
    BY <1>0, <2>1, MaxAssumption DEF StartSession, TypeOK
  <2>4. UNCHANGED <<disk, queue, step, takes, stored>>
    BY <2>1 DEF StartSession
  <2> QED
    BY <1>0, <2>2, <2>3, <2>4 DEF Typed, TypeOK, disk, Recorded
<1>3. CASE RecordEpisode
  <2>1. /\ Len(takes') = Len(takes) + 1 /\ Len(takes) \in Nat
        /\ takes' \in Seq([episode : Episode, config : Config])
        /\ Recorded \subseteq Recorded' /\ Len(takes') \in Recorded'
        /\ Len(takes') <= MaxTakes
    BY <1>3, TakeRecorded
  <2>2. UNCHANGED <<disk, session, config, step, stored, sessions>>
    BY <1>3 DEF RecordEpisode
  <2>3. files' \in [Part' -> [Episode -> 0 .. Len(takes')]]
    <3>1. files \in [Part -> [Episode -> 0 .. Len(takes)]]
      BY DEF Typed
    <3>2. \A n \in 0 .. Len(takes) : n \in 0 .. Len(takes')
      BY <2>1
    <3> QED
      BY <1>0, <2>2, <3>1, <3>2 DEF disk
  <2>4. jsonl' \in Seq(Recorded') /\ jsonl' \in Seq(Take)
    BY <2>1, <2>2, SeqMonotonic DEF Typed, TypeOK, disk
  <2>5. queue' \in Seq(Recorded') /\ queue' # <<>>
    <3>1. queue \in Seq(Recorded')
      BY <2>1, SeqMonotonic DEF Typed
    <3>2. queue' = Append(queue, Len(takes'))
      BY <1>3 DEF RecordEpisode
    <3> QED
      BY <2>1, <3>1, <3>2, AppendProperties
  <2>6. queue' \in Seq(Take)
    <3>1. Recorded' \subseteq Take
      BY <2>1, MaxAssumption DEF Recorded, Take
    <3> QED
      BY <2>5, <3>1, SeqMonotonic
  <2>7. stored' \subseteq Recorded' /\ stored' \subseteq Take
    BY <2>1, <2>2 DEF Typed, TypeOK
  <2>8. next_episode_index' \in 0 .. MaxEpisodes
    BY <1>0, <1>3, MaxAssumption DEF RecordEpisode, TypeOK
  <2>9. session' # "off" /\ session' \in {"off", "collecting"}
    BY <1>3 DEF RecordEpisode
  <2>10. /\ files' \in [Part' -> [Episode -> 0 .. MaxTakes]]
         /\ torn' \subseteq Part' \X Episode
    BY <1>0, <2>2 DEF TypeOK, disk
  <2>11. /\ info' \in {"absent", "torn", "valid"} /\ total_episodes' \in Nat
         /\ embedded_config' \in Config /\ config' \in Config
         /\ step' \in 0 .. Len(StoreSteps') /\ sessions' \in 0 .. MaxSessions
         /\ format' \in Format
    BY <1>0, <2>2 DEF TypeOK, disk
  <2> QED
    BY <2>1, <2>3, <2>4, <2>5, <2>6, <2>7, <2>8, <2>9, <2>10, <2>11 DEF Typed, TypeOK
<1>4. CASE DiscardEpisode
  BY <1>0, <1>4, MaxAssumption DEF DiscardEpisode, Typed, TypeOK, disk, Recorded
<1>5. CASE EndSession
  BY <1>0, <1>5, EmptySeq DEF EndSession, Typed, TypeOK, disk, Recorded
<1>6. CASE BeginStore
  <2>1. 1 \in 0 .. Len(StoreSteps)
    BY DEF StoreSteps
  <2> QED
    BY <1>0, <1>6, <2>1 DEF BeginStore, Typed, TypeOK, disk, Recorded
<1>7. ASSUME NEW s, At(s), s # "remove_staging", step' \in {step, step + 1},
             UNCHANGED <<session, config, next_episode_index, queue, takes, stored, sessions>>,
             files' \in [Part -> [Episode -> 0 .. Len(takes)]],
             torn' \subseteq Part \X Episode,
             jsonl' \in Seq(Recorded),
             info' \in {"absent", "torn", "valid"}, total_episodes' \in Nat,
             embedded_config' \in Config
      PROVE  Typed'
  <2>1. Len(takes) \in Nat /\ Len(takes) <= MaxTakes /\ takes \in Seq([episode : Episode, config : Config])
    BY LenProperties DEF Typed, TypeOK
  <2>2. \A n \in 0 .. Len(takes) : n \in 0 .. MaxTakes
    BY <2>1, MaxAssumption
  <2>3. Recorded \subseteq Take
    BY <2>1, MaxAssumption DEF Recorded, Take
  <2>4. files' \in [Part' -> [Episode -> 0 .. MaxTakes]]
    BY <1>0, <1>7, <2>2
  <2>5. jsonl' \in Seq(Take)
    BY <1>7, <2>3, SeqMonotonic
  <2>6. step' \in 0 .. Len(StoreSteps)
    <3>1. step \in 1 .. Len(StoreSteps) /\ step # Len(StoreSteps)
      BY <1>7, StepPlaces DEF At, StoreSteps
    <3> QED
      BY <1>0, <1>7, <3>1
  <2>7. queue # <<>> /\ session # "off"
    BY <1>7, AtWork DEF At
  <2> QED
    BY <1>0, <1>7, <2>4, <2>5, <2>6, <2>7 DEF Typed, TypeOK, Recorded
<1>8. CASE ClearEpisodeDir
  BY <1>0, <1>7, <1>8, DirCleared DEF ClearEpisodeDir, Proceed, Typed, TypeOK
<1>9. ASSUME NEW p \in Part, MoveFile(p) \/ CopyPart(p)
      PROVE  Typed'
  <2>1. files' \in [Part -> [Episode -> 0 .. Len(takes)]]
    BY <1>0, <1>9, FileWritten, WorkerFrame DEF MoveFile, CopyPart
  <2>2. torn' \subseteq Part \X Episode
    BY <1>0, <1>9, AtWork DEF MoveFile, CopyPart, At, TypeOK
  <2>3. At(p) /\ p # "remove_staging" /\ step' \in {step, step + 1}
    BY <1>9 DEF MoveFile, CopyPart, Proceed, process, Part
  <2>4. jsonl' \in Seq(Recorded) /\ UNCHANGED <<info, total_episodes, embedded_config>>
    BY <1>9 DEF MoveFile, CopyPart, Typed
  <2> QED
    BY <1>0, <1>7, <1>9, <2>1, <2>2, <2>3, <2>4, WorkerFrame DEF TypeOK
<1>10. CASE AppendEpisodeLine
  <2>1. jsonl' \in Seq(Recorded)
    BY <1>10, AtWork, AppendProperties DEF AppendEpisodeLine, At, Typed
  <2> QED
    BY <1>0, <1>7, <1>10, <2>1 DEF AppendEpisodeLine, Proceed, TypeOK, Typed
<1>11. CASE TruncateInfo \/ WriteInfo
  <2>1. Current \in Recorded
    BY <1>11, AtWork DEF TruncateInfo, WriteInfo, At
  <2>2. embedded_config' \in Config /\ total_episodes' \in Nat
    BY <1>0, <1>11, <2>1, TakeTyped DEF TruncateInfo, WriteInfo, TypeOK
  <2> QED
    BY <1>0, <1>7, <1>11, <2>2 DEF TruncateInfo, WriteInfo, Proceed, TypeOK, Typed, process
<1>12. CASE FinishStore
  <2>1. Current \in Recorded /\ queue \in Seq(Recorded) /\ queue # <<>>
    BY <1>12, AtWork DEF FinishStore, At, Typed
  <2>2. queue' \in Seq(Recorded)
    BY <1>12, <2>1, HeadTailProperties DEF FinishStore
  <2>3. Recorded \subseteq Take
    BY LenProperties, MaxAssumption DEF Recorded, Take, Typed, TypeOK
  <2>4. queue' \in Seq(Take) /\ stored' \subseteq Recorded /\ stored' \subseteq Take
    BY <1>12, <2>1, <2>2, <2>3, SeqMonotonic DEF FinishStore, Typed
  <2>5. session' # "off" /\ step' = 0 /\ UNCHANGED <<disk, session, config, next_episode_index, takes, sessions>>
    BY <1>12 DEF FinishStore, At
  <2> QED
    BY <1>0, <2>2, <2>4, <2>5 DEF Typed, TypeOK, disk, Recorded
<1> QED
  BY <1>1, <1>2, <1>3, <1>4, <1>5, <1>6, <1>8, <1>9, <1>10, <1>11, <1>12 DEF Next

-----------------------------------------------------------------------------
(* The queue. *)

(* A take that was recorded is never changed. *)
LEMMA TakesStay ==
  ASSUME Typed, [Next]_vars
  PROVE  Recorded \subseteq Recorded' /\ \A t \in Recorded : takes'[t] = takes[t]
<1>1. CASE RecordEpisode
  BY <1>1, TakeRecorded
<1>2. CASE ~RecordEpisode
  <2>1. UNCHANGED takes
    BY <1>2 DEF Next, vars, StartSession, DiscardEpisode, EndSession, BeginStore, ClearEpisodeDir,
         MoveFile, CopyPart, AppendEpisodeLine, TruncateInfo, WriteInfo, FinishStore, Proceed
  <2> QED
    BY <2>1 DEF Recorded
<1> QED
  BY <1>1, <1>2

(* What a step does to the queue: nothing, unless a take is recorded, the   *)
(* first request is done or the session ends.                               *)
LEMMA QueueFrame ==
  ASSUME Typed, [Next]_vars
  PROVE  \/ RecordEpisode
         \/ EndSession
         \/ FinishStore
         \/ UNCHANGED <<queue, takes, stored>>
            /\ (\/ UNCHANGED <<config, session, next_episode_index>>
                \/ DiscardEpisode
                \/ queue = <<>> /\ step = 0 /\ \E c \in Config : StartSession(c))
BY DEF Next, vars, process, StartSession, DiscardEpisode, BeginStore, ClearEpisodeDir, MoveFile,
       CopyPart, AppendEpisodeLine, TruncateInfo, WriteInfo, Proceed, Typed

(* The request at work stays the one at work until it is done. *)
LEMMA CurrentStays ==
  ASSUME Typed, [Next]_vars, step # 0, step' # 0
  PROVE  Current' = Current /\ Index' = Index
<1>1. queue \in Seq(Recorded) /\ queue # <<>> /\ Current \in Recorded /\ Current = queue[1]
  BY AtWork DEF Typed
<1>2. CASE RecordEpisode
  <2>1. queue' = Append(queue, Len(takes'))
    BY <1>2 DEF RecordEpisode
  <2>2. queue'[1] = queue[1] /\ Current' = queue'[1]
    BY <1>1, <2>1 DEF Current
  <2>3. takes'[Current] = takes[Current]
    BY <1>1, <1>2, TakeRecorded
  <2> QED
    BY <1>1, <2>2, <2>3 DEF Index
<1>3. CASE UNCHANGED <<queue, takes>>
  BY <1>3 DEF Current, Index
<1> QED
  BY <1>2, <1>3, QueueFrame DEF EndSession, FinishStore

(* What the queue is after a take is recorded, and after a request is done. *)
LEMMA QueueGrows ==
  ASSUME Typed, RecordEpisode
  PROVE  /\ DOMAIN queue' = DOMAIN queue \cup {Len(queue) + 1} /\ Len(queue) \in Nat
         /\ \A i \in DOMAIN queue : queue'[i] = queue[i] /\ queue[i] \in Recorded /\ i < Len(queue) + 1
         /\ queue'[Len(queue) + 1] = Len(takes')
<1>1. queue \in Seq(Recorded) /\ queue' = Append(queue, Len(takes'))
  BY DEF RecordEpisode, Typed
<1> HIDE DEF Recorded
<1> QED
  BY <1>1

(* A finished request leaves the queue; the others move up. *)
LEMMA QueueShrinks ==
  ASSUME Typed, FinishStore
  PROVE  /\ \A i \in DOMAIN queue' : queue'[i] = queue[i + 1] /\ i + 1 \in DOMAIN queue
                                     /\ queue[i + 1] \in Recorded /\ i \in Nat \ {0}
         /\ 1 \in DOMAIN queue /\ Current = queue[1] /\ stored' = stored \cup {queue[1]}
<1>1. queue \in Seq(Recorded) /\ queue # <<>> /\ queue' = Tail(queue)
  BY AtWork DEF FinishStore, At, Typed
<1>2. stored' = stored \cup {Current} /\ Current = queue[1]
  BY <1>1 DEF FinishStore, Current
<1> HIDE DEF Recorded
<1> QED
  BY <1>1, <1>2

(* Requests stay in order, of one configuration and newer than the stored. *)
LEMMA QueuedStep == Typed /\ Queued /\ [Next]_vars => Queued'
<1> SUFFICES ASSUME Typed, Queued, [Next]_vars PROVE Queued'
  OBVIOUS
<1>0. /\ next_episode_index \in Nat /\ stored \subseteq Recorded /\ queue \in Seq(Recorded)
      /\ Recorded \subseteq Nat
  BY DEF Typed, TypeOK, Recorded
<1>1. CASE RecordEpisode
  <2>1. UNCHANGED <<config, stored>> /\ next_episode_index' = next_episode_index + 1
    BY <1>1 DEF RecordEpisode
  <2>2. /\ \A t \in Recorded : takes'[t] = takes[t] /\ t < Len(takes')
        /\ takes'[Len(takes')].config = config
        /\ takes'[Len(takes')].episode = next_episode_index
    BY <1>1, TakeRecorded DEF Recorded
  <2>3. \A i \in DOMAIN queue :
          takes[queue[i]].episode \in Nat /\ takes[queue[i]].episode < next_episode_index
    <3>1. ASSUME NEW i \in DOMAIN queue PROVE takes[queue[i]].episode \in Nat
      <4>1. queue[i] \in Recorded
        BY <1>0
      <4> QED
        BY <4>1, TakeTyped DEF Episode
    <3> QED
      BY <3>1 DEF Queued
  <2>4. \A i \in DOMAIN queue' : /\ takes'[queue'[i]].config = config'
                                 /\ takes'[queue'[i]].episode < next_episode_index'
    <3> SUFFICES ASSUME NEW i \in DOMAIN queue'
                 PROVE  /\ takes'[queue'[i]].config = config'
                        /\ takes'[queue'[i]].episode < next_episode_index'
      OBVIOUS
    <3>1. CASE i \in DOMAIN queue
      <4>1. takes'[queue'[i]] = takes[queue[i]]
        BY <1>1, <2>2, <3>1, QueueGrows
      <4> QED
        BY <1>0, <2>1, <2>3, <3>1, <4>1 DEF Queued
    <3>2. CASE i = Len(queue) + 1
      <4>1. queue'[i] = Len(takes')
        BY <1>1, <3>2, QueueGrows
      <4> QED
        BY <1>0, <2>1, <2>2, <4>1
    <3> QED
      BY <1>1, <3>1, <3>2, QueueGrows
  <2>5. ASSUME NEW i \in DOMAIN queue', NEW j \in DOMAIN queue', i < j
        PROVE  queue'[i] < queue'[j] /\ takes'[queue'[i]].episode < takes'[queue'[j]].episode
    <3>1. i \in DOMAIN queue
      BY <1>0, <1>1, <2>5, QueueGrows
    <3>2. CASE j \in DOMAIN queue
      BY <1>1, <2>2, <2>5, <3>1, <3>2, QueueGrows DEF Queued
    <3>3. CASE j = Len(queue) + 1
      BY <1>1, <2>2, <2>3, <3>1, <3>3, QueueGrows
    <3> QED
      BY <1>1, <3>2, <3>3, QueueGrows
  <2>6. \A t \in stored', i \in DOMAIN queue' : t < queue'[i]
    BY <1>0, <1>1, <2>1, <2>2, QueueGrows DEF Queued
  <2> QED
    BY <2>4, <2>5, <2>6 DEF Queued
<1>2. CASE EndSession
  BY <1>2 DEF EndSession, Queued
<1>3. CASE FinishStore
  <2>1. UNCHANGED <<config, takes, next_episode_index>>
    BY <1>3 DEF FinishStore
  <2>2. \A i \in DOMAIN queue' : /\ takes'[queue'[i]].config = config'
                                 /\ takes'[queue'[i]].episode < next_episode_index'
    BY <1>3, <2>1, QueueShrinks DEF Queued
  <2>3. \A i, j \in DOMAIN queue' :
          i < j => /\ queue'[i] < queue'[j]
                   /\ takes'[queue'[i]].episode < takes'[queue'[j]].episode
    BY <1>3, <2>1, QueueShrinks DEF Queued
  <2>4. \A t \in stored', i \in DOMAIN queue' : t < queue'[i]
    <3> SUFFICES ASSUME NEW t \in stored', NEW i \in DOMAIN queue' PROVE t < queue'[i]
      OBVIOUS
    <3>1. /\ queue'[i] = queue[i + 1] /\ i + 1 \in DOMAIN queue /\ i \in Nat \ {0}
          /\ 1 \in DOMAIN queue /\ (t \in stored \/ t = queue[1])
      BY <1>3, QueueShrinks
    <3>2. 1 < i + 1
      BY <3>1
    <3> QED
      BY <3>1, <3>2 DEF Queued
  <2> QED
    BY <2>2, <2>3, <2>4 DEF Queued
<1>4. CASE UNCHANGED <<queue, takes, stored>> /\ UNCHANGED <<config, session, next_episode_index>>
  BY <1>4 DEF Queued
<1>5. CASE UNCHANGED <<queue, takes, stored>> /\ DiscardEpisode
  <2>1. UNCHANGED config /\ next_episode_index' = next_episode_index + 1
    BY <1>5 DEF DiscardEpisode
  <2>2. ASSUME NEW i \in DOMAIN queue
        PROVE  takes[queue[i]].episode < next_episode_index'
    <3>1. queue[i] \in Recorded
      BY <1>0
    <3>2. takes[queue[i]].episode \in Nat
      BY <3>1, TakeTyped DEF Episode
    <3> QED
      BY <1>0, <2>1, <3>2 DEF Queued
  <2> QED
    BY <1>5, <2>1, <2>2 DEF Queued
<1>6. CASE UNCHANGED <<queue, takes, stored>> /\ queue = <<>>
  BY <1>6 DEF Queued
<1> QED
  BY <1>1, <1>2, <1>3, <1>4, <1>5, <1>6, QueueFrame

-----------------------------------------------------------------------------
(* The files. *)

(* Which steps write which part of the disk. *)
LEMMA DiskFrame ==
  ASSUME [Next]_vars
  PROVE  /\ ClearEpisodeDir \/ (\E p \in Part : MoveFile(p) \/ CopyPart(p)) \/ UNCHANGED <<files, torn>>
         /\ AppendEpisodeLine \/ TruncateInfo \/ WriteInfo
              \/ UNCHANGED <<jsonl, info, total_episodes, embedded_config>>
BY DEF Next, vars, disk, StartSession, RecordEpisode, DiscardEpisode, EndSession, BeginStore,
       ClearEpisodeDir, MoveFile, CopyPart, AppendEpisodeLine, TruncateInfo, WriteInfo, FinishStore

(* Only the worker moves on, and it moves on by one step. *)
LEMMA StepFrame ==
  ASSUME Typed, [Next]_vars, step' # 0
  PROVE  \/ BeginStore
         \/ ClearEpisodeDir
         \/ \E p \in Part : MoveFile(p) \/ CopyPart(p)
         \/ AppendEpisodeLine \/ TruncateInfo \/ WriteInfo
         \/ UNCHANGED <<step, disk>>
BY DEF Next, vars, process, StartSession, RecordEpisode, DiscardEpisode, EndSession, FinishStore

(* What moving or beginning to copy a file does: one file changes, the one  *)
(* the worker is at.                                                        *)
LEMMA FileStep ==
  ASSUME Typed, NEW p \in Part, MoveFile(p) \/ CopyPart(p)
  PROVE  /\ step = StepOf(p) /\ step # 0 /\ session = "collecting"
         /\ \A q \in Part, e \in Episode :
              /\ files'[q][e] = IF q = p /\ e = Index THEN Current ELSE files[q][e]
              /\ ~(q = p /\ e = Index) => (<<q, e>> \in torn' <=> <<q, e>> \in torn)
         /\ MoveFile(p) => <<p, Index>> \notin torn' /\ step' = step + 1
         /\ CopyPart(p) => <<p, Index>> \in torn' /\ step' = step
<1>1. At(p) /\ UNCHANGED <<format, takes>>
  BY DEF MoveFile, CopyPart, Proceed
<1>2. step = StepOf(p) /\ step # 0 /\ session = "collecting"
  BY <1>1, StepPlaces DEF At
<1>3. \A q \in Part, e \in Episode :
        files'[q][e] = IF q = p /\ e = Index THEN Current ELSE files[q][e]
  <2>1. files' = [files EXCEPT ![p][Index] = Current]
    BY DEF MoveFile, CopyPart
  <2> QED
    BY <1>1, <2>1, FileWritten
<1>4. /\ \A q \in Part, e \in Episode :
          ~(q = p /\ e = Index) => (<<q, e>> \in torn' <=> <<q, e>> \in torn)
      /\ MoveFile(p) => <<p, Index>> \notin torn' /\ step' = step + 1
      /\ CopyPart(p) => <<p, Index>> \in torn' /\ step' = step
  BY DEF MoveFile, CopyPart, Proceed, process
<1> QED
  BY <1>2, <1>3, <1>4

(* The steps of two files differ. *)
LEMMA StepOfInjective ==
  ASSUME Typed
  PROVE  /\ \A p, q \in Part : StepOf(p) = StepOf(q) => p = q
         /\ \A p \in Part : StepOf(p) \in 1 .. 3
         /\ format = "mcap" => \A p \in Part : StepOf(p) = 2
         /\ format = "lerobot" => "data" \in Part /\ StepOf("data") = 1
<1>1. format \in {"lerobot", "mcap"}
  BY StepPlaces
<1>2. CASE format = "lerobot"
  <2>1. Part = {"data", "videos", "raw"}
    BY <1>2 DEF Part
  <2>2. StepOf("data") = 1 /\ StepOf("videos") = 2 /\ StepOf("raw") = 3
    BY DEF StepOf
  <2> HIDE DEF StepOf
  <2> QED
    BY <1>2, <2>1, <2>2
<1>3. CASE format = "mcap"
  <2>1. Part = {"episode.mcap"} /\ StepOf("episode.mcap") = 2
    BY <1>3 DEF Part, StepOf
  <2> HIDE DEF StepOf
  <2> QED
    BY <1>3, <2>1
<1> QED
  BY <1>1, <1>2, <1>3

(* The files of the episode at work follow the worker. *)
LEMMA ProgressStep ==
  ASSUME Typed, Queued, Progress, format = "lerobot" => Untouched, [Next]_vars
  PROVE  Progress'
<1> SUFFICES ASSUME step' # 0, NEW p \in Part
             PROVE  /\ StepOf(p) < step' => files'[p][Index'] = Current' /\ <<p, Index'>> \notin torn'
                    /\ StepOf(p) = step' =>
                         files'[p][Index'] = 0 \/ (files'[p][Index'] = Current' /\ <<p, Index'>> \in torn')
                    /\ (format' = "lerobot" /\ StepOf(p) > step') => files'[p][Index'] = 0
  BY PartStays DEF Progress
<1>1. format' = format /\ StepOf(p) \in 1 .. 3 /\ step \in Nat
  BY PartStays, StepOfInjective DEF Typed, TypeOK
<1>2. step # 0 => /\ Current' = Current /\ Index' = Index
                  /\ Index \in Episode /\ Current \in Nat \ {0}
  BY CurrentStays, AtWork
<1>3. step # 0 => /\ StepOf(p) < step => files[p][Index] = Current /\ <<p, Index>> \notin torn
                  /\ StepOf(p) = step =>
                       files[p][Index] = 0 \/ (files[p][Index] = Current /\ <<p, Index>> \in torn)
                  /\ (format = "lerobot" /\ StepOf(p) > step) => files[p][Index] = 0
  BY DEF Progress
<1>4. CASE BeginStore
  <2>1. step = 0 /\ step' = 1 /\ queue # <<>> /\ UNCHANGED <<files, queue, takes>>
    BY <1>4 DEF BeginStore, disk
  <2>2. CASE format = "mcap"
    BY <1>1, <2>1, <2>2, StepOfInjective
  <2>3. CASE format = "lerobot"
    <3>1. 1 \in DOMAIN queue /\ Index' = takes[queue[1]].episode
      BY <2>1 DEF Typed, Index, Current
    <3>2. files[p][takes[queue[1]].episode] = 0
      BY <2>1, <2>3, <3>1 DEF Untouched
    <3> QED
      BY <1>1, <2>1, <3>1, <3>2
  <2> QED
    BY <2>2, <2>3, StepPlaces
<1>5. CASE ClearEpisodeDir
  <2>1. format = "mcap" /\ step = 1 /\ step' = 2
    BY <1>5, StepPlaces DEF ClearEpisodeDir, Proceed
  <2>2. files'[p][Index] = 0
    BY <1>2, <1>5, <2>1, DirCleared
  <2> QED
    BY <1>1, <1>2, <2>1, <2>2, StepOfInjective
<1>6. ASSUME NEW r \in Part, MoveFile(r) \/ CopyPart(r)
      PROVE  /\ StepOf(p) < step' => files'[p][Index'] = Current' /\ <<p, Index'>> \notin torn'
             /\ StepOf(p) = step' =>
                  files'[p][Index'] = 0 \/ (files'[p][Index'] = Current' /\ <<p, Index'>> \in torn')
             /\ (format' = "lerobot" /\ StepOf(p) > step') => files'[p][Index'] = 0
  <2>1. step = StepOf(r) /\ step # 0
    BY <1>6, FileStep
  <2>2. Index' = Index /\ Current' = Current /\ Index \in Episode
    BY <1>2, <2>1
  <2>3. CASE p = r
    <3>1. files'[p][Index] = Current
      BY <1>6, <2>2, <2>3, FileStep
    <3>2. CASE MoveFile(r)
      BY <1>1, <2>1, <2>2, <2>3, <3>1, <3>2, FileStep
    <3>3. CASE CopyPart(r)
      BY <1>1, <2>1, <2>2, <2>3, <3>1, <3>3, FileStep
    <3> QED
      BY <1>6, <3>2, <3>3
  <2>4. CASE p # r
    <3>1. StepOf(p) # step
      BY <2>1, <2>4, StepOfInjective
    <3>2. files'[p][Index] = files[p][Index] /\ (<<p, Index>> \in torn' <=> <<p, Index>> \in torn)
      BY <1>6, <2>2, <2>4, FileStep
    <3>3. step' \in {step, step + 1}
      BY <1>6, FileStep
    <3>4. format = "lerobot"
      BY <2>1, <3>1, StepOfInjective, StepPlaces
    <3> QED
      BY <1>1, <1>3, <2>1, <2>2, <3>1, <3>2, <3>3, <3>4
  <2> QED
    BY <2>3, <2>4
<1>7. CASE AppendEpisodeLine \/ TruncateInfo \/ WriteInfo
  <2>1. step \in {4, 5} /\ step' \in {step, step + 1} /\ UNCHANGED <<files, torn>>
    BY <1>7, StepPlaces DEF AppendEpisodeLine, TruncateInfo, WriteInfo, Proceed, process
  <2> QED
    BY <1>1, <1>2, <1>3, <2>1
<1>8. CASE UNCHANGED <<step, disk>>
  BY <1>1, <1>2, <1>3, <1>8 DEF disk
<1> QED
  BY <1>4, <1>5, <1>6, <1>7, <1>8, StepFrame

(* storage/local never writes a meta file. *)
LEMMA McapStep == Typed /\ McapHasNoMeta /\ [Next]_vars => McapHasNoMeta'
<1> SUFFICES ASSUME Typed, McapHasNoMeta, [Next]_vars PROVE McapHasNoMeta'
  OBVIOUS
<1>1. AppendEpisodeLine \/ TruncateInfo \/ WriteInfo => format = "lerobot"
  BY StepPlaces DEF AppendEpisodeLine, TruncateInfo, WriteInfo
<1> QED
  BY <1>1, DiskFrame, PartStays DEF McapHasNoMeta

(* A LeRobot file that is written was not there, or is the torn copy the    *)
(* worker itself began.                                                     *)
LEMMA FileIsNew ==
  ASSUME Typed, Progress, NEW p \in Part, MoveFile(p) \/ CopyPart(p)
  PROVE  files[p][Index] = 0 \/ (files[p][Index] = Current /\ <<p, Index>> \in torn)
BY FileStep DEF Progress

(* No file is written where an episode is still to come. *)
LEMMA UntouchedStep ==
  ASSUME Typed, Queued, Progress, format = "lerobot", Untouched, [Next]_vars
  PROVE  Untouched'
<1>0. /\ UNCHANGED <<format, Part>> /\ "data" \in Part
      /\ files \in [Part -> [Episode -> 0 .. Len(takes)]]
      /\ queue \in Seq(Recorded) /\ next_episode_index \in Nat /\ Recorded \subseteq Nat
  BY PartStays, StepOfInjective DEF Typed, TypeOK, Recorded
<1>a. \A i \in DOMAIN queue : takes[queue[i]].episode \in Episode
  <2> SUFFICES ASSUME NEW i \in DOMAIN queue PROVE takes[queue[i]].episode \in Episode
    OBVIOUS
  <2>1. queue[i] \in Recorded
    BY <1>0
  <2> QED
    BY <2>1, TakeTyped
<1>1. ASSUME NEW p \in Part, MoveFile(p) \/ CopyPart(p)
      PROVE  Untouched'
  <2>1. /\ step = StepOf(p) /\ step # 0 /\ session = "collecting"
        /\ \A q \in Part, e \in Episode :
             files'[q][e] = IF q = p /\ e = Index THEN Current ELSE files[q][e]
    BY <1>1, FileStep
  <2>2. UNCHANGED <<session, next_episode_index, queue, takes>>
    BY <1>1, WorkerFrame
  <2>3. /\ 1 \in DOMAIN queue /\ Current = queue[1] /\ Current \in Nat \ {0}
        /\ Index = takes[queue[1]].episode /\ Index \in Episode
    BY <2>1, AtWork DEF Index
  <2>4. p # "data" => files["data"][Index] = Current
    <3>1. p # "data" => StepOf("data") < step
      BY <2>1, StepOfInjective
    <3> QED
      BY <1>0, <2>1, <3>1 DEF Progress
  <2>5. \A q \in Part, e \in Episode : files'[q][e] # 0 => files'["data"][e] # 0
    <3> SUFFICES ASSUME NEW q \in Part, NEW e \in Episode, files'[q][e] # 0
                 PROVE  files'["data"][e] # 0
      OBVIOUS
    <3>1. CASE e = Index
      BY <1>0, <2>1, <2>3, <2>4, <3>1
    <3>2. CASE e # Index
      BY <1>0, <2>1, <3>2 DEF Untouched
    <3> QED
      BY <3>1, <3>2
  <2>6. \A e \in Episode : e >= next_episode_index => files'["data"][e] = 0
    <3> SUFFICES ASSUME NEW e \in Episode, e >= next_episode_index PROVE files'["data"][e] = 0
      OBVIOUS
    <3>1. e # Index
      BY <1>0, <2>3 DEF Queued, Episode
    <3> QED
      BY <1>0, <2>1, <3>1 DEF Untouched
  <2>7. \A i \in DOMAIN queue, q \in Part : i # 1 => files'[q][takes[queue[i]].episode] = 0
    <3> SUFFICES ASSUME NEW i \in DOMAIN queue, NEW q \in Part, i # 1
                 PROVE  files'[q][takes[queue[i]].episode] = 0
      OBVIOUS
    <3>1. 1 < i
      BY <1>0
    <3>2. takes[queue[i]].episode # Index
      BY <1>a, <2>3, <3>1 DEF Queued, Episode
    <3>3. files[q][takes[queue[i]].episode] = 0
      BY DEF Untouched
    <3> QED
      BY <1>a, <2>1, <3>2, <3>3
  <2>8. step' # 0
    <3>1. StepOf(p) \in 1 .. 3
      BY StepOfInjective
    <3>2. step' \in {step, step + 1}
      BY <1>1, FileStep
    <3> QED
      BY <2>1, <3>1, <3>2
  <2> QED
    BY <1>0, <2>2, <2>5, <2>6, <2>7, <2>8 DEF Untouched
<1>2. CASE UNCHANGED <<files, torn>>
  <2>1. \A p \in Part, e \in Episode : files'[p][e] # 0 => files'["data"][e] # 0
    BY <1>2 DEF Untouched
  <2>2. ASSUME session' = "collecting", NEW e \in Episode, e >= next_episode_index'
        PROVE  files'["data"][e] = 0
    <3>1. CASE \E c \in Config : StartSession(c)
      <4>1. next_episode_index' = NextIndex
        BY <3>1 DEF StartSession
      <4>2. e \notin Seen
        BY <2>2, <4>1, NextIndexTyped DEF Episode
      <4> QED
        BY <1>2, <4>2 DEF Seen, InData
    <3>2. CASE session = "collecting" /\ next_episode_index' \in {next_episode_index, next_episode_index + 1}
      <4>1. e >= next_episode_index
        BY <1>0, <2>2, <3>2 DEF Episode
      <4> QED
        BY <1>2, <3>2, <4>1 DEF Untouched
    <3> QED
      BY <2>2, <3>1, <3>2, QueueFrame DEF RecordEpisode, EndSession, FinishStore, DiscardEpisode
  <2>3. \A e \in Episode, p \in Part :
          (session = "collecting" /\ e >= next_episode_index) => files[p][e] = 0
    BY DEF Untouched
  <2>4. ASSUME NEW i \in DOMAIN queue', NEW p \in Part, i # 1 \/ step' = 0
        PROVE  files'[p][takes'[queue'[i]].episode] = 0
    <3>1. CASE RecordEpisode
      <4>1. CASE i \in DOMAIN queue
        <5>1. takes'[queue'[i]] = takes[queue[i]] /\ step' = step
          BY <3>1, <4>1, QueueGrows, TakeRecorded DEF RecordEpisode
        <5> QED
          BY <1>2, <2>4, <4>1, <5>1 DEF Untouched
      <4>2. CASE i = Len(queue) + 1
        <5>1. takes'[queue'[i]].episode = next_episode_index /\ next_episode_index \in Episode
          BY <3>1, <4>2, QueueGrows, TakeRecorded
        <5>2. session = "collecting" /\ next_episode_index >= next_episode_index
          BY <1>0, <3>1 DEF RecordEpisode
        <5>3. files[p][next_episode_index] = 0
          BY <2>3, <5>1, <5>2
        <5> QED
          BY <1>2, <5>1, <5>3
      <4> QED
        BY <3>1, <4>1, <4>2, QueueGrows
    <3>2. CASE EndSession
      BY <2>4, <3>2 DEF EndSession
    <3>3. CASE FinishStore
      <4>1. queue'[i] = queue[i + 1] /\ i + 1 \in DOMAIN queue /\ i \in Nat \ {0} /\ UNCHANGED takes
        BY <2>4, <3>3, QueueShrinks DEF FinishStore
      <4>2. i + 1 # 1
        BY <4>1
      <4> QED
        BY <1>2, <4>1, <4>2 DEF Untouched
    <3>4. CASE ~EndSession /\ ~FinishStore /\ UNCHANGED <<queue, takes, stored>>
      <4>0. step \in Nat
        BY DEF Typed, TypeOK
      <4>1. step' = 0 => step = 0
        <5>1. step' \in {step, step + 1} \/ step' = 1
          BY <3>4 DEF Next, vars, process, StartSession, RecordEpisode, DiscardEpisode, BeginStore,
               ClearEpisodeDir, MoveFile, CopyPart, AppendEpisodeLine, TruncateInfo, WriteInfo, Proceed
        <5> QED
          BY <4>0, <5>1
      <4> QED
        BY <1>2, <2>4, <3>4, <4>1 DEF Untouched
    <3> QED
      BY <3>1, <3>2, <3>3, <3>4, QueueFrame
  <2> QED
    BY <1>0, <2>1, <2>2, <2>4 DEF Untouched
<1>3. ~ClearEpisodeDir
  BY StepPlaces DEF ClearEpisodeDir
<1> QED
  BY <1>1, <1>2, <1>3, DiskFrame

-----------------------------------------------------------------------------
(* The configuration. *)

(* The dataset stays one of the session's configuration. *)
LEMMA ConfiguredStep ==
  ASSUME Typed, Queued, Progress, format = "lerobot", LeRobot, [Next]_vars
  PROVE  Configured'
<1>0. /\ UNCHANGED <<format, Part>> /\ "data" \in Part
      /\ files \in [Part -> [Episode -> 0 .. Len(takes)]]
      /\ jsonl \in Seq(Recorded) /\ total_episodes \in Nat
  BY PartStays, StepOfInjective DEF Typed, TypeOK
<1>a. Untouched /\ Configured /\ Accounted
  BY DEF LeRobot
<1>b. \A p \in Part, e \in Episode : files[p][e] # 0 => takes'[files[p][e]] = takes[files[p][e]]
  BY <1>0, TakesStay DEF Recorded
<1>1. CASE \E c \in Config : StartSession(c)
  <2>1. PICK c \in Config : StartSession(c)
    BY <1>1
  <2>2. config' = c /\ UNCHANGED <<disk, takes>> /\ (Seen # {} => ConfigMatches(c))
    BY <2>1 DEF StartSession
  <2>3. Seen = {} => /\ jsonl = <<>>
                     /\ \A p \in Part, e \in Episode : files[p][e] = 0
    <3> SUFFICES ASSUME Seen = {}
                 PROVE  jsonl = <<>> /\ \A p \in Part, e \in Episode : files[p][e] = 0
      OBVIOUS
    <3>1. Listed = {} /\ InData = {}
      BY DEF Seen
    <3>2. DOMAIN jsonl = {}
      BY <3>1 DEF Listed
    <3>3. \A e \in Episode : files["data"][e] = 0
      BY <3>1 DEF InData
    <3> QED
      BY <1>0, <1>a, <3>2, <3>3 DEF Untouched
  <2>4. CASE Seen = {}
    BY <1>0, <1>a, <2>2, <2>3, <2>4 DEF Configured, disk
  <2>5. CASE Seen # {}
    <3>1. info = "valid" /\ embedded_config = c /\ config = c
      BY <1>a, <2>2, <2>5 DEF ConfigMatches, Configured
    <3> QED
      BY <1>0, <1>a, <2>2, <3>1 DEF Configured, disk
  <2> QED
    BY <2>4, <2>5
<1>2. ASSUME UNCHANGED config PROVE Configured'
  <2>1. \A p \in Part, e \in Episode : files'[p][e] # 0 => takes'[files'[p][e]].config = config
    <3>1. ASSUME NEW r \in Part, MoveFile(r) \/ CopyPart(r), NEW p \in Part, NEW e \in Episode,
                 files'[p][e] # 0
          PROVE  takes'[files'[p][e]].config = config
      <4>1. /\ step # 0 /\ UNCHANGED takes
            /\ files'[p][e] = IF p = r /\ e = Index THEN Current ELSE files[p][e]
        BY <3>1, FileStep, WorkerFrame
      <4>2. takes[Current].config = config
        BY <4>1, AtWork DEF Queued
      <4> QED
        BY <1>a, <3>1, <4>1, <4>2 DEF Configured
    <3>2. CASE UNCHANGED <<files, torn>>
      BY <1>a, <1>b, <3>2 DEF Configured
    <3>3. ~ClearEpisodeDir
      BY StepPlaces DEF ClearEpisodeDir
    <3> QED
      BY <3>1, <3>2, <3>3, DiskFrame
  <2>2. info' # "absent" => embedded_config' = config /\ jsonl' # <<>>
    <3>1. CASE AppendEpisodeLine
      <4>1. UNCHANGED <<info, embedded_config>> /\ jsonl' = Append(jsonl, Current)
        BY <3>1 DEF AppendEpisodeLine
      <4>2. jsonl' # <<>>
        BY <1>0, <4>1
      <4> QED
        BY <1>a, <4>1, <4>2 DEF Configured
    <3>2. CASE TruncateInfo
      <4>1. /\ step = 5 /\ info # "torn" /\ UNCHANGED jsonl
            /\ embedded_config' = IF info = "absent" THEN takes[Current].config ELSE embedded_config
        BY <3>2, StepPlaces DEF TruncateInfo
      <4>2. takes[Current].config = config
        BY <4>1, AtWork DEF Queued
      <4>3. jsonl # <<>>
        BY <1>0, <1>a, <4>1 DEF Accounted
      <4> QED
        BY <1>a, <4>1, <4>2, <4>3 DEF Configured
    <3>3. CASE WriteInfo
      BY <1>a, <3>3 DEF WriteInfo, Configured
    <3>4. CASE UNCHANGED <<jsonl, info, total_episodes, embedded_config>>
      BY <1>a, <3>4 DEF Configured
    <3> QED
      BY <3>1, <3>2, <3>3, <3>4, DiskFrame
  <2>3. (info' = "torn" /\ session' = "collecting") => step' = 5
    <3>0. ~(\E c \in Config : StartSession(c)) \/ info # "torn" \/ Seen # {}
      <4>1. info = "torn" => jsonl # <<>>
        BY <1>a DEF Configured
      <4>2. jsonl # <<>> => Seen # {}
        <5>1. jsonl # <<>> => 1 \in DOMAIN jsonl
          BY <1>0
        <5>2. 1 \in DOMAIN jsonl => Listed # {}
          BY DEF Listed
        <5> QED
          BY <5>1, <5>2 DEF Seen
      <4> QED
        BY <4>1, <4>2
    <3>1. info = "torn" => ~\E c \in Config : StartSession(c)
      BY <3>0 DEF StartSession, ConfigMatches
    <3>2. (info = "torn" /\ session = "collecting") => step = 5
      BY <1>a DEF Configured
    <3>3. CASE TruncateInfo
      BY <3>3, StepPlaces DEF TruncateInfo, process
    <3>4. CASE WriteInfo
      BY <3>4 DEF WriteInfo
    <3>5. \A p \in Part : (MoveFile(p) \/ CopyPart(p)) => step # 5 /\ session = "collecting" /\ UNCHANGED info
      BY FileStep, StepOfInjective DEF MoveFile, CopyPart
    <3>6. (AppendEpisodeLine \/ ClearEpisodeDir \/ BeginStore \/ FinishStore) =>
            step # 5 /\ session = "collecting" /\ UNCHANGED info
      BY StepPlaces DEF AppendEpisodeLine, ClearEpisodeDir, BeginStore, FinishStore, At, disk
    <3> QED
      BY <3>1, <3>2, <3>3, <3>4, <3>5, <3>6 DEF Next, vars, disk, process, StartSession,
         RecordEpisode, DiscardEpisode, EndSession
  <2> QED
    BY <1>0, <1>2, <2>1, <2>2, <2>3 DEF Configured
<1>3. (\E c \in Config : StartSession(c)) \/ UNCHANGED config
  BY DEF Next, vars, process, RecordEpisode, DiscardEpisode, EndSession, BeginStore, ClearEpisodeDir,
     MoveFile, CopyPart, AppendEpisodeLine, TruncateInfo, WriteInfo, FinishStore, Proceed
<1> QED
  BY <1>1, <1>2, <1>3

-----------------------------------------------------------------------------
(* The lines and the counts. *)

(* What appending a line does to the list. *)
LEMMA LineAppended ==
  ASSUME Typed, AppendEpisodeLine
  PROVE  /\ Len(jsonl') = Len(jsonl) + 1 /\ Len(jsonl) \in Nat
         /\ DOMAIN jsonl' = DOMAIN jsonl \cup {Len(jsonl) + 1}
         /\ \A i \in DOMAIN jsonl : jsonl'[i] = jsonl[i]
         /\ jsonl'[Len(jsonl) + 1] = Current
         /\ format = "lerobot" /\ step = 4 /\ step' = 5
         /\ \A t : OnList(t)' <=> (OnList(t) \/ t = Current)
<1>1. jsonl \in Seq(Recorded) /\ jsonl' = Append(jsonl, Current)
  BY DEF AppendEpisodeLine, Typed
<1>2. format = "lerobot" /\ step = 4 /\ step' = 5
  BY StepPlaces DEF AppendEpisodeLine, Proceed
<1>3. /\ Len(jsonl') = Len(jsonl) + 1 /\ Len(jsonl) \in Nat
      /\ DOMAIN jsonl' = DOMAIN jsonl \cup {Len(jsonl) + 1}
      /\ \A i \in DOMAIN jsonl : jsonl'[i] = jsonl[i]
      /\ jsonl'[Len(jsonl) + 1] = Current
  <2> HIDE DEF Recorded
  <2> QED
    BY <1>1
<1> QED
  BY <1>2, <1>3 DEF OnList

(* No step takes a line off the list, and only appending puts one there. *)
LEMMA ListStays ==
  ASSUME [Next]_vars, ~AppendEpisodeLine
  PROVE  UNCHANGED jsonl /\ \A t : OnList(t)' <=> OnList(t)
BY DiskFrame DEF OnList, TruncateInfo, WriteInfo

(* The stored takes are finitely many. *)
LEMMA StoredFinite ==
  ASSUME Typed
  PROVE  IsFiniteSet(stored) /\ Cardinality(stored) \in Nat
<1>1. IsFiniteSet(Take)
  BY FS_Interval, MaxAssumption DEF Take
<1>2. stored \subseteq Take
  BY DEF Typed, TypeOK
<1> QED
  BY <1>1, <1>2, FS_Subset, FS_CardinalityType

(* Lines come before counts, and counts before reports. *)
LEMMA AccountedStep ==
  ASSUME Typed, Queued, Progress, format = "lerobot", LeRobot, [Next]_vars
  PROVE  Accounted'
<1>a. Accounted /\ ((info = "torn" /\ session = "collecting") => step = 5)
  BY DEF LeRobot, Configured
<1>b. /\ total_episodes \in Nat /\ Len(jsonl) \in Nat /\ Cardinality(stored) \in Nat /\ step \in Nat
      /\ IsFiniteSet(stored)
  BY StoredFinite DEF Typed, TypeOK
<1>1. CASE AppendEpisodeLine
  <2>1. /\ Len(jsonl') = Len(jsonl) + 1 /\ step = 4 /\ step' = 5
        /\ \A t : OnList(t)' <=> (OnList(t) \/ t = Current)
    BY <1>1, LineAppended
  <2>2. UNCHANGED <<queue, stored, info, total_episodes, takes>> /\ info # "torn"
    BY <1>1, <1>a, <2>1 DEF AppendEpisodeLine, Proceed, At
  <2>3. 1 \in DOMAIN queue /\ Current = queue[1] /\ Current' = Current
    BY <1>1, <2>1, <2>2, AtWork DEF Current
  <2>4. \A i \in DOMAIN queue' : OnList(queue[i])' => i = 1
    <3> SUFFICES ASSUME NEW i \in DOMAIN queue, OnList(queue[i])', i # 1 PROVE FALSE
      BY <2>2
    <3>1. queue[i] = queue[1]
      BY <1>a, <2>1, <2>2, <2>3 DEF Accounted
    <3>2. queue \in Seq(Recorded) /\ Recorded \subseteq Nat
      BY DEF Typed, Recorded
    <3>3. 1 < i
      BY <3>2
    <3>4. queue[1] < queue[i]
      BY <2>3, <3>3 DEF Queued
    <3>5. queue[1] \in Nat
      BY <2>1, <2>3, AtWork
    <3> QED
      BY <3>1, <3>4, <3>5
  <2>5. \A t \in stored' : OnList(t)'
    BY <1>a, <2>1, <2>2 DEF Accounted
  <2>6. OnList(Current)'
    BY <2>1, <2>3 DEF OnList
  <2>7. \A i \in DOMAIN queue' : OnList(queue[i])' => i = 1 /\ step' >= 5
    BY <2>1, <2>4
  <2>8. /\ total_episodes' <= Len(jsonl') /\ Cardinality(stored') <= total_episodes'
        /\ total_episodes' + 1 <= Len(jsonl')
    BY <1>a, <1>b, <2>1, <2>2 DEF Accounted
  <2> QED
    BY <2>1, <2>2, <2>5, <2>6, <2>7, <2>8 DEF Accounted, OnList
<1>2. ASSUME ~AppendEpisodeLine
      PROVE  Accounted'
  <2>1. UNCHANGED jsonl /\ \A t : OnList(t)' <=> OnList(t)
    BY <1>2, ListStays
  <2>2. CASE RecordEpisode
    <3>1. UNCHANGED <<disk, step, stored>>
      BY <2>2 DEF RecordEpisode
    <3>2. ASSUME NEW i \in DOMAIN queue', \E j \in DOMAIN jsonl : jsonl[j] = queue'[i]
          PROVE  i = 1 /\ step >= 5
      <4>1. PICK j \in DOMAIN jsonl : jsonl[j] = queue'[i]
        BY <3>2
      <4>a. Len(takes') \notin Recorded
        BY <2>2, TakeRecorded DEF Recorded
      <4>b. jsonl \in Seq(Recorded)
        BY DEF Typed
      <4>2. jsonl[j] \in Recorded /\ Len(takes') \notin Recorded
        <5> HIDE DEF Recorded
        <5> QED
          BY <4>a, <4>b
      <4>3. i \in DOMAIN queue /\ queue'[i] = queue[i]
        BY <2>2, <4>1, <4>2, QueueGrows
      <4> QED
        BY <1>a, <4>1, <4>3 DEF Accounted, OnList
    <3>3. step >= 5 => Current' = Current
      <4>1. step >= 5 => step # 0
        BY <1>b
      <4> QED
        BY <3>1, <4>1, CurrentStays
    <3>4. step' >= 5 => OnList(Current)'
      BY <1>a, <2>1, <3>1, <3>3 DEF Accounted, OnList
    <3>5. \A i \in DOMAIN queue' : (OnList(queue[i]))' => i = 1 /\ step' >= 5
      BY <2>1, <3>1, <3>2 DEF OnList
    <3> QED
      BY <1>a, <2>1, <3>1, <3>4, <3>5 DEF Accounted, disk, OnList
  <2>3. CASE EndSession
    BY <1>a, <1>b, <2>1, <2>3 DEF EndSession, Accounted, disk, OnList
  <2>4. CASE FinishStore
    <3>1. step = 6 /\ step' = 0 /\ UNCHANGED disk
      BY <2>4, StepPlaces DEF FinishStore
    <3>2. \A i \in DOMAIN queue' : ~ \E j \in DOMAIN jsonl : jsonl[j] = queue'[i]
      <4> SUFFICES ASSUME NEW i \in DOMAIN queue', \E j \in DOMAIN jsonl : jsonl[j] = queue'[i]
                   PROVE  FALSE
        OBVIOUS
      <4>1. queue'[i] = queue[i + 1] /\ i + 1 \in DOMAIN queue /\ i \in Nat \ {0}
        BY <2>4, QueueShrinks
      <4>2. i + 1 = 1
        BY <1>a, <4>1 DEF Accounted, OnList
      <4> QED
        BY <4>1, <4>2
    <3>3. stored' = stored \cup {Current} /\ OnList(Current)
      BY <1>a, <2>4, <3>1, QueueShrinks DEF Accounted
    <3>4. \A t \in stored' : \E j \in DOMAIN jsonl : jsonl[j] = t
      BY <1>a, <3>3 DEF Accounted, OnList
    <3>5. Cardinality(stored') \in Nat /\ Cardinality(stored') <= Cardinality(stored) + 1
      <4>1. CASE Current \in stored
        <5>1. stored' = stored
          BY <3>3, <4>1
        <5> QED
          BY <1>b, <5>1
      <4>2. CASE Current \notin stored
        BY <1>b, <3>3, <4>2, FS_AddElement
      <4> QED
        BY <4>1, <4>2
    <3>6. Cardinality(stored') <= total_episodes
      BY <1>a, <1>b, <3>1, <3>5 DEF Accounted
    <3>7. /\ \A i \in DOMAIN queue' : (OnList(queue[i]))' => i = 1 /\ step' >= 5
          /\ \A t \in stored' : OnList(t)'
      BY <2>1, <3>2, <3>4 DEF OnList
    <3> QED
      BY <1>a, <1>b, <2>1, <3>1, <3>6, <3>7 DEF Accounted, disk, OnList
  <2>5. ASSUME UNCHANGED <<queue, takes, stored>>,
               step >= 5 => step' >= 5, step' >= 5 => step >= 5
        PROVE  /\ \A i \in DOMAIN queue' : (OnList(queue[i]))' => i = 1 /\ step' >= 5
               /\ \A t \in stored' : OnList(t)'
               /\ step' >= 5 => OnList(Current)'
    BY <1>a, <2>1, <2>5 DEF Accounted, OnList, Current
  <2>6. CASE TruncateInfo
    <3>1. /\ step = 5 /\ info # "torn" /\ total_episodes' = total_episodes + 1 /\ info' = "torn"
          /\ UNCHANGED <<step, queue, takes, stored>>
      BY <2>6, StepPlaces DEF TruncateInfo, process
    <3>2. /\ total_episodes' <= Len(jsonl') /\ Cardinality(stored') <= total_episodes'
          /\ Cardinality(stored') + 1 <= total_episodes'
      BY <1>a, <1>b, <2>1, <3>1 DEF Accounted
    <3> QED
      BY <2>5, <3>1, <3>2 DEF Accounted
  <2>7. CASE WriteInfo
    <3>1. /\ step = 5 /\ info = "torn" /\ step' = 6 /\ info' = "valid"
          /\ UNCHANGED <<queue, takes, stored, total_episodes>>
      BY <2>7, StepPlaces DEF WriteInfo, Proceed
    <3>2. /\ total_episodes' <= Len(jsonl') /\ Cardinality(stored') <= total_episodes'
          /\ Cardinality(stored') + 1 <= total_episodes'
      BY <1>a, <1>b, <2>1, <3>1 DEF Accounted
    <3> QED
      BY <2>5, <3>1, <3>2 DEF Accounted
  <2>8. ASSUME UNCHANGED <<queue, takes, stored, jsonl, info, total_episodes>>,
               step' = step \/ (step < 4 /\ step' < 5 /\ step' \in Nat)
        PROVE  Accounted'
    <3>1. (step >= 5 => step' >= 5) /\ (step' >= 5 => step >= 5 /\ step' = step)
      BY <1>b, <2>8
    <3>2. (step' = 5 => step = 5) /\ (step' = 6 => step = 6)
      BY <1>b, <2>8
    <3> QED
      BY <1>a, <2>5, <2>8, <3>1, <3>2 DEF Accounted
  <2>9. ASSUME NEW p \in Part, MoveFile(p) \/ CopyPart(p)
        PROVE  Accounted'
    <3>1. step = StepOf(p) /\ step' \in {step, step + 1} /\ StepOf(p) \in 1 .. 3
      BY <2>9, FileStep, StepOfInjective
    <3>2. UNCHANGED <<queue, takes, stored, jsonl, info, total_episodes>>
      BY <2>9, WorkerFrame DEF MoveFile, CopyPart
    <3>3. step < 4 /\ step' < 5 /\ step' \in Nat
      BY <3>1
    <3> QED
      BY <2>8, <3>2, <3>3
  <2>10. CASE ClearEpisodeDir
    BY <2>10, StepPlaces DEF ClearEpisodeDir
  <2>11. CASE BeginStore
    <3>1. step = 0 /\ step' = 1 /\ UNCHANGED <<queue, takes, stored, jsonl, info, total_episodes>>
      BY <2>11 DEF BeginStore, disk
    <3> QED
      BY <2>8, <3>1
  <2>12. CASE DiscardEpisode \/ (\E c \in Config : StartSession(c)) \/ UNCHANGED vars
    <3>1. UNCHANGED <<queue, takes, stored, jsonl, info, total_episodes, step>>
      BY <2>12 DEF DiscardEpisode, StartSession, vars, disk, process
    <3> QED
      BY <2>8, <3>1
  <2> QED
    BY <1>2, <2>2, <2>3, <2>4, <2>6, <2>7, <2>9, <2>10, <2>11, <2>12 DEF Next
<1> QED
  BY <1>1, <1>2

(* A line is written once the episode's files are whole, and they stay so. *)
LEMMA CompleteStep ==
  ASSUME Typed, Progress, McapHasNoMeta, ListedIsComplete, [Next]_vars
  PROVE  ListedIsComplete'
<1>0. /\ UNCHANGED <<format, Part>> /\ jsonl \in Seq(Recorded)
      /\ \A i \in DOMAIN jsonl : /\ jsonl[i] \in Recorded /\ takes'[jsonl[i]] = takes[jsonl[i]]
                                 /\ jsonl[i] \in Nat \ {0}
  <2>1. jsonl \in Seq(Recorded) /\ \A t \in Recorded : t \in Nat \ {0}
    BY DEF Typed, Recorded
  <2> HIDE DEF Recorded
  <2> QED
    BY <2>1, PartStays, TakesStay
<1>a. \A i \in DOMAIN jsonl : takes[jsonl[i]].episode \in Episode
  <2> SUFFICES ASSUME NEW i \in DOMAIN jsonl PROVE takes[jsonl[i]].episode \in Episode
    OBVIOUS
  <2>1. jsonl[i] \in Recorded
    BY <1>0
  <2> QED
    BY <2>1, TakeTyped
<1>1. ASSUME NEW i \in DOMAIN jsonl, NEW p \in Part
      PROVE  LET e == takes[jsonl[i]].episode IN files'[p][e] = jsonl[i] /\ <<p, e>> \notin torn'
  <2> DEFINE e == takes[jsonl[i]].episode
  <2>1. e \in Episode /\ files[p][e] = jsonl[i] /\ <<p, e>> \notin torn /\ jsonl[i] # 0
    BY <1>0, <1>1, <1>a DEF ListedIsComplete
  <2> HIDE DEF e
  <2>2. ASSUME NEW r \in Part, MoveFile(r) \/ CopyPart(r)
        PROVE  files'[p][e] = jsonl[i] /\ <<p, e>> \notin torn'
    <3>1. files[r][Index] = 0 \/ (files[r][Index] = Current /\ <<r, Index>> \in torn)
      BY <2>2, FileIsNew
    <3>2. ~(p = r /\ e = Index)
      BY <2>1, <3>1
    <3> QED
      BY <2>1, <2>2, <3>2, FileStep
  <2>3. ~ClearEpisodeDir
    <3>1. format # "mcap"
      BY <1>0, <1>1 DEF McapHasNoMeta
    <3> QED
      BY <3>1, StepPlaces DEF ClearEpisodeDir
  <2>4. files'[p][e] = jsonl[i] /\ <<p, e>> \notin torn'
    BY <2>1, <2>2, <2>3, DiskFrame
  <2> QED
    BY <2>4 DEF e
<1>2. CASE AppendEpisodeLine
  <2>1. /\ DOMAIN jsonl' = DOMAIN jsonl \cup {Len(jsonl) + 1}
        /\ \A i \in DOMAIN jsonl : jsonl'[i] = jsonl[i]
        /\ jsonl'[Len(jsonl) + 1] = Current /\ step = 4
    BY <1>2, LineAppended
  <2>2. UNCHANGED <<files, torn, takes>>
    BY <1>2 DEF AppendEpisodeLine, Proceed
  <2>3. \A p \in Part : files[p][Index] = Current /\ <<p, Index>> \notin torn
    <3>1. \A p \in Part : StepOf(p) < step
      BY <2>1, StepOfInjective
    <3> QED
      BY <2>1, <3>1 DEF Progress
  <2> QED
    BY <1>0, <1>1, <2>1, <2>2, <2>3 DEF ListedIsComplete, Index
<1>3. CASE UNCHANGED jsonl
  BY <1>0, <1>1, <1>3 DEF ListedIsComplete
<1> QED
  BY <1>2, <1>3, ListStays

(* A line is written for an index that has none. *)
LEMMA OnceStep ==
  ASSUME Typed, Progress, format = "lerobot" => LeRobot, ListedIsComplete, ListedOnce, [Next]_vars
  PROVE  ListedOnce'
<1>0. \A i \in DOMAIN jsonl : takes'[jsonl[i]] = takes[jsonl[i]]
  <2>1. \A i \in DOMAIN jsonl : jsonl[i] \in Recorded
    BY DEF Typed
  <2> QED
    BY <2>1, TakesStay
<1>1. CASE AppendEpisodeLine
  <2>1. /\ DOMAIN jsonl' = DOMAIN jsonl \cup {Len(jsonl) + 1}
        /\ \A i \in DOMAIN jsonl : jsonl'[i] = jsonl[i]
        /\ jsonl'[Len(jsonl) + 1] = Current /\ step = 4 /\ format = "lerobot"
    BY <1>1, LineAppended
  <2>2. UNCHANGED takes
    BY <1>1 DEF AppendEpisodeLine, Proceed
  <2>3. \A i \in DOMAIN jsonl : takes[jsonl[i]].episode # Index
    <3> SUFFICES ASSUME NEW i \in DOMAIN jsonl, takes[jsonl[i]].episode = Index PROVE FALSE
      OBVIOUS
    <3>1. "data" \in Part /\ StepOf("data") < step /\ step # 0
      BY <2>1, StepOfInjective
    <3>2. files["data"][Index] = Current
      BY <3>1 DEF Progress
    <3>3. files["data"][Index] = jsonl[i]
      BY <3>1 DEF ListedIsComplete
    <3>4. OnList(queue[1]) /\ 1 \in DOMAIN queue
      BY <2>1, <3>2, <3>3, AtWork DEF OnList
    <3>5. step >= 5
      BY <2>1, <3>4 DEF LeRobot, Accounted
    <3> QED
      BY <2>1, <3>5
  <2>4. ASSUME NEW i \in DOMAIN jsonl', NEW j \in DOMAIN jsonl',
               takes'[jsonl'[i]].episode = takes'[jsonl'[j]].episode
        PROVE  i = j
    <3>1. CASE i \in DOMAIN jsonl /\ j \in DOMAIN jsonl
      BY <2>1, <2>2, <2>4, <3>1 DEF ListedOnce
    <3>2. CASE i \in DOMAIN jsonl /\ j = Len(jsonl) + 1
      BY <2>1, <2>2, <2>3, <2>4, <3>2 DEF Index
    <3>3. CASE j \in DOMAIN jsonl /\ i = Len(jsonl) + 1
      BY <2>1, <2>2, <2>3, <2>4, <3>3 DEF Index
    <3> QED
      BY <2>1, <2>4, <3>1, <3>2, <3>3
  <2> QED
    BY <2>4 DEF ListedOnce
<1>2. CASE UNCHANGED jsonl
  BY <1>0, <1>2 DEF ListedOnce
<1> QED
  BY <1>1, <1>2, ListStays

(* What was reported stored stays whole, or is replaced by a later take. *)
LEMMA WholeStep ==
  ASSUME Typed, Queued, Progress, StoredIsWhole, [Next]_vars,
         format = "lerobot" => LeRobot /\ LeRobot' /\ ListedIsComplete'
  PROVE  StoredIsWhole'
<1>0. UNCHANGED <<format, Part>> /\ format \in {"lerobot", "mcap"}
  BY PartStays, StepPlaces
<1>1. CASE format = "lerobot"
  <2>1. \A t \in stored' : \E i \in DOMAIN jsonl' : jsonl'[i] = t
    BY <1>1 DEF LeRobot, Accounted, OnList
  <2>2. \A i \in DOMAIN jsonl', p \in Part :
          files'[p][takes'[jsonl'[i]].episode] = jsonl'[i] /\ <<p, takes'[jsonl'[i]].episode>> \notin torn'
    BY <1>0, <1>1 DEF ListedIsComplete
  <2> QED
    BY <1>0, <2>1, <2>2 DEF StoredIsWhole
<1>2. CASE format = "mcap"
  <2>0. /\ Len(takes) \in Nat /\ Len(takes') \in Nat /\ Len(takes) <= Len(takes')
        /\ \A t \in Recorded : takes'[t] = takes[t]
    <3>1. CASE RecordEpisode
      BY <3>1, TakeRecorded
    <3>2. CASE UNCHANGED takes
      BY <3>2 DEF Typed, TypeOK
    <3> QED
      BY <3>1, <3>2, QueueFrame DEF EndSession, FinishStore
  <2>1. ASSUME NEW t \in stored, NEW p \in Part
        PROVE  \/ files'[p][takes[t].episode] = t /\ <<p, takes[t].episode>> \notin torn'
               \/ \E u \in t + 1 .. Len(takes') : takes'[u].episode = takes[t].episode
    <3> DEFINE e == takes[t].episode
    <3>1. t \in Recorded /\ t \in Nat \ {0} /\ e \in Episode
      <4>1. t \in Recorded
        BY <2>1 DEF Typed
      <4> QED
        BY <4>1, TakeTyped DEF Recorded
    <3>2. \/ files[p][e] = t /\ <<p, e>> \notin torn
          \/ \E u \in t + 1 .. Len(takes) : takes[u].episode = e
      BY <2>1 DEF StoredIsWhole
    <3> HIDE DEF e
    <3>3. CASE \E u \in t + 1 .. Len(takes) : takes[u].episode = e
      <4>1. PICK u \in t + 1 .. Len(takes) : takes[u].episode = e
        BY <3>3
      <4>2. u \in Recorded /\ u \in t + 1 .. Len(takes')
        BY <2>0, <3>1 DEF Recorded
      <4> QED
        BY <2>0, <4>1, <4>2 DEF e
    <3>4. ASSUME step # 0, e = Index
          PROVE  \E u \in t + 1 .. Len(takes') : takes'[u].episode = e
      <4>1. Current \in Recorded /\ Current = queue[1] /\ 1 \in DOMAIN queue
        BY <3>4, AtWork
      <4>2. t < Current
        BY <2>1, <4>1 DEF Queued
      <4>3. Current \in t + 1 .. Len(takes') /\ takes'[Current].episode = e
        BY <2>0, <3>1, <3>4, <4>1, <4>2 DEF Recorded, Index
      <4> QED
        BY <4>3
    <3>5. ASSUME ClearEpisodeDir, e # Index
          PROVE  files'[p][e] = files[p][e] /\ (<<p, e>> \in torn' => <<p, e>> \in torn)
      BY <3>1, <3>5, DirCleared DEF ClearEpisodeDir
    <3>6. ASSUME NEW r \in Part, MoveFile(r) \/ CopyPart(r), e # Index
          PROVE  files'[p][e] = files[p][e] /\ (<<p, e>> \in torn' => <<p, e>> \in torn)
      BY <3>1, <3>6, FileStep
    <3>7. ClearEpisodeDir => step # 0
      BY DEF ClearEpisodeDir, At
    <3>8. \A r \in Part : (MoveFile(r) \/ CopyPart(r)) => step # 0
      BY FileStep
    <3> QED
      BY <3>2, <3>3, <3>4, <3>5, <3>6, <3>7, <3>8, DiskFrame DEF e
  <2>2. CASE FinishStore
    <3>1. stored' = stored \cup {Current} /\ step = 3 /\ UNCHANGED <<files, torn, takes>>
      BY <1>2, <2>2, StepPlaces DEF FinishStore, disk
    <3>2. \A p \in Part : files[p][Index] = Current /\ <<p, Index>> \notin torn
      <4>1. \A p \in Part : StepOf(p) < step
        BY <1>2, <3>1, StepOfInjective
      <4> QED
        BY <3>1, <4>1 DEF Progress
    <3> QED
      BY <1>0, <2>1, <3>1, <3>2 DEF StoredIsWhole, Index
  <2>3. CASE UNCHANGED stored
    <3>1. \A t \in stored : takes'[t] = takes[t]
      BY <2>0 DEF Typed
    <3> QED
      BY <1>0, <2>1, <2>3, <3>1 DEF StoredIsWhole
  <2> QED
    BY <2>2, <2>3, QueueFrame DEF RecordEpisode, EndSession
<1> QED
  BY <1>0, <1>1, <1>2

-----------------------------------------------------------------------------
(* The theorems. *)

(* Every behaviour keeps the inductive invariant. *)
THEOREM InductiveHolds == Spec => []Inductive
<1>1. Init => Inductive
  <2> SUFFICES ASSUME Init PROVE Inductive
    OBVIOUS
  <2>1. format \in {"lerobot", "mcap"} /\ Len(StoreSteps) \in Nat
    BY FormatAssumption DEF Init, StoreSteps
  <2>2. Recorded = {} /\ Len(takes) = 0
    BY DEF Init, Recorded
  <2>3. TypeOK
    BY <2>1, MaxAssumption DEF Init, TypeOK
  <2>4. files \in [Part -> [Episode -> 0 .. Len(takes)]]
    BY <2>2 DEF Init
  <2>5. Typed
    BY <2>3, <2>4 DEF Typed, Init
  <2>6. Queued /\ Progress /\ McapHasNoMeta /\ ListedIsComplete /\ ListedOnce /\ StoredIsWhole
    BY DEF Init, Queued, Progress, McapHasNoMeta, ListedIsComplete, ListedOnce, StoredIsWhole
  <2>7. Untouched /\ Configured
    <3>1. /\ jsonl = <<>> /\ queue = <<>> /\ info = "absent" /\ session = "off"
          /\ \A p \in Part, e \in Episode : files[p][e] = 0
      BY DEF Init
    <3> QED
      BY <3>1 DEF Untouched, Configured
  <2>8. Accounted
    <3>1. stored = {} /\ total_episodes = 0 /\ jsonl = <<>> /\ queue = <<>> /\ step = 0
      BY DEF Init
    <3>2. Cardinality(stored) = 0
      BY <3>1, FS_EmptySet
    <3> QED
      BY <3>1, <3>2 DEF Accounted
  <2> QED
    BY <2>5, <2>6, <2>7, <2>8 DEF Inductive, LeRobot
<1>2. Inductive /\ [Next]_vars => Inductive'
  <2> SUFFICES ASSUME Inductive, [Next]_vars PROVE Inductive'
    OBVIOUS
  <2>1. /\ Typed /\ Queued /\ Progress /\ McapHasNoMeta /\ ListedIsComplete /\ ListedOnce
        /\ StoredIsWhole /\ (format = "lerobot" => LeRobot)
    BY DEF Inductive
  <2>2. Typed' /\ Queued' /\ McapHasNoMeta'
    BY <2>1, TypedStep, QueuedStep, McapStep
  <2>3. Progress'
    BY <2>1, ProgressStep DEF LeRobot
  <2>4. format = "lerobot" => LeRobot'
    BY <2>1, UntouchedStep, ConfiguredStep, AccountedStep DEF LeRobot
  <2>5. ListedIsComplete' /\ ListedOnce'
    BY <2>1, CompleteStep, OnceStep
  <2>6. StoredIsWhole'
    BY <2>1, <2>4, <2>5, WholeStep
  <2> QED
    BY <2>2, <2>3, <2>4, <2>5, <2>6, PartStays DEF Inductive
<1> QED
  BY <1>1, <1>2, PTL DEF Spec

(* A readable info.json of a LeRobot dataset counts no fewer episodes than  *)
(* were reported and no more than are listed; one of an mcap dataset does   *)
(* not exist.                                                               *)
LEMMA CountsFit == Inductive => CountsBracketed
<1> SUFFICES ASSUME Inductive PROVE CountsBracketed
  OBVIOUS
<1>1. format = "lerobot" \/ info = "absent"
  BY StepPlaces DEF Inductive, McapHasNoMeta
<1> QED
  BY <1>1 DEF Inductive, LeRobot, Accounted, CountsBracketed

(* What is on disk is of the session's configuration, hence of one. *)
LEMMA ConfigFits == Inductive => OneConfig
<1> SUFFICES ASSUME Inductive, format = "lerobot" PROVE OneConfig
  BY DEF OneConfig
<1> DEFINE takesOnDisk == {files[p][e] : p \in Part, e \in Episode} \ {0}
           onDisk == {takes[t].config : t \in takesOnDisk}
<1>1. Configured
  BY DEF Inductive, LeRobot
<1>2. onDisk \subseteq {config}
  BY <1>1 DEF Configured
<1>3. info = "valid" => embedded_config = config
  BY <1>1 DEF Configured
<1>4. Cardinality(onDisk) <= 1
  <2> HIDE DEF onDisk
  <2>1. onDisk = {} \/ onDisk = {config}
    BY <1>2
  <2>2. Cardinality({}) = 0 /\ Cardinality({config}) = 1
    BY FS_EmptySet, FS_Singleton, Zenon
  <2> QED
    BY <2>1, <2>2
<1> QED
  BY <1>2, <1>3, <1>4 DEF OneConfig

(* The dataset on disk is sound in every state: each line of                *)
(* episodes.jsonl stands for whole files of its own and is the only one of  *)
(* its index, a readable info.json fits the lines and the reports, and all  *)
(* of a LeRobot dataset is of one configuration, over any number of         *)
(* sessions and crashes of the storage process between two file operations. *)
THEOREM DatasetStaysSound == Spec => []DatasetSound
<1>1. Inductive => DatasetSound
  BY CountsFit, ConfigFits DEF Inductive, Typed, DatasetSound
<1> QED
  BY <1>1, InductiveHolds, PTL

(* An episode reported stored has whole files of its own until a later take *)
(* of the same index replaces them (the store functions of storage/local    *)
(* and storage/local-lerobot).                                              *)
THEOREM StoredStaysWhole == Spec => []StoredIsWhole
<1>1. Inductive => StoredIsWhole
  BY DEF Inductive
<1> QED
  BY <1>1, InductiveHolds, PTL

(* No step replaces or removes a file of a LeRobot dataset: the             *)
(* index at work has no whole file at the worker's step, because a session  *)
(* starts counting behind every line and every parquet file there is.       *)
THEOREM NeverOverwritten == Spec => LeRobotNotOverwritten
<1>1. Inductive /\ [Next]_vars => [format = "lerobot" => KeepsFiles]_vars
  <2> SUFFICES ASSUME Inductive, [Next]_vars, format = "lerobot" PROVE KeepsFiles
    OBVIOUS
  <2>1. Typed /\ Progress
    BY DEF Inductive
  <2>2. ASSUME NEW p \in Part, MoveFile(p) \/ CopyPart(p), NEW q \in Part, NEW e \in Episode,
               files[q][e] # 0
        PROVE  files'[q][e] = files[q][e]
    <3>0. \A r \in Part, d \in Episode :
            files'[r][d] = IF r = p /\ d = Index THEN Current ELSE files[r][d]
      BY <2>1, <2>2, FileStep
    <3>1. files'[q][e] = IF q = p /\ e = Index THEN Current ELSE files[q][e]
      BY <3>0
    <3>2. files[p][Index] = 0 \/ files[p][Index] = Current
      BY <2>1, <2>2, FileIsNew
    <3> QED
      BY <2>2, <3>1, <3>2
  <2>3. ~ClearEpisodeDir
    BY <2>1, StepPlaces DEF ClearEpisodeDir
  <2> QED
    BY <2>2, <2>3, DiskFrame DEF KeepsFiles
<1> QED
  BY <1>1, InductiveHolds, PTL DEF Spec, LeRobotNotOverwritten
=============================================================================
