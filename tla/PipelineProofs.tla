--------------------------- MODULE PipelineProofs ---------------------------
(***************************************************************************)
(* Theorems about the episode pipeline, for every ring depth, number of    *)
(* episodes, resume point, set of cameras, number of staging slots and     *)
(* every storage backend: an episode is in one place of the pipeline at a  *)
(* time and only a kept one leaves the assembler, staging directories are  *)
(* there when storage needs them, notices tell the truth, the slots bound  *)
(* the work, and the pipeline implements EpisodeSpec.                      *)
(***************************************************************************)
EXTENDS Pipeline, SequenceTheorems, FiniteSetTheorems, TLAPS

(* The messages that travel to each port.  Only the process behind a service *)
(* publishes to it, so a reader need not look at the type.                   *)
TypesAt(p) ==
  IF p \in ControlPort THEN ControlEventType
  ELSE IF p \in StoredPort THEN {"EpisodeStored"}
  ELSE IF p = "controller.command" THEN EpisodeCommand
  ELSE IF p = "controller.backpressure" THEN {"Backpressure"}
  ELSE IF p = "controller.dropped" THEN {"EpisodeDropped"}
  ELSE {"EpisodeReady"}

Carried(p) == [type : TypesAt(p), episode_index : Episode]

BusTyped(r) ==
  /\ r = [p \in Port |-> r[p]]
  /\ \A p \in Port : r[p] \in Seq(Carried(p)) /\ Len(r[p]) <= BufferSize

(* The two channels of the storage worker. *)
StoreCommand == [type : {"Store", "Shutdown"}, episode_index : Episode]
StoreEvent == [type : {"Stored", "Error", "ShutdownComplete"}, episode_index : Episode]

(* TypeOK is not inductive without the contents of the rings and channels, *)
(* nor without the bound on an episode that is being recorded.             *)
Typed ==
  /\ TypeOK
  /\ BusTyped(ring)
  /\ stageQ \in Seq(StageCommand) /\ stageEventQ \in Seq(StageEvent)
  /\ storeQ \in Seq(StoreCommand) /\ storeEventQ \in Seq(StoreEvent)
  /\ state # "Idle" => next_episode_index < MaxEpisodes

-----------------------------------------------------------------------------
(* The controller's side of custody: an index is started once, and decided   *)
(* once, and the assembler reads nothing that was not published.             *)
StreamOf(e) ==
  /\ Did("RecordingStart", e) <=>
       \/ ResumeIndex <= e /\ e < next_episode_index
       \/ e = next_episode_index /\ state # "Idle"
  /\ Did("EpisodeKeep", e) \/ Did("EpisodeDiscard", e) <=>
       ResumeIndex <= e /\ e < next_episode_index
  /\ ~(Did("EpisodeKeep", e) /\ Did("EpisodeDiscard", e))

Streamed ==
  /\ \A e \in Episode : StreamOf(e)
  /\ ring["assembler.control"] \in Seq(sent)

(* The places an episode passes through, in order.  SingleCustody counts     *)
(* from the second one on; it takes the first, the RecordingStart that waits *)
(* for the assembler, to show that no episode enters the manager twice.      *)
Arriving == Named(ring["assembler.control"], "RecordingStart")

Place == <<Arriving, episodes, ToStage, Staged, Announced, ToStore, BeingStored, output>>

(* No queue names an episode twice. *)
Once(q, t) ==
  \A i, j \in DOMAIN q :
    q[i].type = t /\ q[j].type = t /\ q[i].episode_index = q[j].episode_index => i = j

QueuedOnce ==
  /\ Once(ring["assembler.control"], "RecordingStart")
  /\ Once(stageQ, "Stage") /\ Once(stageEventQ, "Staged")
  /\ Once(ring["storage.ready"], "EpisodeReady") /\ Once(storeQ, "Store")

Apart(P) == \A i, j \in 1 .. 8 : i # j => P[i] \cap P[j] = {}

Custody ==
  /\ QueuedOnce
  /\ Apart(Place)
  /\ \A i \in 1 .. 8 : Place[i] \subseteq Sent("RecordingStart")

(* Only a keep request on record lets an episode pass on. *)
KeptOnly == keep_requested \subseteq Kept /\ OnlyKeptLeavesAssembler

(* A notice starts out as an event of the storage worker. *)
Directories == DirectoriesSound /\ Named(storeEventQ, "Stored") \subseteq output

Inductive == Typed /\ Streamed /\ Custody /\ KeptOnly /\ Directories /\ SlotCoversWork

-----------------------------------------------------------------------------
(* Queues: what Append, Tail and Send do to the episodes a queue names. *)

(* Appending a message adds the episode it names, and repeats none that was *)
(* not there.                                                               *)
LEMMA AppendNames ==
  ASSUME NEW S, NEW q \in Seq(S), NEW m \in S, NEW t
  PROVE  /\ Append(q, m) \in Seq(S)
         /\ m.type = t => Named(Append(q, m), t) = Named(q, t) \cup {m.episode_index}
         /\ m.type # t => Named(Append(q, m), t) = Named(q, t)
         /\ Once(q, t) /\ (m.type = t => m.episode_index \notin Named(q, t))
              => Once(Append(q, m), t)
<1> DEFINE a == Append(q, m)
<1>1. /\ a \in Seq(S) /\ Len(a) = Len(q) + 1 /\ Len(q) \in Nat
      /\ DOMAIN a = 1 .. Len(q) + 1 /\ DOMAIN q = 1 .. Len(q)
      /\ \A i \in 1 .. Len(q) : a[i] = q[i]
      /\ a[Len(q) + 1] = m
  BY AppendProperties, LenProperties
<1> HIDE DEF a
<1>2. \A i \in DOMAIN a : i \in DOMAIN q \/ i = Len(q) + 1
  BY <1>1
<1>3. \A i \in DOMAIN q : i \in DOMAIN a /\ i # Len(q) + 1
  BY <1>1
<1>4. Len(q) + 1 \in DOMAIN a
  BY <1>1
<1>5. m.type = t => Named(a, t) = Named(q, t) \cup {m.episode_index}
  BY <1>1, <1>2, <1>3, <1>4 DEF Named
<1>6. m.type # t => Named(a, t) = Named(q, t)
  BY <1>1, <1>2, <1>3, <1>4 DEF Named
<1>7. ASSUME Once(q, t), m.type = t => m.episode_index \notin Named(q, t)
      PROVE  Once(a, t)
  BY <1>1, <1>2, <1>7 DEF Named, Once
<1> QED
  BY <1>1, <1>5, <1>6, <1>7 DEF a

(* Taking the head loses at most the episode it names. *)
LEMMA TailNames ==
  ASSUME NEW S, NEW q \in Seq(S), q # <<>>, NEW t
  PROVE  /\ Head(q) \in S /\ Tail(q) \in Seq(S) /\ Len(Tail(q)) <= Len(q)
         /\ Head(q).type = t => Head(q).episode_index \in Named(q, t)
         /\ Named(Tail(q), t) \subseteq Named(q, t)
         /\ Once(q, t) => Once(Tail(q), t)
         /\ Once(q, t) /\ Head(q).type = t
              => Named(Tail(q), t) \subseteq Named(q, t) \ {Head(q).episode_index}
<1> DEFINE b == Tail(q)
<1>1. /\ Head(q) \in S /\ b \in Seq(S) /\ Len(b) = Len(q) - 1
      /\ Len(q) \in Nat \ {0}
      /\ DOMAIN b = 1 .. Len(q) - 1 /\ DOMAIN q = 1 .. Len(q)
      /\ \A i \in 1 .. Len(q) - 1 : b[i] = q[i + 1]
      /\ Head(q) = q[1]
  BY HeadTailProperties, LenProperties, EmptySeq
<1> HIDE DEF b
<1>2. \A i \in DOMAIN b : i + 1 \in DOMAIN q /\ i + 1 # 1 /\ b[i] = q[i + 1]
  BY <1>1
<1>3. 1 \in DOMAIN q
  BY <1>1
<1>4. Head(q).type = t => Head(q).episode_index \in Named(q, t)
  BY <1>1, <1>3 DEF Named
<1>5. Named(b, t) \subseteq Named(q, t)
  BY <1>2 DEF Named
<1>6. Once(q, t) => Once(b, t)
  <2> SUFFICES ASSUME Once(q, t), NEW i \in DOMAIN b, NEW j \in DOMAIN b,
                      b[i].type = t, b[j].type = t, b[i].episode_index = b[j].episode_index
               PROVE  i = j
    BY DEF Once
  <2>1. i + 1 = j + 1
    BY <1>2 DEF Once
  <2> QED
    BY <2>1, <1>1
<1>7. ASSUME Once(q, t), Head(q).type = t
      PROVE  Named(b, t) \subseteq Named(q, t) \ {Head(q).episode_index}
  BY <1>1, <1>2, <1>3, <1>5, <1>7 DEF Named, Once
<1> QED
  BY <1>1, <1>4, <1>5, <1>6, <1>7 DEF b

(* The same for a queue before and after a step. *)
LEMMA TakesHead ==
  ASSUME NEW S, NEW q, q \in Seq(S), q # <<>>, NEW u, u = Tail(q), NEW t, Once(q, t)
  PROVE  /\ Named(u, t) \subseteq Named(q, t) /\ Once(u, t)
         /\ Head(q).type = t =>
              Head(q).episode_index \in Named(q, t) /\ Head(q).episode_index \notin Named(u, t)
BY TailNames

(* A message of the type in question is added at the end. *)
LEMMA AddsEpisode ==
  ASSUME NEW S, NEW q, q \in Seq(S), NEW t, NEW e, Msg(t, e) \in S,
         NEW u, u = Append(q, Msg(t, e)), Once(q, t), e \notin Named(q, t)
  PROVE  Named(u, t) = Named(q, t) \cup {e} /\ Once(u, t)
<1>1. Msg(t, e).type = t /\ Msg(t, e).episode_index = e
  BY DEF Msg
<1> QED
  BY <1>1, AppendNames

(* A message of another type is added at the end. *)
LEMMA AddsOther ==
  ASSUME NEW S, NEW q, q \in Seq(S), NEW m, m \in S,
         NEW u, u = Append(q, m), NEW t, Once(q, t), m.type # t
  PROVE  Named(u, t) = Named(q, t) /\ Once(u, t)
BY AppendNames

(* A publication adds the episode it names, and may lose the oldest. *)
LEMMA SendNames ==
  ASSUME NEW S, NEW q \in Seq(S), Len(q) <= BufferSize, NEW m \in S, NEW t
  PROVE  /\ Send(q, m) \in Seq(S) /\ Len(Send(q, m)) <= BufferSize
         /\ m.type # t => Named(Send(q, m), t) \subseteq Named(q, t)
         /\ Named(Send(q, m), t) \subseteq Named(q, t) \cup {m.episode_index}
         /\ Once(q, t) /\ (m.type = t => m.episode_index \notin Named(q, t))
              => Once(Send(q, m), t)
<1>1. CASE Len(q) < BufferSize
  <2>1. Len(Append(q, m)) <= BufferSize
    BY <1>1, AppendProperties, LenProperties, BufferSizeAssumption
  <2> QED
    BY <1>1, <2>1, AppendNames DEF Send
<1>2. CASE ~(Len(q) < BufferSize)
  <2>1. q # <<>>
    BY <1>2, EmptySeq, BufferSizeAssumption
  <2>2. /\ Tail(q) \in Seq(S) /\ Len(Tail(q)) = Len(q) - 1 /\ Len(q) \in Nat
        /\ Len(Append(Tail(q), m)) = Len(Tail(q)) + 1
    BY <2>1, HeadTailProperties, LenProperties, AppendProperties
  <2>3. Len(Append(Tail(q), m)) <= BufferSize
    BY <2>2, BufferSizeAssumption
  <2>4. Named(Tail(q), t) \subseteq Named(q, t) /\ (Once(q, t) => Once(Tail(q), t))
    BY <2>1, TailNames
  <2> DEFINE b == Tail(q)
  <2> HIDE DEF b
  <2>5. b \in Seq(S) =>
          /\ Append(b, m) \in Seq(S)
          /\ m.type # t => Named(Append(b, m), t) = Named(b, t)
          /\ m.type = t => Named(Append(b, m), t) = Named(b, t) \cup {m.episode_index}
          /\ Once(b, t) /\ (m.type = t => m.episode_index \notin Named(b, t))
               => Once(Append(b, m), t)
    BY AppendNames
  <2>6. Send(q, m) = Append(Tail(q), m)
    BY <1>2 DEF Send
  <2> QED
    BY <2>2, <2>3, <2>4, <2>5, <2>6 DEF b
<1> QED
  BY <1>1, <1>2

-----------------------------------------------------------------------------
(* The bus: every publication reaches ports that carry it, so the rings stay *)
(* typed and within their depth.                                             *)

(* Episode 0 exists: the messages about no episode are typed. *)
LEMMA ZeroIsEpisode == 0 \in Episode
BY MaxEpisodesAssumption DEF Episode

(* A message may travel to a port that carries its type. *)
LEMMA MsgCarried ==
  ASSUME NEW p \in Port, NEW t \in TypesAt(p), NEW e \in Episode
  PROVE  Msg(t, e) \in Carried(p)
BY DEF Msg, Carried

(* What each port carries. *)
LEMMA PortTypes ==
  /\ \A p \in ControlPort : p \in Port /\ TypesAt(p) = ControlEventType
  /\ \A p \in StoredPort : p \in Port /\ TypesAt(p) = {"EpisodeStored"}
  /\ "controller.command" \in Port /\ TypesAt("controller.command") = EpisodeCommand
  /\ "controller.backpressure" \in Port
  /\ TypesAt("controller.backpressure") = {"Backpressure"}
  /\ "controller.dropped" \in Port /\ TypesAt("controller.dropped") = {"EpisodeDropped"}
  /\ "storage.ready" \in Port /\ TypesAt("storage.ready") = {"EpisodeReady"}
BY DEF Port, ControlPort, StoredPort, TypesAt

(* A publication leaves the other ports alone and keeps the bus typed. *)
LEMMA PublishTyped ==
  ASSUME NEW r, BusTyped(r), NEW ports, NEW m, \A p \in ports \cap Port : m \in Carried(p)
  PROVE  /\ BusTyped(Publish(r, ports, m))
         /\ \A p \in Port :
              Publish(r, ports, m)[p] = IF p \in ports THEN Send(r[p], m) ELSE r[p]
<1> DEFINE u == Publish(r, ports, m)
<1>1. u = [p \in Port |-> u[p]]
  BY DEF Publish
<1>2. \A p \in Port : u[p] = IF p \in ports THEN Send(r[p], m) ELSE r[p]
  BY DEF Publish
<1>3. ASSUME NEW p \in Port
      PROVE  u[p] \in Seq(Carried(p)) /\ Len(u[p]) <= BufferSize
  <2>1. r[p] \in Seq(Carried(p)) /\ Len(r[p]) <= BufferSize
    BY DEF BusTyped
  <2>2. CASE p \in ports
    <3>1. m \in Carried(p)
      BY <2>2
    <3>2. Send(r[p], m) \in Seq(Carried(p)) /\ Len(Send(r[p], m)) <= BufferSize
      BY <2>1, <3>1, SendNames
    <3> QED
      BY <1>2, <2>2, <3>2
  <2>3. CASE p \notin ports
    BY <1>2, <2>1, <2>3
  <2> QED
    BY <2>2, <2>3
<1> HIDE DEF u
<1>4. BusTyped(u)
  BY <1>1, <1>3 DEF BusTyped
<1> QED
  BY <1>2, <1>4 DEF u

(* Receiving takes the head of one ring. *)
LEMMA ReceiveTyped ==
  ASSUME NEW r, BusTyped(r), NEW p \in Port, r[p] # <<>>
  PROVE  /\ BusTyped(Receive(r, p))
         /\ \A o \in Port : Receive(r, p)[o] = IF o = p THEN Tail(r[p]) ELSE r[o]
<1> DEFINE u == Receive(r, p)
<1>1. \A o \in Port : u[o] = IF o = p THEN Tail(r[p]) ELSE r[o]
  BY DEF BusTyped, Receive
<1>2. u = [o \in Port |-> u[o]]
  BY DEF BusTyped, Receive
<1>3. r[p] \in Seq(Carried(p)) /\ Len(r[p]) <= BufferSize /\ Len(r[p]) \in Nat
  BY LenProperties DEF BusTyped
<1>4. /\ Tail(r[p]) \in Seq(Carried(p)) /\ Len(Tail(r[p])) = Len(r[p]) - 1
  BY <1>3, HeadTailProperties
<1>5. Len(Tail(r[p])) <= BufferSize
  BY <1>3, <1>4, BufferSizeAssumption
<1> HIDE DEF u
<1>6. BusTyped(u)
  BY <1>1, <1>2, <1>4, <1>5 DEF BusTyped
<1> QED
  BY <1>1, <1>6 DEF u

(* A reader that is gone loses its rings. *)
LEMMA ForgetTyped ==
  ASSUME NEW r, BusTyped(r), NEW ports
  PROVE  /\ BusTyped(Forget(r, ports))
         /\ \A p \in Port : Forget(r, ports)[p] = IF p \in ports THEN <<>> ELSE r[p]
<1>1. \A p \in Port : Forget(r, ports)[p] = IF p \in ports THEN <<>> ELSE r[p]
  BY DEF Forget
<1>2. \A p \in Port : <<>> \in Seq(Carried(p)) /\ Len(<<>>) <= BufferSize
  BY EmptySeq, BufferSizeAssumption
<1>3. Forget(r, ports) = [p \in Port |-> Forget(r, ports)[p]]
  BY DEF Forget
<1> QED
  BY <1>1, <1>2, <1>3 DEF BusTyped

(* The head of a ring is a message its port carries. *)
LEMMA HeadCarried ==
  ASSUME BusTyped(ring), NEW p \in Port, Waiting(p)
  PROVE  /\ Head(ring[p]) \in Carried(p)
         /\ Head(ring[p]).type \in TypesAt(p)
         /\ Head(ring[p]).episode_index \in Episode
<1>1. Head(ring[p]) \in Carried(p)
  BY HeadTailProperties DEF BusTyped, Waiting
<1> QED
  BY <1>1 DEF Carried

(* publish_drop publishes a backpressure event or not, and the drop notice. *)
LEMMA PublishDropTyped ==
  ASSUME BusTyped(ring), NEW e \in Episode, NEW b \in BOOLEAN, PublishDrop(e, b)
  PROVE  /\ BusTyped(ring)'
         /\ \A p \in Port \ {"controller.backpressure", "controller.dropped"} :
              ring'[p] = ring[p]
<1> DEFINE r == IF b THEN Publish(ring, {"controller.backpressure"}, Msg("Backpressure", 0))
                     ELSE ring
<1>1. /\ Msg("Backpressure", 0) \in Carried("controller.backpressure")
      /\ Msg("EpisodeDropped", e) \in Carried("controller.dropped")
  BY MsgCarried, PortTypes, ZeroIsEpisode
<1>2. BusTyped(r) /\ \A p \in Port \ {"controller.backpressure"} : r[p] = ring[p]
  BY <1>1, PublishTyped
<1>3. ring' = Publish(r, {"controller.dropped"}, Msg("EpisodeDropped", e))
  BY DEF PublishDrop
<1> HIDE DEF r
<1> QED
  BY <1>1, <1>2, <1>3, PublishTyped

(* The controller publishes control events about the current episode. *)
LEMMA PublishControlTyped ==
  ASSUME NEW r, BusTyped(r), NEW t \in ControlEventType, NEW e \in Episode,
         PublishControl(r, Msg(t, e))
  PROVE  /\ BusTyped(ring)'
         /\ \A p \in Port :
              ring'[p] = IF p \in ControlPort THEN Send(r[p], Msg(t, e)) ELSE r[p]
<1>1. \A p \in ControlPort : Msg(t, e) \in Carried(p)
  BY MsgCarried, PortTypes
<1> QED
  BY <1>1, PublishTyped DEF PublishControl

(* The heads of the workers' channels name episodes. *)
LEMMA ChannelHeads ==
  ASSUME Typed
  PROVE  /\ stageQ # <<>> =>
              Head(stageQ) \in StageCommand /\ Head(stageQ).episode_index \in Episode
         /\ stageEventQ # <<>> =>
              Head(stageEventQ) \in StageEvent /\ Head(stageEventQ).episode_index \in Episode
         /\ storeQ # <<>> =>
              Head(storeQ) \in StoreCommand /\ Head(storeQ).episode_index \in Episode
         /\ storeEventQ # <<>> =>
              Head(storeEventQ) \in StoreEvent /\ Head(storeEventQ).episode_index \in Episode
<1>1. /\ stageQ # <<>> => Head(stageQ) \in StageCommand
      /\ stageEventQ # <<>> => Head(stageEventQ) \in StageEvent
      /\ storeQ # <<>> => Head(storeQ) \in StoreCommand
      /\ storeEventQ # <<>> => Head(storeEventQ) \in StoreEvent
  BY HeadTailProperties DEF Typed
<1> QED
  BY <1>1 DEF StageCommand, StageEvent, StoreCommand, StoreEvent

(* The rings stay typed in every step. *)
LEMMA BusStep ==
  ASSUME Typed, [Next]_vars
  PROVE  BusTyped(ring)'
<1> USE DEF Typed
<1>1. CASE UNCHANGED ring
  BY <1>1
<1>2. ASSUME NEW p \in Port, Waiting(p), ring' = Receive(ring, p)
      PROVE  BusTyped(ring)'
  BY <1>2, ReceiveTyped DEF Waiting
<1>3. ASSUME NEW ports, ring' = Forget(ring, ports)
      PROVE  BusTyped(ring)'
  BY <1>3, ForgetTyped
<1>4. ASSUME NEW c \in EpisodeCommand, UserCommand(c)
      PROVE  BusTyped(ring)'
  <2>1. Msg(c, 0) \in Carried("controller.command")
    BY MsgCarried, PortTypes, ZeroIsEpisode
  <2> QED
    BY <1>4, <2>1, PublishTyped DEF UserCommand
<1>5. CASE PollHalt
  <2>1. "Shutdown" \in ControlEventType
    BY DEF ControlEventType
  <2> QED
    BY <1>5, <2>1, ForgetTyped, PublishControlTyped, ZeroIsEpisode DEF PollHalt, Shutdown
<1>6. CASE StartEpisode \/ StopEpisode \/ KeepEpisode \/ DiscardEpisode
  <2>1. next_episode_index \in Episode
    BY <1>6, ResumeAssumption, MaxEpisodesAssumption
    DEF StartEpisode, StopEpisode, KeepEpisode, DiscardEpisode, MayStart, Transition,
        TypeOK, Episode
  <2>2. PICK t \in ControlEventType :
          PublishControl(Receive(ring, "controller.command"), Msg(t, next_episode_index))
    BY <1>6 DEF StartEpisode, StopEpisode, KeepEpisode, DiscardEpisode, Transition,
                ControlEventType
  <2>3. BusTyped(Receive(ring, "controller.command"))
    BY <1>6, ReceiveTyped, PortTypes
    DEF StartEpisode, StopEpisode, KeepEpisode, DiscardEpisode, Commanded, Waiting
  <2> QED
    BY <2>1, <2>2, <2>3, PublishControlTyped
<1>7. ASSUME NEW e \in Episode,
             DropFailed(e) \/ DropTimedOut(e) \/ DropNoSlot(e) \/ SweepStaleSlot(e)
      PROVE  BusTyped(ring)'
  BY <1>7, PublishDropTyped
  DEF DropFailed, DropTimedOut, DropNoSlot, DropEpisode, SweepStaleSlot
<1>8. CASE OnStaged
  <2>1. Head(stageEventQ).episode_index \in Episode
    BY <1>8, ChannelHeads DEF OnStaged, TakeStageEvent
  <2>2. Msg("EpisodeReady", Head(stageEventQ).episode_index) \in Carried("storage.ready")
    BY <2>1, MsgCarried, PortTypes
  <2> QED
    BY <1>8, <2>2, PublishTyped DEF OnStaged
<1>9. CASE OnStored
  <2>1. Head(storeEventQ).episode_index \in Episode
    BY <1>9, ChannelHeads DEF OnStored, TakeStoreEvent
  <2>2. \A p \in StoredPort :
          Msg("EpisodeStored", Head(storeEventQ).episode_index) \in Carried(p)
    BY <2>1, MsgCarried, PortTypes
  <2> QED
    BY <1>9, <2>2, PublishTyped DEF OnStored
<1>10. CASE ControllerStep
  BY <1>10, <1>1, <1>2, <1>6, PortTypes
  DEF ControllerStep, Tick, PollContinue, ApplyBackpressure, BackpressureDrained, Drained,
      ApplyStored, StoredDrained, ApplyDropped, DroppedDrained, RefuseCommand, Commanded,
      CommandsDrained, StoredPort
<1>11. CASE AssemblerStep
  <2>1. ASSUME NEW t, NEW e, Controlled(t, e) PROVE BusTyped(ring)'
    BY <2>1, <1>2, PortTypes DEF Controlled, ControlPort
  <2> QED
    BY <1>11, <1>1, <1>2, <1>3, <1>7, <1>8, <2>1, PortTypes
    DEF AssemblerStep, AssemblerLoop, OnRecordingStart, OnRecordingStop, OnEpisodeKeep,
        OnEpisodeDiscard, OnShutdown, Dispatch, OnPacket, ControlDrained, AdvanceAssembler,
        DispatchDone, ReleaseSlot, SlotsReleased, OnStageError, OnStageShutdown, LoopAgain,
        StoredPort
<1>12. CASE StorageStep
  BY <1>12, <1>1, <1>2, <1>3, <1>9, PortTypes
  DEF StorageStep, StorageLoop, OnStoreError, OnStoreShutdown, StoreEventsDrained,
      AdvanceStorage, OnStorageControl, OnEpisodeReady, ReadyDrained, ControlPort
<1>13. CASE StagerStep \/ StorerStep \/ AllGone
  BY <1>13, <1>1
  DEF StagerStep, StagerNext, StageOk, StageFails, StageShutdown, TakeStageCommand,
      StorerStep, EndStore, StorerStarts, BeginStore, FailStore, StorerShutdown, AllGone
<1> QED
  BY <1>1, <1>3, <1>4, <1>5, <1>10, <1>11, <1>12, <1>13
  DEF Next, vars, Halt, KillAssembler, AssemblerKilled, KillStorage, StorageKilled,
      Finished

-----------------------------------------------------------------------------
(* Typing, one process at a time. *)

ControllerTyped ==
  /\ state \in EpisodeState /\ phase \in Phase
  /\ next_episode_index \in ResumeIndex .. MaxEpisodes
  /\ state # "Idle" => next_episode_index < MaxEpisodes

ManagerTyped ==
  /\ active_episode_index \in Episode \cup {None}
  /\ episodes \subseteq Episode
  /\ stopped \subseteq episodes /\ keep_requested \subseteq episodes
  /\ stream \in [Episode -> [Camera -> StreamStatus]]

StagingTyped ==
  /\ in_flight \subseteq Episode /\ Cardinality(in_flight) <= StagingSlots
  /\ assemblerPhase \in AssemblerPhase /\ stager \in {"running", "exited"}
  /\ staging \subseteq Episode /\ dropped \subseteq Episode
  /\ stageQ \in Seq(StageCommand) /\ stageEventQ \in Seq(StageEvent)

StorageTyped ==
  /\ storagePhase \in StoragePhase /\ storer \in Storer
  /\ storing \in Episode /\ output \subseteq Episode
  /\ storeQ \in Seq(StoreCommand) /\ storeEventQ \in Seq(StoreEvent)

(* Typed is the conjunction of its processes. *)
LEMMA TypedParts ==
  Typed <=> BusTyped(ring) /\ ControllerTyped /\ ManagerTyped /\ StagingTyped /\ StorageTyped
BY DEF Typed, TypeOK, BusTyped, ControllerTyped, ManagerTyped, StagingTyped, StorageTyped

(* A step of the controller's tick. *)
LEMMA ControllerTypedStep ==
  ASSUME Typed, [Next]_vars
  PROVE  ControllerTyped'
<1> USE TypedParts, ResumeAssumption, MaxEpisodesAssumption
<1>1. CASE UNCHANGED <<state, next_episode_index>> /\ phase' \in Phase
  BY <1>1 DEF ControllerTyped
<1>2. CASE StartEpisode \/ StopEpisode \/ KeepEpisode \/ DiscardEpisode
  <2>1. phase' = phase
    BY <1>2 DEF StartEpisode, StopEpisode, KeepEpisode, DiscardEpisode, Commanded
  <2>2. CASE StartEpisode \/ StopEpisode
    BY <2>1, <2>2
    DEF StartEpisode, StopEpisode, MayStart, Transition, ControllerTyped, EpisodeState
  <2>3. CASE KeepEpisode \/ DiscardEpisode
    BY <2>1, <2>3
    DEF KeepEpisode, DiscardEpisode, Transition, ControllerTyped, EpisodeState
  <2> QED
    BY <1>2, <2>2, <2>3
<1>3. phase \in Phase
  BY DEF ControllerTyped
<1> QED
  BY <1>1, <1>2, <1>3
  DEF Next, vars, controllerVars, lifecycle, Phase, UserCommand, ControllerStep, Tick,
      PollContinue, ApplyBackpressure, BackpressureDrained, Drained, ApplyStored,
      StoredDrained, ApplyDropped, DroppedDrained, RefuseCommand, Commanded,
      CommandsDrained, Halt, PollHalt, AssemblerStep, StagerStep, StorageStep, StorerStep,
      KillAssembler, KillStorage, AllGone, Finished

(* A step of the episode manager. *)
LEMMA ManagerTypedStep ==
  ASSUME Typed, [Next]_vars
  PROVE  ManagerTyped'
<1> USE TypedParts DEF ManagerTyped
<1>0. FreshStreams \in [Camera -> StreamStatus]
  BY DEF FreshStreams, StreamStatus
<1>1. CASE UNCHANGED manager
  BY <1>1 DEF manager
<1>2. ASSUME NEW e \in Episode, OnRecordingStart(e)
      PROVE  ManagerTyped'
  BY <1>2, <1>0 DEF OnRecordingStart, InsertEpisode
<1>3. ASSUME NEW e \in Episode, OnRecordingStop(e) \/ OnEpisodeKeep(e)
      PROVE  ManagerTyped'
  BY <1>3 DEF OnRecordingStop, OnEpisodeKeep, ClearActive
<1>4. ASSUME NEW e \in Episode, RemoveEpisode(e),
             UNCHANGED active_episode_index \/ ClearActive(e)
      PROVE  ManagerTyped'
  BY <1>4, <1>0 DEF RemoveEpisode, ClearActive
<1>5. ASSUME NEW e \in Episode, OnEpisodeDiscard(e)
      PROVE  ManagerTyped'
  <2>1. CASE e \in episodes
    BY <1>5, <1>4, <2>1 DEF OnEpisodeDiscard
  <2>2. CASE e \notin episodes
    BY <1>5, <2>2 DEF OnEpisodeDiscard, ClearActive
  <2> QED
    BY <2>1, <2>2
<1>6. ASSUME NEW e \in Episode,
             DropFailed(e) \/ DropTimedOut(e) \/ DropNoSlot(e) \/ Dispatch(e)
      PROVE  ManagerTyped'
  BY <1>6, <1>4 DEF DropFailed, DropTimedOut, DropNoSlot, DropEpisode, Dispatch
<1>7. ASSUME NEW e \in Episode, NEW c \in Camera, NEW to \in StreamStatus,
             OnPacket(e, c, to)
      PROVE  ManagerTyped'
  <2>1. stream' \in [Episode -> [Camera -> StreamStatus]]
    BY <1>7 DEF OnPacket
  <2> QED
    BY <1>7, <2>1 DEF OnPacket
<1>8. CASE KillAssembler
  BY <1>8, <1>0 DEF KillAssembler, AssemblerKilled
<1> QED
  BY <1>1, <1>2, <1>3, <1>5, <1>6, <1>7, <1>8
  DEF Next, vars, assemblerVars, UserCommand, ControllerStep, Halt, AssemblerStep,
      AssemblerLoop, SweepStaleSlot, OnShutdown, ControlDrained, AdvanceAssembler,
      DispatchDone, ReleaseSlot, SlotsReleased, OnStaged, OnStageError, OnStageShutdown,
      TakeStageEvent, LoopAgain, StagerStep, StagerNext, StageOk, StageFails,
      StageShutdown, TakeStageCommand, StorageStep, StorerStep, KillStorage, AllGone,
      Finished

(* Slots: taking one needs a free one, giving one up never exceeds the bound. *)
LEMMA SlotsBounded ==
  ASSUME Typed, [Next]_vars
  PROVE  in_flight' \subseteq Episode /\ Cardinality(in_flight') <= StagingSlots
<1> USE TypedParts, StagingSlotsAssumption DEF StagingTyped
<1>0. IsFiniteSet(Episode)
  BY MaxEpisodesAssumption, FS_Interval DEF Episode
<1>1. IsFiniteSet(in_flight) /\ Cardinality(in_flight) \in Nat
  BY <1>0, FS_Subset, FS_CardinalityType
<1>2. ASSUME in_flight' \subseteq in_flight
      PROVE  in_flight' \subseteq Episode /\ Cardinality(in_flight') <= StagingSlots
  <2>1. IsFiniteSet(in_flight') /\ Cardinality(in_flight') <= Cardinality(in_flight)
    BY <1>1, <1>2, FS_Subset
  <2>2. Cardinality(in_flight') \in Nat
    BY <2>1, FS_CardinalityType
  <2> QED
    BY <1>1, <1>2, <2>1, <2>2
<1>3. ASSUME NEW e \in Episode, Dispatch(e)
      PROVE  in_flight' \subseteq Episode /\ Cardinality(in_flight') <= StagingSlots
  <2>1. Cardinality(in_flight) < StagingSlots /\ in_flight' = in_flight \cup {e}
    BY <1>3 DEF Dispatch, SlotFree
  <2>2. Cardinality(in_flight \cup {e}) \in {Cardinality(in_flight), Cardinality(in_flight) + 1}
    BY <1>1, FS_AddElement
  <2> QED
    BY <1>1, <2>1, <2>2
<1> QED
  BY <1>2, <1>3
  DEF Next, vars, assemblerVars, UserCommand, ControllerStep, Halt, AssemblerStep,
      AssemblerLoop, Controlled, OnRecordingStart, OnRecordingStop, OnEpisodeKeep,
      OnEpisodeDiscard, DropFailed, DropTimedOut, DropNoSlot, DropEpisode, OnPacket,
      SweepStaleSlot, OnShutdown, ControlDrained, AdvanceAssembler, DispatchDone,
      ReleaseSlot, SlotsReleased, OnStaged, OnStageError, OnStageShutdown, TakeStageEvent,
      LoopAgain, StagerStep, StagerNext, StageOk, StageFails, StageShutdown,
      TakeStageCommand, StorageStep, StorerStep, KillAssembler, AssemblerKilled,
      KillStorage, AllGone, Finished

(* A step of the staging worker, its channels and its directories. *)
LEMMA StagingTypedStep ==
  ASSUME Typed, [Next]_vars
  PROVE  StagingTyped'
<1> DEFINE Channels == stageQ \in Seq(StageCommand) /\ stageEventQ \in Seq(StageEvent)
           Rest == /\ assemblerPhase \in AssemblerPhase /\ stager \in {"running", "exited"}
                   /\ staging \subseteq Episode /\ dropped \subseteq Episode
<1> USE TypedParts
<1>1. Channels /\ Rest
  BY DEF StagingTyped
<1>2. Channels'
  <2>1. CASE UNCHANGED <<stageQ, stageEventQ>>
    BY <1>1, <2>1
  <2>2. ASSUME NEW t \in {"Stage", "Shutdown"}, NEW e \in Episode,
               stageQ' = Append(stageQ, Msg(t, e)), UNCHANGED stageEventQ
        PROVE  Channels'
    <3>1. Msg(t, e) \in StageCommand
      BY DEF Msg, StageCommand
    <3> QED
      BY <1>1, <2>2, <3>1, AppendProperties
  <2>3. ASSUME NEW t, TakeStageEvent(t)
        PROVE  Channels'
    BY <1>1, <2>3, HeadTailProperties DEF TakeStageEvent
  <2>4. ASSUME NEW t, NEW u \in {"Staged", "Error", "ShutdownComplete"},
               TakeStageCommand(t, u)
        PROVE  Channels'
    <3>1. Msg(u, Head(stageQ).episode_index) \in StageEvent
      BY <2>4, ChannelHeads DEF TakeStageCommand, Msg, StageEvent
    <3> QED
      BY <1>1, <2>4, <3>1, HeadTailProperties, AppendProperties DEF TakeStageCommand
  <2>5. CASE LoopAgain
    BY <2>1, <2>2, <2>5, ZeroIsEpisode DEF LoopAgain
  <2>6. CASE KillAssembler
    BY <2>6, EmptySeq DEF KillAssembler, AssemblerKilled
  <2> HIDE DEF Channels
  <2> QED
    BY <2>1, <2>2, <2>3, <2>4, <2>5, <2>6
    DEF Next, vars, assemblerVars, stagerVars, UserCommand, ControllerStep, Halt,
        AssemblerStep, AssemblerLoop, Controlled, OnRecordingStart, OnRecordingStop,
        OnEpisodeKeep, OnEpisodeDiscard, DropFailed, DropTimedOut, DropNoSlot, DropEpisode,
        OnPacket, Dispatch, SweepStaleSlot, OnShutdown, ControlDrained, AdvanceAssembler,
        DispatchDone, ReleaseSlot, SlotsReleased, OnStaged, OnStageError, OnStageShutdown,
        StagerStep, StagerNext, StageOk, StageFails, StageShutdown, StorageStep, StorerStep,
        KillStorage, AllGone, Finished
<1>3. Rest'
  <2>1. CASE StagerStep
    BY <1>1, <2>1, ChannelHeads
    DEF StagerStep, StagerNext, StageOk, StageFails, StageShutdown, TakeStageCommand
  <2>2. CASE AssemblerStep
    <3>1. assemblerPhase' \in AssemblerPhase
      BY <1>1, <2>2
      DEF AssemblerPhase, AssemblerStep, AssemblerLoop, Controlled, OnRecordingStart,
          OnRecordingStop, OnEpisodeKeep, OnEpisodeDiscard, DropFailed, DropTimedOut,
          DropNoSlot, DropEpisode, OnPacket, Dispatch, SweepStaleSlot, OnShutdown,
          ControlDrained, AdvanceAssembler, DispatchDone, ReleaseSlot, SlotsReleased,
          OnStaged, OnStageError, OnStageShutdown, LoopAgain
    <3>2. /\ stager' = stager /\ staging' \subseteq staging
          /\ \E e \in Episode : dropped' \subseteq dropped \cup {e}
      BY <2>2, ZeroIsEpisode
      DEF AssemblerStep, AssemblerLoop, Controlled, OnRecordingStart,
          OnRecordingStop, OnEpisodeKeep, OnEpisodeDiscard, DropFailed, DropTimedOut,
          DropNoSlot, DropEpisode, OnPacket, Dispatch, SweepStaleSlot, OnShutdown,
          ControlDrained, AdvanceAssembler, DispatchDone, ReleaseSlot, SlotsReleased,
          OnStaged, OnStageError, OnStageShutdown, LoopAgain, TakeStageEvent,
          PublishDrop, RemoveArtifacts, stagerVars
    <3> QED
      BY <1>1, <3>1, <3>2
  <2>3. CASE StorerStep
    <3>1. storing \in Episode
      BY DEF StorageTyped
    <3> QED
      BY <1>1, <2>3, <3>1 DEF StorerStep, Leftover, assemblerVars, stagerVars
  <2>4. CASE KillAssembler
    BY <1>1, <2>4 DEF KillAssembler, AssemblerKilled, AssemblerPhase
  <2>5. CASE UNCHANGED <<assemblerPhase, stager, staging, dropped>>
    BY <1>1, <2>5
  <2> HIDE DEF Rest
  <2> QED
    BY <2>1, <2>2, <2>3, <2>4, <2>5
    DEF Next, vars, assemblerVars, stagerVars, UserCommand, ControllerStep, Halt,
        StorageStep, KillStorage, AllGone, Finished
<1> QED
  BY <1>2, <1>3, SlotsBounded DEF StagingTyped

(* A step of the storage process. *)
LEMMA StorageTypedStep ==
  ASSUME Typed, [Next]_vars
  PROVE  StorageTyped'
<1> DEFINE Channels == storeQ \in Seq(StoreCommand) /\ storeEventQ \in Seq(StoreEvent)
           Rest == /\ storagePhase \in StoragePhase /\ storer \in Storer
                   /\ storing \in Episode /\ output \subseteq Episode
<1> USE TypedParts
<1>1. Channels /\ Rest
  BY DEF StorageTyped
<1>2. CASE UNCHANGED storageVars
  BY <1>2 DEF storageVars, StorageTyped
<1>3. CASE KillStorage
  BY <1>3, EmptySeq, ZeroIsEpisode
  DEF KillStorage, StorageKilled, StorageTyped, StoragePhase, Storer
<1>4. CASE StorageStep
  <2>1. ASSUME NEW t, TakeStoreEvent(t)
        PROVE  Channels'
    BY <1>1, <2>1, HeadTailProperties DEF TakeStoreEvent
  <2>2. ASSUME NEW t \in {"Store", "Shutdown"}, NEW e \in Episode,
               SendToWorker(t, e), UNCHANGED storeEventQ
        PROVE  Channels'
    <3>1. Msg(t, e) \in StoreCommand
      BY DEF Msg, StoreCommand
    <3> QED
      BY <1>1, <2>2, <3>1, AppendProperties DEF SendToWorker
  <2>3. ASSUME UNCHANGED <<storeQ, storeEventQ>> PROVE Channels'
    BY <1>1, <2>3
  <2>4. ASSUME OnEpisodeReady PROVE Channels'
    <3>1. Head(ring["storage.ready"]).episode_index \in Episode
      BY <2>4, HeadCarried, PortTypes DEF OnEpisodeReady
    <3> QED
      BY <2>2, <2>4, <3>1 DEF OnEpisodeReady
  <2>5. ASSUME OnStorageControl PROVE Channels'
    BY <2>2, <2>3, <2>5, ZeroIsEpisode DEF OnStorageControl
  <2> HIDE DEF Channels
  <2>6. Channels'
    BY <1>4, <2>1, <2>3, <2>4, <2>5
    DEF StorageStep, StorageLoop, OnStored, OnStoreError, OnStoreShutdown,
        StoreEventsDrained, AdvanceStorage, ReadyDrained
  <2>7. storagePhase' \in StoragePhase /\ UNCHANGED <<storer, storing, output>>
    BY <1>1, <1>4
    DEF StoragePhase, StorageStep, StorageLoop, OnStored, OnStoreError, OnStoreShutdown,
        StoreEventsDrained, AdvanceStorage, ReadyDrained, TakeStoreEvent, OnStorageControl,
        OnEpisodeReady, SendToWorker
  <2> QED
    BY <1>1, <2>6, <2>7 DEF StorageTyped, Channels
<1>5. CASE StorerStep
  <2>1. ASSUME NEW t \in {"Stored", "Error", "ShutdownComplete"}, NEW e \in Episode,
               Emit(t, e)
        PROVE  storeEventQ' \in Seq(StoreEvent)
    <3>1. Msg(t, e) \in StoreEvent
      BY DEF Msg, StoreEvent
    <3> QED
      BY <1>1, <2>1, <3>1, AppendProperties DEF Emit
  <2>2. storeEventQ' \in Seq(StoreEvent)
    BY <1>1, <1>5, <2>1, ZeroIsEpisode
    DEF StorerStep, EndStore, StorerStarts, BeginStore, FailStore, StorerShutdown
  <2>3. storeQ' \in Seq(StoreCommand)
    BY <1>1, <1>5, HeadTailProperties
    DEF StorerStep, EndStore, StorerStarts, BeginStore, FailStore, StorerShutdown
  <2>4. UNCHANGED storagePhase /\ storer' \in Storer
    BY <1>1, <1>5
    DEF Storer, StorerStep, EndStore, StorerStarts, BeginStore, FailStore, StorerShutdown
  <2>5. storing' \in Episode /\ output' \subseteq Episode
    BY <1>1, <1>5, ChannelHeads, ZeroIsEpisode
    DEF StorerStep, EndStore, StorerStarts, BeginStore, FailStore, StorerShutdown, Arrived
  <2> QED
    BY <1>1, <2>2, <2>3, <2>4, <2>5 DEF StorageTyped
<1> QED
  BY <1>2, <1>3, <1>4, <1>5
  DEF Next, vars, UserCommand, ControllerStep, Halt, AssemblerStep, StagerStep,
      KillAssembler, AllGone, Finished

(* The initial state is typed. *)
LEMMA InitTyped == Init => Typed
<1> SUFFICES ASSUME Init PROVE Typed
  OBVIOUS
<1> USE MaxEpisodesAssumption, ResumeAssumption
<1>1. BusTyped(ring)
  BY EmptySeq, BufferSizeAssumption DEF Init, BusInit, BusTyped
<1>2. ControllerTyped
  BY DEF Init, ControllerInit, ControllerTyped, EpisodeState, Phase
<1>3. ManagerTyped
  BY DEF Init, AssemblerInit, ManagerTyped, FreshStreams, StreamStatus, None
<1>4. StagingTyped
  BY EmptySeq, FS_EmptySet, StagingSlotsAssumption
  DEF Init, AssemblerInit, StagingTyped, AssemblerPhase
<1>5. StorageTyped
  BY EmptySeq, ZeroIsEpisode DEF Init, StorageInit, StorageTyped, StoragePhase, Storer
<1> QED
  BY <1>1, <1>2, <1>3, <1>4, <1>5, TypedParts

(* Every step keeps the types. *)
LEMMA TypedStep == Typed /\ [Next]_vars => Typed'
<1> SUFFICES ASSUME Typed, [Next]_vars PROVE Typed'
  OBVIOUS
<1>1. /\ BusTyped(ring)' /\ ControllerTyped' /\ ManagerTyped'
      /\ StagingTyped' /\ StorageTyped'
  BY BusStep, ControllerTypedStep, ManagerTypedStep, StagingTypedStep, StorageTypedStep
<1> QED
  BY <1>1 DEF Typed, TypeOK, BusTyped, ControllerTyped, ManagerTyped, StagingTyped,
              StorageTyped

(* Type correctness of the pipeline; in particular no ring outgrows its depth *)
(* and never more than staging_slots episodes hold a slot.                    *)
THEOREM Typing == Spec => []Typed
BY InitTyped, TypedStep, PTL DEF Spec

-----------------------------------------------------------------------------
(* The control stream, as the pipeline's other processes rely on it. *)

(* Two messages are equal only if type and episode are. *)
LEMMA MsgInjective ==
  ASSUME NEW t, NEW e, NEW u, NEW f
  PROVE  Msg(t, e) = Msg(u, f) <=> t = u /\ e = f
BY DEF Msg

(* What has been published once the event (u, f) is. *)
LEMMA DidAfter ==
  ASSUME NEW u, NEW f, sent' = sent \cup {Msg(u, f)}, NEW t, NEW e
  PROVE  Did(t, e)' <=> Did(t, e) \/ (t = u /\ e = f)
BY MsgInjective DEF Did

(* Only Shutdown and the four transitions touch the control stream. *)
LEMMA QuietStep ==
  ASSUME [Next]_vars
  PROVE  \/ UNCHANGED <<state, next_episode_index, sent>>
         \/ PollHalt \/ StartEpisode \/ StopEpisode \/ KeepEpisode \/ DiscardEpisode
BY DEF Next, vars, controllerVars, lifecycle, UserCommand, ControllerStep, Tick,
       PollContinue, ApplyBackpressure, BackpressureDrained, Drained, ApplyStored,
       StoredDrained, ApplyDropped, DroppedDrained, RefuseCommand, Commanded,
       CommandsDrained, Halt, AssemblerStep, StagerStep, StorageStep, StorerStep,
       KillAssembler, KillStorage, AllGone, Finished

(* What the four transitions do to the lifecycle and to the control stream. *)
LEMMA TransitionEffect ==
  ASSUME Typed
  PROVE  /\ StartEpisode =>
              /\ state = "Idle" /\ state' = "Recording"
              /\ UNCHANGED next_episode_index
              /\ sent' = sent \cup {Msg("RecordingStart", next_episode_index)}
         /\ StopEpisode =>
              /\ state = "Recording" /\ state' = "Pending"
              /\ UNCHANGED next_episode_index
              /\ sent' = sent \cup {Msg("RecordingStop", next_episode_index)}
         /\ KeepEpisode =>
              /\ state = "Pending" /\ state' = "Idle"
              /\ next_episode_index' = next_episode_index + 1
              /\ sent' = sent \cup {Msg("EpisodeKeep", next_episode_index)}
         /\ DiscardEpisode =>
              /\ state = "Pending" /\ state' = "Idle"
              /\ next_episode_index' = next_episode_index + 1
              /\ sent' = sent \cup {Msg("EpisodeDiscard", next_episode_index)}
         /\ StartEpisode \/ StopEpisode \/ KeepEpisode \/ DiscardEpisode =>
              next_episode_index \in Episode
         /\ PollHalt =>
              UNCHANGED <<state, next_episode_index>> /\ sent' = sent \cup {Msg("Shutdown", 0)}
<1>1. StartEpisode \/ StopEpisode \/ KeepEpisode \/ DiscardEpisode =>
        next_episode_index \in Episode
  BY ResumeAssumption, MaxEpisodesAssumption
  DEF StartEpisode, StopEpisode, KeepEpisode, DiscardEpisode, MayStart, Transition,
      Typed, TypeOK, Episode
<1> QED
  BY <1>1 DEF StartEpisode, StopEpisode, KeepEpisode, DiscardEpisode, Transition,
              PublishControl, PollHalt, Shutdown, lifecycle

(* What a step does to the assembler's control ring: a publication goes to    *)
(* its end, the assembler takes its head, an assembler that is gone has none. *)
ControlRingEffect ==
  LET q == ring["assembler.control"]
      u == ring'["assembler.control"]
  IN  \/ (u = q \/ u = <<>>) /\ UNCHANGED sent
      \/ /\ UNCHANGED sent /\ u = Tail(q) /\ q # <<>>
         /\ \E e \in Episode : \/ OnRecordingStart(e) \/ OnRecordingStop(e)
                               \/ OnEpisodeKeep(e) \/ OnEpisodeDiscard(e) \/ OnShutdown
      \/ \E t \in ControlEventType, e \in Episode :
           /\ sent' = sent \cup {Msg(t, e)} /\ u = Send(q, Msg(t, e))
           /\ t = "RecordingStart" => StartEpisode /\ e = next_episode_index

(* Those are all the steps that touch it. *)
LEMMA ControlRingStep ==
  ASSUME Typed, [Next]_vars
  PROVE  ControlRingEffect
<1> DEFINE ac == "assembler.control"
           q == ring[ac]
           u == ring'[ac]
<1>0. /\ ac \in Port /\ ac \in ControlPort /\ TypesAt(ac) = ControlEventType
      /\ BusTyped(ring)
  BY PortTypes DEF ControlPort, Typed
<1>1. ASSUME NEW p \in Port, p # ac, Waiting(p)
      PROVE  Receive(ring, p)[ac] = q
  BY <1>0, <1>1, ReceiveTyped DEF Waiting
<1>2. ASSUME NEW r, BusTyped(r), r[ac] = q, NEW t \in ControlEventType, NEW e \in Episode,
             PublishControl(r, Msg(t, e)),
             t = "RecordingStart" => StartEpisode /\ e = next_episode_index
      PROVE  ControlRingEffect
  <2>1. u = Send(q, Msg(t, e)) /\ sent' = sent \cup {Msg(t, e)}
    BY <1>0, <1>2, PublishControlTyped DEF PublishControl
  <2> QED
    BY <1>2, <2>1 DEF ControlRingEffect
<1>3. CASE PollHalt
  <2>1. BusTyped(Forget(ring, ControllerPort)) /\ Forget(ring, ControllerPort)[ac] = q
    BY <1>0, ForgetTyped DEF ControllerPort
  <2>2. "Shutdown" \in ControlEventType /\ "Shutdown" # "RecordingStart"
    BY DEF ControlEventType
  <2> QED
    BY <1>2, <1>3, <2>1, <2>2, ZeroIsEpisode DEF PollHalt, Shutdown
<1>4. CASE StartEpisode \/ StopEpisode \/ KeepEpisode \/ DiscardEpisode
  <2>1. Waiting("controller.command")
    BY <1>4 DEF StartEpisode, StopEpisode, KeepEpisode, DiscardEpisode, Commanded
  <2>2. /\ BusTyped(Receive(ring, "controller.command"))
        /\ Receive(ring, "controller.command")[ac] = q
    BY <1>0, <1>1, <2>1, ReceiveTyped, PortTypes DEF Waiting
  <2>3. next_episode_index \in Episode
    BY <1>4, TransitionEffect
  <2>4. PICK t \in ControlEventType :
          /\ PublishControl(Receive(ring, "controller.command"), Msg(t, next_episode_index))
          /\ t = "RecordingStart" => StartEpisode
    BY <1>4 DEF StartEpisode, StopEpisode, KeepEpisode, DiscardEpisode, Transition,
                ControlEventType
  <2> QED
    BY <1>2, <2>2, <2>3, <2>4
<1>5. ASSUME u = q, UNCHANGED sent PROVE ControlRingEffect
  BY <1>5 DEF ControlRingEffect
<1>6. ASSUME UNCHANGED ring, UNCHANGED sent PROVE ControlRingEffect
  BY <1>5, <1>6
<1>7. ASSUME NEW p \in Port \ {ac}, Waiting(p), ring' = Receive(ring, p), UNCHANGED sent
      PROVE  ControlRingEffect
  BY <1>1, <1>5, <1>7
<1>8. ASSUME NEW p, p # ac, NEW m, ring' = Publish(ring, {p}, m), UNCHANGED sent
      PROVE  ControlRingEffect
  BY <1>0, <1>5, <1>8 DEF Publish
<1>9. ASSUME NEW ports, ring' = Forget(ring, ports), UNCHANGED sent
      PROVE  ControlRingEffect
  <2>1. u = q \/ u = <<>>
    BY <1>0, <1>9, ForgetTyped
  <2> QED
    BY <1>9, <2>1 DEF ControlRingEffect
<1>10. CASE ControllerStep
  BY <1>10, <1>4, <1>6, <1>7, PortTypes
  DEF ControllerStep, Tick, PollContinue, ApplyBackpressure, BackpressureDrained, Drained,
      ApplyStored, StoredDrained, ApplyDropped, DroppedDrained, RefuseCommand, Commanded,
      CommandsDrained, StoredPort
<1>11. CASE AssemblerStep
  <2>0. UNCHANGED sent
    BY <1>11 DEF AssemblerStep, controllerVars
  <2>1. ASSUME NEW t, NEW e, Controlled(t, e)
        PROVE  u = Tail(q) /\ q # <<>>
    BY <1>0, <2>1, ReceiveTyped DEF Controlled, Waiting
  <2>2. ASSUME NEW e \in Episode,
               OnRecordingStart(e) \/ OnRecordingStop(e) \/ OnEpisodeKeep(e)
                 \/ OnEpisodeDiscard(e) \/ OnShutdown
        PROVE  ControlRingEffect
    BY <2>0, <2>1, <2>2
    DEF ControlRingEffect, OnRecordingStart, OnRecordingStop, OnEpisodeKeep, OnEpisodeDiscard, OnShutdown
  <2>3. ASSUME NEW e \in Episode,
               DropFailed(e) \/ DropTimedOut(e) \/ DropNoSlot(e) \/ SweepStaleSlot(e)
        PROVE  ControlRingEffect
    <3>1. PICK b \in BOOLEAN : PublishDrop(e, b)
      BY <2>3 DEF DropFailed, DropTimedOut, DropNoSlot, DropEpisode, SweepStaleSlot
    <3> QED
      BY <1>0, <1>5, <2>0, <3>1, PublishDropTyped
  <2> QED
    BY <1>11, <1>6, <1>7, <1>8, <1>9, <2>0, <2>2, <2>3, PortTypes, ZeroIsEpisode
    DEF AssemblerStep, AssemblerLoop, Dispatch, OnPacket, ControlDrained, AdvanceAssembler,
        DispatchDone, ReleaseSlot, SlotsReleased, OnStaged, OnStageError, OnStageShutdown,
        LoopAgain, StoredPort
<1>12. CASE StorageStep
  <2>0. UNCHANGED sent
    BY <1>12 DEF StorageStep, controllerVars
  <2>1. CASE OnStored
    BY <1>0, <1>5, <2>0, <2>1 DEF OnStored, Publish, StoredPort
  <2> QED
    BY <1>12, <1>6, <1>7, <1>9, <2>0, <2>1, PortTypes
    DEF StorageStep, StorageLoop, OnStoreError, OnStoreShutdown, StoreEventsDrained,
        AdvanceStorage, OnStorageControl, OnEpisodeReady, ReadyDrained, ControlPort
<1>13. CASE StagerStep \/ StorerStep \/ AllGone
  BY <1>13, <1>6
  DEF StagerStep, StagerNext, StageOk, StageFails, StageShutdown, TakeStageCommand,
      StorerStep, EndStore, StorerStarts, BeginStore, FailStore, StorerShutdown, AllGone,
      controllerVars
<1>14. CASE KillAssembler \/ KillStorage
  BY <1>14, <1>9 DEF KillAssembler, AssemblerKilled, KillStorage, StorageKilled,
                     controllerVars
<1>15. ASSUME NEW c \in EpisodeCommand, UserCommand(c) PROVE ControlRingEffect
  BY <1>8, <1>15 DEF UserCommand, controllerVars
<1> QED
  BY <1>3, <1>6, <1>10, <1>11, <1>12, <1>13, <1>14, <1>15
  DEF Next, vars, controllerVars, Halt, Finished

(* The initial state: nothing was published. *)
LEMMA InitStreamed == Init => Streamed
<1> SUFFICES ASSUME Init PROVE Streamed
  OBVIOUS
<1>1. ring["assembler.control"] = <<>>
  BY PortTypes DEF Init, BusInit, ControlPort
<1>2. \A e \in Episode : StreamOf(e)
  BY ResumeAssumption DEF Init, ControllerInit, StreamOf, Did, Episode
<1> QED
  BY <1>1, <1>2, EmptySeq DEF Streamed

(* Every step keeps the stream in order (EpisodeLifecycle::handle_command). *)
LEMMA StreamedStep == Typed /\ Streamed /\ [Next]_vars => Streamed'
<1> SUFFICES ASSUME Typed, Streamed, [Next]_vars PROVE Streamed'
  OBVIOUS
<1>1. ASSUME NEW e \in Episode PROVE StreamOf(e)'
  <2>0. StreamOf(e)
    BY DEF Streamed
  <2>1. CASE UNCHANGED <<state, next_episode_index, sent>>
    BY <2>0, <2>1 DEF StreamOf, Did
  <2>2. CASE PollHalt
    BY <2>0, <2>2, TransitionEffect, DidAfter DEF StreamOf
  <2>3. CASE StartEpisode \/ StopEpisode
    BY <2>0, <2>3, TransitionEffect, DidAfter DEF StreamOf
  <2>4. CASE KeepEpisode \/ DiscardEpisode
    <3>1. /\ state = "Pending" /\ state' = "Idle"
          /\ next_episode_index' = next_episode_index + 1
          /\ \/ sent' = sent \cup {Msg("EpisodeKeep", next_episode_index)}
             \/ sent' = sent \cup {Msg("EpisodeDiscard", next_episode_index)}
      BY <2>4, TransitionEffect
    <3>2. ResumeIndex <= e /\ e < next_episode_index' <=>
            (ResumeIndex <= e /\ e < next_episode_index) \/ e = next_episode_index
      BY <3>1, ResumeAssumption, MaxEpisodesAssumption DEF Typed, TypeOK, Episode
    <3>3. e = next_episode_index => ~(ResumeIndex <= e /\ e < next_episode_index)
      BY DEF Typed, TypeOK
    <3>4. CASE sent' = sent \cup {Msg("EpisodeKeep", next_episode_index)}
      BY <2>0, <3>1, <3>2, <3>3, <3>4, DidAfter DEF StreamOf
    <3>5. CASE sent' = sent \cup {Msg("EpisodeDiscard", next_episode_index)}
      BY <2>0, <3>1, <3>2, <3>3, <3>5, DidAfter DEF StreamOf
    <3> QED
      BY <3>1, <3>4, <3>5
  <2> QED
    BY <2>1, <2>2, <2>3, <2>4, QuietStep
<1>2. ring'["assembler.control"] \in Seq(sent')
  <2> DEFINE q == ring["assembler.control"]
             u == ring'["assembler.control"]
  <2>1. q \in Seq(sent) /\ Len(q) <= BufferSize
    BY PortTypes DEF Streamed, Typed, BusTyped, ControlPort
  <2>2. CASE (u = q \/ u = <<>>) /\ UNCHANGED sent
    BY <2>1, <2>2, EmptySeq
  <2>3. CASE UNCHANGED sent /\ u = Tail(q) /\ q # <<>>
    BY <2>1, <2>3, HeadTailProperties
  <2>4. ASSUME NEW m, sent' = sent \cup {m}, u = Send(q, m)
        PROVE  u \in Seq(sent')
    <3>1. q \in Seq(sent') /\ m \in sent'
      BY <2>1, <2>4, SeqMonotonic
    <3> HIDE DEF q, u
    <3>2. Send(q, m) \in Seq(sent')
      BY <2>1, <3>1, SendNames
    <3> QED
      BY <2>4, <3>2
  <2> QED
    BY <2>2, <2>3, <2>4, ControlRingStep DEF ControlRingEffect
<1> QED
  BY <1>1, <1>2 DEF Streamed

(* Only published control events reach the assembler, and they tell the same *)
(* story as the controller's state.                                          *)
LEMMA StreamIsWellFormed == Spec => []Streamed
BY InitStreamed, StreamedStep, Typing, PTL DEF Spec

-----------------------------------------------------------------------------
(* Custody. *)

(* An episode that leaves the places it may be in, or moves to one of them  *)
(* while it leaves all others, keeps the places apart.                      *)
LEMMA StaysApart ==
  ASSUME NEW P, NEW Q, Apart(P), \A i \in 1 .. 8 : Q[i] \subseteq P[i]
  PROVE  Apart(Q)
BY DEF Apart

(* A move from one place to another. *)
LEMMA MovesApart ==
  ASSUME NEW P, NEW Q, Apart(P), NEW k \in 1 .. 8, NEW l \in 1 .. 8, NEW e \in P[k],
         e \notin Q[k], Q[l] \subseteq P[l] \cup {e},
         \A i \in 1 .. 8 : i # l => Q[i] \subseteq P[i]
  PROVE  Apart(Q)
BY DEF Apart

(* An arrival of something that is nowhere yet. *)
LEMMA ArrivesApart ==
  ASSUME NEW P, NEW Q, Apart(P), NEW l \in 1 .. 8, NEW e,
         \A i \in 1 .. 8 : e \notin P[i],
         Q[l] \subseteq P[l] \cup {e},
         \A i \in 1 .. 8 : i # l => Q[i] \subseteq P[i]
  PROVE  Apart(Q)
BY DEF Apart

(* What a step does to the ring on which storage hears of ready episodes. *)
ReadyRingEffect ==
  LET q == ring["storage.ready"]
      u == ring'["storage.ready"]
  IN  \/ u = q /\ ~OnStaged /\ ~OnEpisodeReady
      \/ u = <<>> /\ ~OnStaged /\ ~OnEpisodeReady
      \/ OnStaged /\ u = Send(q, Msg("EpisodeReady", Head(stageEventQ).episode_index))
      \/ OnEpisodeReady /\ u = Tail(q) /\ q # <<>>

(* Only the assembler adds to it and only storage reads it. *)
LEMMA ReadyRingStep ==
  ASSUME Typed, [Next]_vars
  PROVE  ReadyRingEffect
<1> DEFINE sr == "storage.ready"
           q == ring[sr]
           u == ring'[sr]
<1>0. sr \in Port /\ BusTyped(ring)
  BY PortTypes DEF Typed
<1>1. CASE OnStaged
  <2>1. u = Send(q, Msg("EpisodeReady", Head(stageEventQ).episode_index))
    BY <1>0, <1>1 DEF OnStaged, Publish
  <2> QED
    BY <1>1, <2>1 DEF ReadyRingEffect
<1>2. CASE OnEpisodeReady
  BY <1>0, <1>2, ReceiveTyped DEF OnEpisodeReady, Waiting, ReadyRingEffect
<1>3. ASSUME u = q \/ u = <<>>, ~OnStaged, ~OnEpisodeReady PROVE ReadyRingEffect
  BY <1>3 DEF ReadyRingEffect
<1>4. ASSUME ~OnStaged, ~OnEpisodeReady PROVE u = q \/ u = <<>>
  <2>1. ASSUME UNCHANGED ring PROVE u = q \/ u = <<>>
    BY <2>1
  <2>2. ASSUME NEW p \in Port \ {sr}, Waiting(p), ring' = Receive(ring, p)
        PROVE  u = q \/ u = <<>>
    BY <1>0, <2>2, ReceiveTyped DEF Waiting
  <2>3. ASSUME NEW ports, sr \notin ports, NEW m, ring' = Publish(ring, ports, m)
        PROVE  u = q \/ u = <<>>
    BY <1>0, <2>3 DEF Publish
  <2>4. ASSUME NEW ports, ring' = Forget(ring, ports)
        PROVE  u = q \/ u = <<>>
    BY <1>0, <2>4, ForgetTyped
  <2>5. ASSUME PollHalt PROVE u = q \/ u = <<>>
    <3>1. Forget(ring, ControllerPort)[sr] = q
      BY <1>0, ForgetTyped DEF ControllerPort
    <3>2. u = Forget(ring, ControllerPort)[sr]
      BY <1>0, <2>5 DEF PollHalt, PublishControl, Publish, ControlPort
    <3> QED
      BY <3>1, <3>2
  <2>6. ASSUME StartEpisode \/ StopEpisode \/ KeepEpisode \/ DiscardEpisode
        PROVE  u = q \/ u = <<>>
    <3>1. Receive(ring, "controller.command")[sr] = q
      BY <1>0, <2>6, ReceiveTyped, PortTypes
      DEF StartEpisode, StopEpisode, KeepEpisode, DiscardEpisode, Commanded, Waiting
    <3>2. PICK m : ring' = Publish(Receive(ring, "controller.command"), ControlPort, m)
      BY <2>6 DEF StartEpisode, StopEpisode, KeepEpisode, DiscardEpisode, Transition,
                  PublishControl
    <3>3. u = Receive(ring, "controller.command")[sr]
      BY <1>0, <3>2 DEF Publish, ControlPort
    <3> QED
      BY <3>1, <3>3
  <2>7. ASSUME ControllerStep PROVE u = q \/ u = <<>>
    BY <2>1, <2>2, <2>6, <2>7, PortTypes
    DEF ControllerStep, Tick, PollContinue, ApplyBackpressure, BackpressureDrained, Drained,
        ApplyStored, StoredDrained, ApplyDropped, DroppedDrained, RefuseCommand, Commanded,
        CommandsDrained, StoredPort
  <2>8. ASSUME AssemblerStep PROVE u = q \/ u = <<>>
    <3>1. ASSUME NEW t, NEW e, Controlled(t, e) PROVE u = q \/ u = <<>>
      BY <2>2, <3>1, PortTypes DEF Controlled, ControlPort
    <3>2. ASSUME NEW e \in Episode,
                 DropFailed(e) \/ DropTimedOut(e) \/ DropNoSlot(e) \/ SweepStaleSlot(e)
          PROVE  u = q \/ u = <<>>
      <4>1. PICK b \in BOOLEAN : PublishDrop(e, b)
        BY <3>2 DEF DropFailed, DropTimedOut, DropNoSlot, DropEpisode, SweepStaleSlot
      <4> QED
        BY <1>0, <4>1, PublishDropTyped
    <3> QED
      BY <1>4, <2>1, <2>2, <2>4, <2>8, <3>1, <3>2, PortTypes
      DEF AssemblerStep, AssemblerLoop, OnRecordingStart, OnRecordingStop, OnEpisodeKeep,
          OnEpisodeDiscard, OnShutdown, Dispatch, OnPacket, ControlDrained,
          AdvanceAssembler, DispatchDone, ReleaseSlot, SlotsReleased, OnStageError,
          OnStageShutdown, LoopAgain, StoredPort
  <2>9. ASSUME StorageStep PROVE u = q \/ u = <<>>
    <3>1. sr \notin StoredPort
      BY DEF StoredPort
    <3> QED
      BY <1>4, <2>1, <2>2, <2>3, <2>4, <2>9, <3>1, PortTypes
      DEF StorageStep, StorageLoop, OnStored, OnStoreError, OnStoreShutdown,
          StoreEventsDrained, AdvanceStorage, OnStorageControl, ReadyDrained, ControlPort
  <2>10. ASSUME StagerStep \/ StorerStep \/ AllGone PROVE u = q \/ u = <<>>
    BY <2>1, <2>10
    DEF StagerStep, StagerNext, StageOk, StageFails, StageShutdown, TakeStageCommand,
        StorerStep, EndStore, StorerStarts, BeginStore, FailStore, StorerShutdown, AllGone
  <2>11. ASSUME NEW c \in EpisodeCommand, UserCommand(c) PROVE u = q \/ u = <<>>
    BY <2>3, <2>11 DEF UserCommand
  <2> QED
    BY <2>1, <2>4, <2>5, <2>7, <2>8, <2>9, <2>10, <2>11
    DEF Next, vars, Halt, Finished, KillAssembler, AssemblerKilled, KillStorage,
        StorageKilled
<1> QED
  BY <1>1, <1>2, <1>3, <1>4

(* What a step may do to the places: nothing new anywhere, a new episode     *)
(* that arrives, or one that moves to the next place.  Dispatching takes a   *)
(* keep request and a slot, staging makes the directory.                     *)
Loses == \A i \in 1 .. 8 : Place'[i] \subseteq Place[i]

Arrives(e) ==
  /\ Place'[1] \subseteq Place[1] \cup {e}
  /\ \A i \in 2 .. 8 : Place'[i] \subseteq Place[i]

Moves(k, e) ==
  /\ e \in Place[k] /\ e \notin Place'[k]
  /\ Place'[k + 1] \subseteq Place[k + 1] \cup {e}
  /\ \A i \in 1 .. 8 : i # k + 1 => Place'[i] \subseteq Place[i]

PlacesEffect ==
  \/ Loses
  \/ StartEpisode /\ Arrives(next_episode_index)
  \/ \E k \in 1 .. 7, e \in Episode :
       /\ Moves(k, e)
       /\ k = 2 => e \in keep_requested /\ e \in in_flight'
       /\ k = 3 => e \in staging'

(* A queue whose head was taken is another queue. *)
LEMMA TailDiffers ==
  ASSUME NEW S, NEW q \in Seq(S), q # <<>>
  PROVE  Tail(q) # q
<1> DEFINE b == Tail(q)
<1>1. Len(b) = Len(q) - 1 /\ Len(q) \in Nat
  BY HeadTailProperties, LenProperties
<1> HIDE DEF b
<1>2. b # q
  BY <1>1
<1> QED
  BY <1>2 DEF b

(* The control ring keeps naming an episode once, and names a new one only *)
(* when the controller starts it.                                          *)
LEMMA ArrivingStep ==
  ASSUME Typed, Streamed, Custody, [Next]_vars
  PROVE  /\ Once(ring'["assembler.control"], "RecordingStart")
         /\ ~StartEpisode => Arriving' \subseteq Arriving
         /\ StartEpisode =>
              /\ Arriving' \subseteq Arriving \cup {next_episode_index}
              /\ \A i \in 1 .. 8 : next_episode_index \notin Place[i]
         /\ \A e : OnRecordingStart(e) => e \in Arriving /\ e \notin Arriving'
<1> DEFINE rs == "RecordingStart"
           q == ring["assembler.control"]
           u == ring'["assembler.control"]
           C == Carried("assembler.control")
<1>1. /\ q \in Seq(C) /\ Len(q) <= BufferSize
      /\ Once(q, rs) /\ Arriving = Named(q, rs) /\ Arriving' = Named(u, rs)
      /\ "assembler.control" \in Port /\ TypesAt("assembler.control") = ControlEventType
  BY PortTypes DEF Typed, BusTyped, Custody, QueuedOnce, Arriving, ControlPort
<1>2. StartEpisode => \A i \in 1 .. 8 : next_episode_index \notin Place[i]
  <2> SUFFICES ASSUME StartEpisode, NEW i \in 1 .. 8, next_episode_index \in Place[i]
               PROVE  FALSE
    OBVIOUS
  <2>1. state = "Idle" /\ next_episode_index \in Episode
    BY TransitionEffect
  <2>2. Did("RecordingStart", next_episode_index)
    BY DEF Custody, Sent
  <2> QED
    BY <2>1, <2>2 DEF Streamed, StreamOf, Typed, TypeOK, Episode
<1>3. StartEpisode => next_episode_index \notin Named(q, rs)
  BY <1>1, <1>2 DEF Place
<1>4. ASSUME NEW e, OnRecordingStart(e)
      PROVE  /\ u = Tail(q) /\ q # <<>>
             /\ Head(q).type = rs /\ Head(q).episode_index = e
  BY <1>1, <1>4, ReceiveTyped DEF OnRecordingStart, Controlled, Waiting, Msg, Typed
<1> HIDE DEF q, u, C
<1>5. ASSUME u = q \/ u = <<>>
      PROVE  Named(u, rs) \subseteq Named(q, rs) /\ Once(u, rs)
  BY <1>1, <1>5 DEF Named, Once
<1>6. ASSUME u = Tail(q), q # <<>>
      PROVE  /\ Named(u, rs) \subseteq Named(q, rs) /\ Once(u, rs)
             /\ Head(q).type = rs =>
                  /\ Head(q).episode_index \in Named(q, rs)
                  /\ Head(q).episode_index \notin Named(u, rs)
  BY <1>1, <1>6, TailNames
<1>7. ASSUME NEW t \in ControlEventType, NEW e \in Episode, u = Send(q, Msg(t, e)),
             t = rs => StartEpisode /\ e = next_episode_index
      PROVE  /\ Once(u, rs)
             /\ Named(u, rs) \subseteq Named(q, rs) \cup {e}
             /\ t # rs => Named(u, rs) \subseteq Named(q, rs)
  <2>1. /\ Msg(t, e) \in C /\ Msg(t, e).type = t /\ Msg(t, e).episode_index = e
    BY <1>1, MsgCarried DEF Msg, C
  <2> QED
    BY <1>1, <1>3, <1>7, <2>1, SendNames
<1>8. /\ Once(u, rs)
      /\ ~StartEpisode => Named(u, rs) \subseteq Named(q, rs)
      /\ StartEpisode => Named(u, rs) \subseteq Named(q, rs) \cup {next_episode_index}
  BY <1>5, <1>6, <1>7, ControlRingStep DEF ControlRingEffect, q, u
<1>9. ASSUME NEW e, OnRecordingStart(e)
      PROVE  e \in Named(q, rs) /\ e \notin Named(u, rs)
  BY <1>4, <1>6, <1>9
<1> QED
  BY <1>1, <1>2, <1>8, <1>9 DEF q, u

(* The places are sets: no two of them share an episode. *)
LEMMA PlacesApart ==
  ASSUME Apart(Place), NEW e
  PROVE  /\ e \in episodes => e \notin ToStage
         /\ e \in ToStage => e \notin Staged
         /\ e \in Staged => e \notin Announced
         /\ e \in Announced => e \notin ToStore
         /\ e \in ToStore => e \notin output
         /\ e \in BeingStored => e \notin output
         /\ e \in Staged \cup Announced \cup ToStore \cup BeingStored => e \notin episodes
<1>1. \A i, j \in 1 .. 8 : i # j => Place[i] \cap Place[j] = {}
  BY DEF Apart
<1>2. /\ episodes \cap ToStage = {} /\ ToStage \cap Staged = {} /\ Staged \cap Announced = {}
      /\ Announced \cap ToStore = {} /\ ToStore \cap output = {}
      /\ BeingStored \cap output = {} /\ Staged \cap episodes = {}
      /\ Announced \cap episodes = {} /\ ToStore \cap episodes = {}
      /\ BeingStored \cap episodes = {}
  BY <1>1 DEF Place
<1> QED
  BY <1>2

(* The head of a channel is at the place of its queue. *)
LEMMA HeadPlaces ==
  ASSUME Typed
  PROVE  /\ stageQ # <<>> /\ Head(stageQ).type = "Stage" =>
              Head(stageQ).episode_index \in ToStage
         /\ stageEventQ # <<>> /\ Head(stageEventQ).type = "Staged" =>
              Head(stageEventQ).episode_index \in Staged
         /\ storeQ # <<>> /\ Head(storeQ).type = "Store" =>
              Head(storeQ).episode_index \in ToStore
BY TailNames DEF Typed, ToStage, Staged, ToStore

(* Storage's ring keeps naming an episode once, and names a new one only *)
(* when the assembler announces it.                                      *)
LEMMA AnnouncedStep ==
  ASSUME Typed, Custody, [Next]_vars
  PROVE  /\ Once(ring'["storage.ready"], "EpisodeReady")
         /\ ~OnStaged => Announced' \subseteq Announced
         /\ OnStaged => Announced' \subseteq Announced \cup {Head(stageEventQ).episode_index}
         /\ OnEpisodeReady =>
              /\ Head(ring["storage.ready"]).episode_index \in Announced
              /\ Head(ring["storage.ready"]).episode_index \notin Announced'
<1> DEFINE er == "EpisodeReady"
           q == ring["storage.ready"]
           u == ring'["storage.ready"]
           C == Carried("storage.ready")
           d == Head(stageEventQ).episode_index
<1>1. /\ q \in Seq(C) /\ Len(q) <= BufferSize
      /\ Once(q, er) /\ Announced = Named(q, er) /\ Announced' = Named(u, er)
      /\ "storage.ready" \in Port /\ TypesAt("storage.ready") = {er}
  BY PortTypes DEF Typed, BusTyped, Custody, QueuedOnce, Announced
<1>2. OnStaged => d \in Staged /\ d \in Episode
  BY HeadPlaces, ChannelHeads DEF OnStaged, TakeStageEvent
<1>3. OnStaged => d \notin Named(q, er)
  BY <1>1, <1>2, PlacesApart DEF Custody
<1>4. OnEpisodeReady => u = Tail(q) /\ q # <<>> /\ Head(q).type = er
  <2>1. OnEpisodeReady => Waiting("storage.ready") /\ ring' = Receive(ring, "storage.ready")
    BY DEF OnEpisodeReady
  <2> QED
    BY <1>1, <2>1, HeadCarried, ReceiveTyped DEF Waiting, Typed
<1> HIDE DEF q, u, C, d
<1>5. ASSUME u = q \/ u = <<>>
      PROVE  Named(u, er) \subseteq Named(q, er) /\ Once(u, er)
  BY <1>1, <1>5 DEF Named, Once
<1>6. ASSUME u = Tail(q), q # <<>>
      PROVE  /\ Named(u, er) \subseteq Named(q, er) /\ Once(u, er)
             /\ Head(q).type = er =>
                  /\ Head(q).episode_index \in Named(q, er)
                  /\ Head(q).episode_index \notin Named(u, er)
  BY <1>1, <1>6, TailNames
<1>7. ASSUME OnStaged, u = Send(q, Msg(er, d))
      PROVE  Once(u, er) /\ Named(u, er) \subseteq Named(q, er) \cup {d}
  <2>1. Msg(er, d) \in C /\ Msg(er, d).type = er /\ Msg(er, d).episode_index = d
    BY <1>1, <1>2, <1>7, MsgCarried DEF Msg, C
  <2> QED
    BY <1>1, <1>3, <1>7, <2>1, SendNames
<1>8. /\ Once(u, er)
      /\ ~OnStaged => Named(u, er) \subseteq Named(q, er)
      /\ OnStaged => Named(u, er) \subseteq Named(q, er) \cup {d}
  BY <1>5, <1>6, <1>7, ReadyRingStep DEF ReadyRingEffect, q, u, d
<1>9. OnEpisodeReady =>
        /\ Head(q).episode_index \in Named(q, er)
        /\ Head(q).episode_index \notin Named(u, er)
  BY <1>4, <1>6
<1> QED
  BY <1>1, <1>8, <1>9 DEF q, u, d

(* What custody needs of a step. *)
Moved == QueuedOnce' /\ PlacesEffect

(* A step that adds to no place. *)
LEMMA LosesIf ==
  ASSUME Arriving' \subseteq Arriving, episodes' \subseteq episodes,
         ToStage' \subseteq ToStage, Staged' \subseteq Staged,
         Announced' \subseteq Announced, ToStore' \subseteq ToStore,
         BeingStored' \subseteq BeingStored, output' \subseteq output
  PROVE  PlacesEffect
BY DEF PlacesEffect, Loses, Place

(* The places that a step leaves alone with the variables they are made of. *)
LEMMA SamePlaces ==
  ASSUME Custody
  PROVE  /\ UNCHANGED stageQ => ToStage' = ToStage /\ Once(stageQ', "Stage")
         /\ UNCHANGED stageEventQ => Staged' = Staged /\ Once(stageEventQ', "Staged")
         /\ UNCHANGED storeQ => ToStore' = ToStore /\ Once(storeQ', "Store")
         /\ UNCHANGED <<storer, storing>> => BeingStored' = BeingStored
BY DEF Custody, QueuedOnce, ToStage, Staged, ToStore, BeingStored

(* What is known of the workers' channels. *)
LEMMA Channels ==
  ASSUME Typed, Custody
  PROVE  /\ stageQ \in Seq(StageCommand) /\ Once(stageQ, "Stage")
         /\ ToStage = Named(stageQ, "Stage") /\ ToStage' = Named(stageQ', "Stage")
         /\ stageEventQ \in Seq(StageEvent) /\ Once(stageEventQ, "Staged")
         /\ Staged = Named(stageEventQ, "Staged") /\ Staged' = Named(stageEventQ', "Staged")
         /\ storeQ \in Seq(StoreCommand) /\ Once(storeQ, "Store")
         /\ ToStore = Named(storeQ, "Store") /\ ToStore' = Named(storeQ', "Store")
BY DEF Typed, Custody, QueuedOnce, ToStage, Staged, ToStore

(* A step of the controller: an episode arrives when it is started. *)
LEMMA ControllerCustody ==
  ASSUME Typed, Streamed, Custody, [Next]_vars, UNCHANGED <<assemblerVars, storageVars>>
  PROVE  Moved
<1>1. UNCHANGED <<episodes, stageQ, stageEventQ, storeQ, storer, storing, output>>
  BY DEF assemblerVars, manager, stagerVars, storageVars
<1>2. ~OnStaged
  <2>1. OnStaged => stageEventQ' = Tail(stageEventQ) /\ stageEventQ # <<>>
    BY DEF OnStaged, TakeStageEvent
  <2> QED
    BY <1>1, <2>1, TailDiffers DEF Typed
<1>3. QueuedOnce'
  BY <1>1, SamePlaces, ArrivingStep, AnnouncedStep DEF QueuedOnce
<1>4. CASE StartEpisode
  <2>1. Arrives(next_episode_index)
    BY <1>1, <1>2, <1>4, SamePlaces, ArrivingStep, AnnouncedStep DEF Arrives, Place
  <2> QED
    BY <1>3, <1>4, <2>1 DEF Moved, PlacesEffect
<1>5. CASE ~StartEpisode
  BY <1>1, <1>2, <1>3, <1>5, SamePlaces, ArrivingStep, AnnouncedStep, LosesIf DEF Moved
<1> QED
  BY <1>4, <1>5

(* No step of the other processes starts an episode. *)
LEMMA NotStarting ==
  ASSUME UNCHANGED controllerVars
  PROVE  ~StartEpisode
BY DEF controllerVars, lifecycle, StartEpisode, Transition

(* A step of the assembler's main loop: an episode enters the manager when its *)
(* start is read, leaves it when dispatched, and is announced when staged.     *)
LEMMA AssemblerCustody ==
  ASSUME Typed, Streamed, Custody, [Next]_vars, AssemblerStep
  PROVE  Moved
<1>0. /\ ~StartEpisode
      /\ UNCHANGED <<storeQ, storer, storing, output>>
  BY NotStarting DEF AssemblerStep, storageVars
<1>1. OnStaged \/ OnStageError \/ OnStageShutdown =>
        stageEventQ' = Tail(stageEventQ) /\ stageEventQ # <<>>
  BY DEF OnStaged, OnStageError, OnStageShutdown, TakeStageEvent
<1>2. UNCHANGED stageEventQ => ~OnStaged
  BY <1>1, TailDiffers DEF Typed
<1>3. CASE UNCHANGED <<stageQ, stageEventQ>> /\ episodes' \subseteq episodes
  BY <1>0, <1>2, <1>3, SamePlaces, ArrivingStep, AnnouncedStep, LosesIf
  DEF Moved, QueuedOnce
<1>4. ASSUME NEW e \in Episode, OnRecordingStart(e) PROVE Moved
  <2>1. UNCHANGED <<stageQ, stageEventQ>> /\ episodes' = episodes \cup {e}
    BY <1>4 DEF OnRecordingStart, Controlled, InsertEpisode
  <2>2. QueuedOnce'
    BY <1>0, <2>1, SamePlaces, ArrivingStep, AnnouncedStep DEF QueuedOnce
  <2>3. Moves(1, e)
    BY <1>0, <1>2, <1>4, <2>1, SamePlaces, ArrivingStep, AnnouncedStep DEF Moves, Place
  <2> QED
    BY <2>2, <2>3 DEF Moved, PlacesEffect
<1>5. ASSUME NEW e \in Episode, Dispatch(e) PROVE Moved
  <2>1. /\ e \in episodes /\ e \in keep_requested /\ e \in in_flight'
        /\ episodes' = episodes \ {e}
        /\ stageQ' = Append(stageQ, Msg("Stage", e)) /\ UNCHANGED stageEventQ
    BY <1>5 DEF Dispatch, FirstReady, Ready, KeptAndStopped, RemoveEpisode
  <2>2. Msg("Stage", e) \in StageCommand
    BY DEF Msg, StageCommand
  <2>3. ToStage' = ToStage \cup {e} /\ Once(stageQ', "Stage")
    <3>1. e \notin ToStage
      BY <2>1, PlacesApart DEF Custody
    <3>2. e \notin Named(stageQ, "Stage") /\ Once(stageQ, "Stage") /\ stageQ \in Seq(StageCommand)
      BY <3>1, Channels
    <3>3. Named(stageQ', "Stage") = Named(stageQ, "Stage") \cup {e} /\ Once(stageQ', "Stage")
      BY <2>1, <2>2, <3>2, AddsEpisode
    <3> QED
      BY <3>3, Channels
  <2>4. QueuedOnce'
    BY <1>0, <2>1, <2>3, SamePlaces, ArrivingStep, AnnouncedStep DEF QueuedOnce
  <2>5. Moves(2, e)
    BY <1>0, <1>2, <2>1, <2>3, SamePlaces, ArrivingStep, AnnouncedStep DEF Moves, Place
  <2> QED
    BY <2>1, <2>4, <2>5 DEF Moved, PlacesEffect
<1>6. CASE OnStaged \/ OnStageError \/ OnStageShutdown
  <2>1. UNCHANGED <<stageQ, episodes>>
    BY <1>6 DEF OnStaged, OnStageError, OnStageShutdown, TakeStageEvent, manager
  <2>2. /\ Staged' \subseteq Staged /\ Once(stageEventQ', "Staged")
        /\ Head(stageEventQ).type = "Staged" =>
             /\ Head(stageEventQ).episode_index \in Staged
             /\ Head(stageEventQ).episode_index \notin Staged'
    BY <1>1, <1>6, Channels, TakesHead
  <2>3. QueuedOnce'
    BY <1>0, <2>1, <2>2, SamePlaces, ArrivingStep, AnnouncedStep DEF QueuedOnce
  <2>4. CASE OnStaged
    <3> DEFINE e == Head(stageEventQ).episode_index
    <3>1. e \in Episode /\ e \in Staged /\ e \notin Staged'
      BY <2>2, <2>4, ChannelHeads DEF OnStaged, TakeStageEvent
    <3>2. Announced' \subseteq Announced \cup {e}
      BY <2>4, AnnouncedStep
    <3> HIDE DEF e
    <3>3. Moves(4, e)
      BY <1>0, <2>1, <2>2, <3>1, <3>2, SamePlaces, ArrivingStep DEF Moves, Place
    <3> QED
      BY <2>3, <3>1, <3>3 DEF Moved, PlacesEffect
  <2>5. CASE ~OnStaged
    BY <1>0, <2>1, <2>2, <2>3, <2>5, SamePlaces, ArrivingStep, AnnouncedStep, LosesIf
    DEF Moved
  <2> QED
    BY <2>4, <2>5
<1>7. CASE LoopAgain
  <2>1. UNCHANGED <<stageEventQ, episodes>>
    BY <1>7 DEF LoopAgain, manager
  <2>2. stageQ' = stageQ \/ stageQ' = Append(stageQ, Msg("Shutdown", 0))
    BY <1>7 DEF LoopAgain
  <2>3. Msg("Shutdown", 0) \in StageCommand /\ Msg("Shutdown", 0).type # "Stage"
    BY ZeroIsEpisode DEF Msg, StageCommand
  <2>4. ToStage' = ToStage /\ Once(stageQ', "Stage")
    BY <2>2, <2>3, Channels, AddsOther
  <2> QED
    BY <1>0, <1>2, <2>1, <2>4, SamePlaces, ArrivingStep, AnnouncedStep, LosesIf
    DEF Moved, QueuedOnce
<1> QED
  BY <1>3, <1>4, <1>5, <1>6, <1>7
  DEF AssemblerStep, AssemblerLoop, Controlled, OnRecordingStop, OnEpisodeKeep,
      OnEpisodeDiscard, DropFailed, DropTimedOut, DropNoSlot, DropEpisode, RemoveEpisode,
      OnPacket, SweepStaleSlot, OnShutdown, ControlDrained, AdvanceAssembler, DispatchDone,
      ReleaseSlot, SlotsReleased, manager, stagerVars

(* A step of the staging worker: a staged episode is reported, a failed one lost. *)
LEMMA StagerCustody ==
  ASSUME Typed, Streamed, Custody, [Next]_vars, StagerStep
  PROVE  Moved
<1> DEFINE e == Head(stageQ).episode_index
<1>0. /\ ~StartEpisode
      /\ UNCHANGED <<episodes, storeQ, storer, storing, output>>
      /\ stageQ # <<>> /\ stageQ' = Tail(stageQ)
  BY NotStarting
  DEF StagerStep, StagerNext, StageOk, StageFails, StageShutdown, TakeStageCommand,
      storageVars, manager
<1>1. ~OnStaged
  <2>1. OnStaged => UNCHANGED stageQ
    BY DEF OnStaged, TakeStageEvent
  <2> QED
    BY <1>0, <2>1, TailDiffers DEF Typed
<1>2. /\ ToStage' \subseteq ToStage /\ Once(stageQ', "Stage")
      /\ Head(stageQ).type = "Stage" => e \in ToStage /\ e \notin ToStage'
  BY <1>0, Channels, TakesHead
<1>3. e \in Episode
  BY <1>0, ChannelHeads
<1>4. CASE StageOk
  <2>1. /\ Head(stageQ).type = "Stage" /\ e \in staging'
        /\ stageEventQ' = Append(stageEventQ, Msg("Staged", e))
    BY <1>4 DEF StageOk, TakeStageCommand
  <2> HIDE DEF e
  <2>2. Msg("Staged", e) \in StageEvent
    BY <1>3 DEF Msg, StageEvent
  <2>3. e \notin Staged
    BY <1>2, <2>1, PlacesApart DEF Custody
  <2>4. Staged' = Staged \cup {e} /\ Once(stageEventQ', "Staged")
    <3>1. /\ e \notin Named(stageEventQ, "Staged") /\ Once(stageEventQ, "Staged")
          /\ stageEventQ \in Seq(StageEvent)
      BY <2>3, Channels
    <3>2. /\ Named(stageEventQ', "Staged") = Named(stageEventQ, "Staged") \cup {e}
          /\ Once(stageEventQ', "Staged")
      BY <2>1, <2>2, <3>1, AddsEpisode
    <3> QED
      BY <3>2, Channels
  <2>5. QueuedOnce'
    BY <1>0, <1>2, <2>4, SamePlaces, ArrivingStep, AnnouncedStep DEF QueuedOnce
  <2>6. Moves(3, e)
    BY <1>0, <1>1, <1>2, <2>1, <2>4, SamePlaces, ArrivingStep, AnnouncedStep DEF Moves, Place
  <2> QED
    BY <1>3, <2>1, <2>5, <2>6 DEF Moved, PlacesEffect
<1>5. CASE StageFails \/ StageShutdown
  <2>1. PICK t \in {"Error", "ShutdownComplete"} :
          stageEventQ' = Append(stageEventQ, Msg(t, e))
    BY <1>5 DEF StageFails, StageShutdown, TakeStageCommand
  <2> DEFINE m == Msg(t, e)
  <2>2. m \in StageEvent /\ m.type # "Staged" /\ stageEventQ' = Append(stageEventQ, m)
    BY <1>3, <2>1 DEF Msg, StageEvent
  <2> HIDE DEF m, e
  <2>3. Staged' = Staged /\ Once(stageEventQ', "Staged")
    <3>1. stageEventQ \in Seq(StageEvent) /\ Once(stageEventQ, "Staged")
      BY Channels
    <3>2. \A u : u = Append(stageEventQ, m) =>
            Named(u, "Staged") = Named(stageEventQ, "Staged") /\ Once(u, "Staged")
      BY <2>2, <3>1, AddsOther, Zenon
    <3> QED
      BY <2>2, <3>2, Channels
  <2> QED
    BY <1>0, <1>1, <1>2, <2>3, SamePlaces, ArrivingStep, AnnouncedStep, LosesIf
    DEF Moved, QueuedOnce
<1> QED
  BY <1>4, <1>5 DEF StagerStep, StagerNext

(* A step of the storage process's main loop: a ready episode goes to the worker. *)
LEMMA StorageCustody ==
  ASSUME Typed, Streamed, Custody, [Next]_vars, StorageStep
  PROVE  Moved
<1>0. /\ ~StartEpisode
      /\ UNCHANGED <<episodes, stageQ, stageEventQ, storer, storing, output>>
  BY NotStarting
  DEF StorageStep, StorageLoop, OnStored, OnStoreError, OnStoreShutdown, StoreEventsDrained,
      AdvanceStorage, ReadyDrained, TakeStoreEvent, OnStorageControl, OnEpisodeReady,
      assemblerVars, manager, stagerVars
<1>1. ~OnStaged
  <2>1. OnStaged => stageEventQ' = Tail(stageEventQ) /\ stageEventQ # <<>>
    BY DEF OnStaged, TakeStageEvent
  <2> QED
    BY <1>0, <2>1, TailDiffers DEF Typed
<1>2. ASSUME ToStore' = ToStore, Once(storeQ', "Store") PROVE Moved
  BY <1>0, <1>1, <1>2, SamePlaces, ArrivingStep, AnnouncedStep, LosesIf
  DEF Moved, QueuedOnce
<1>3. CASE UNCHANGED storeQ
  BY <1>2, <1>3, SamePlaces
<1>4. CASE OnEpisodeReady
  <2> DEFINE e == Head(ring["storage.ready"]).episode_index
  <2>1. e \in Announced /\ e \notin Announced'
    BY <1>4, AnnouncedStep
  <2>2. e \in Episode
    BY <1>4, HeadCarried, PortTypes DEF OnEpisodeReady, Typed
  <2>3. UNCHANGED storeQ \/ storeQ' = Append(storeQ, Msg("Store", e))
    BY <1>4 DEF OnEpisodeReady, SendToWorker
  <2> HIDE DEF e
  <2>4. CASE storeQ' = Append(storeQ, Msg("Store", e))
    <3>1. Msg("Store", e) \in StoreCommand
      BY <2>2 DEF Msg, StoreCommand
    <3>2. e \notin Named(storeQ, "Store") /\ Once(storeQ, "Store") /\ storeQ \in Seq(StoreCommand)
      BY <2>1, Channels, PlacesApart DEF Custody
    <3>3. Named(storeQ', "Store") = Named(storeQ, "Store") \cup {e} /\ Once(storeQ', "Store")
      BY <2>4, <3>1, <3>2, AddsEpisode
    <3>4. QueuedOnce'
      BY <1>0, <3>3, SamePlaces, ArrivingStep, AnnouncedStep DEF QueuedOnce
    <3>5. Moves(5, e)
      BY <1>0, <1>1, <2>1, <3>3, Channels, SamePlaces, ArrivingStep, AnnouncedStep
      DEF Moves, Place
    <3> QED
      BY <2>2, <3>4, <3>5 DEF Moved, PlacesEffect
  <2> QED
    BY <1>3, <2>3, <2>4
<1>5. CASE OnStorageControl
  <2>1. UNCHANGED storeQ \/ storeQ' = Append(storeQ, Msg("Shutdown", 0))
    BY <1>5 DEF OnStorageControl, SendToWorker
  <2>2. Msg("Shutdown", 0) \in StoreCommand /\ Msg("Shutdown", 0).type # "Store"
    BY ZeroIsEpisode DEF Msg, StoreCommand
  <2>3. CASE storeQ' = Append(storeQ, Msg("Shutdown", 0))
    <3> DEFINE m == Msg("Shutdown", 0)
    <3>0. m \in StoreCommand /\ m.type # "Store" /\ storeQ' = Append(storeQ, m)
      BY <2>2, <2>3
    <3> HIDE DEF m
    <3>1. storeQ \in Seq(StoreCommand) /\ Once(storeQ, "Store")
      BY Channels
    <3>2. \A u : u = Append(storeQ, m) =>
            Named(u, "Store") = Named(storeQ, "Store") /\ Once(u, "Store")
      BY <3>0, <3>1, AddsOther, Zenon
    <3> QED
      BY <1>2, <3>0, <3>2, Channels
  <2> QED
    BY <1>3, <2>1, <2>3
<1> QED
  BY <1>3, <1>4, <1>5
  DEF StorageStep, StorageLoop, OnStored, OnStoreError, OnStoreShutdown, StoreEventsDrained,
      AdvanceStorage, ReadyDrained, TakeStoreEvent

(* A step of the storage worker: an episode is taken up, and its files are   *)
(* moved, all of them or, when the store fails, perhaps.                     *)
LEMMA StorerCustody ==
  ASSUME Typed, Streamed, Custody, [Next]_vars, StorerStep
  PROVE  Moved
<1>0. ~StartEpisode /\ UNCHANGED <<episodes, stageQ, stageEventQ>>
  BY NotStarting DEF StorerStep, assemblerVars, manager, stagerVars
<1>1. ~OnStaged
  <2>1. OnStaged => stageEventQ' = Tail(stageEventQ) /\ stageEventQ # <<>>
    BY DEF OnStaged, TakeStageEvent
  <2> QED
    BY <1>0, <2>1, TailDiffers DEF Typed
<1>2. CASE StorerStarts \/ StorerShutdown
  <2>1. UNCHANGED output /\ BeingStored' \subseteq BeingStored
    BY <1>2 DEF StorerStarts, StorerShutdown, BeingStored
  <2>2. UNCHANGED storeQ \/ (storeQ' = Tail(storeQ) /\ storeQ # <<>>)
    BY <1>2 DEF StorerStarts, StorerShutdown
  <2>3. ToStore' \subseteq ToStore /\ Once(storeQ', "Store")
    BY <2>2, Channels, TakesHead, SamePlaces
  <2> QED
    BY <1>0, <1>1, <2>1, <2>3, SamePlaces, ArrivingStep, AnnouncedStep, LosesIf
    DEF Moved, QueuedOnce
<1>3. CASE BeginStore
  <2> DEFINE e == Head(storeQ).episode_index
  <2>1. /\ storeQ # <<>> /\ storeQ' = Tail(storeQ) /\ Head(storeQ).type = "Store"
        /\ output' \subseteq output /\ BeingStored' = {e}
    BY <1>3 DEF BeginStore, BeingStored
  <2>2. e \in Episode
    BY <2>1, ChannelHeads
  <2>3. /\ ToStore' \subseteq ToStore /\ Once(storeQ', "Store")
        /\ e \in ToStore /\ e \notin ToStore'
    BY <2>1, Channels, TakesHead
  <2> HIDE DEF e
  <2>4. QueuedOnce'
    BY <1>0, <2>3, SamePlaces, ArrivingStep, AnnouncedStep DEF QueuedOnce
  <2>5. Moves(6, e)
    BY <1>0, <1>1, <2>1, <2>3, SamePlaces, ArrivingStep, AnnouncedStep DEF Moves, Place
  <2> QED
    BY <2>2, <2>4, <2>5 DEF Moved, PlacesEffect
<1>4. CASE \E b \in BOOLEAN : EndStore(b) \/ FailStore(b)
  <2>1. /\ UNCHANGED storeQ
        /\ BeingStored = {storing} /\ BeingStored' = {}
        /\ output' \subseteq output \cup {storing}
    BY <1>4 DEF EndStore, FailStore, Arrived, BeingStored
  <2>2. storing \in Episode
    BY DEF Typed, TypeOK
  <2>3. QueuedOnce'
    BY <1>0, <2>1, SamePlaces, ArrivingStep, AnnouncedStep DEF QueuedOnce
  <2>4. Moves(7, storing)
    BY <1>0, <1>1, <2>1, SamePlaces, ArrivingStep, AnnouncedStep DEF Moves, Place
  <2> QED
    BY <2>2, <2>3, <2>4 DEF Moved, PlacesEffect
<1>5. (storing \in staging) \in BOOLEAN
  OBVIOUS
<1> QED
  BY <1>2, <1>3, <1>4, <1>5 DEF StorerStep

(* A kill loses what the process held. *)
LEMMA KillCustody ==
  ASSUME Typed, Streamed, Custody, [Next]_vars, KillAssembler \/ KillStorage
  PROVE  Moved
<1>1. ~StartEpisode
  BY NotStarting DEF KillAssembler, KillStorage
<1>2. \A t : Named(<<>>, t) = {} /\ Once(<<>>, t)
  BY DEF Named, Once
<1>3. CASE KillAssembler
  <2>1. ~OnStaged
    BY <1>3 DEF KillAssembler, AssemblerKilled, OnStaged, TakeStageEvent
  <2>2. /\ episodes' = {} /\ stageQ' = <<>> /\ stageEventQ' = <<>>
        /\ UNCHANGED <<storeQ, storer, storing, output>>
    BY <1>3 DEF KillAssembler, AssemblerKilled, storageVars
  <2> QED
    BY <1>1, <1>2, <2>1, <2>2, Channels, SamePlaces, ArrivingStep, AnnouncedStep, LosesIf
    DEF Moved, QueuedOnce
<1>4. CASE KillStorage
  <2>1. UNCHANGED <<episodes, stageQ, stageEventQ, output>> /\ storeQ' = <<>>
    BY <1>4 DEF KillStorage, StorageKilled, assemblerVars, manager, stagerVars
  <2>2. ~OnStaged
    <3>1. OnStaged => stageEventQ' = Tail(stageEventQ) /\ stageEventQ # <<>>
      BY DEF OnStaged, TakeStageEvent
    <3> QED
      BY <2>1, <3>1, TailDiffers DEF Typed
  <2>3. BeingStored' = {}
    BY <1>4 DEF KillStorage, StorageKilled, BeingStored
  <2> QED
    BY <1>1, <1>2, <2>1, <2>2, <2>3, Channels, SamePlaces, ArrivingStep, AnnouncedStep,
       LosesIf
    DEF Moved, QueuedOnce
<1> QED
  BY <1>3, <1>4

(* Every step moves episodes along, or loses them. *)
LEMMA MovedStep ==
  ASSUME Typed, Streamed, Custody, [Next]_vars
  PROVE  Moved
<1>1. CASE UNCHANGED <<assemblerVars, storageVars>>
  BY <1>1, ControllerCustody
<1> QED
  BY <1>1, AssemblerCustody, StagerCustody, StorageCustody, StorerCustody, KillCustody
  DEF Next, vars, UserCommand, ControllerStep, Halt, AllGone, Finished

(* Nothing is published twice and nothing unpublished. *)
LEMMA SentGrows ==
  ASSUME Typed, [Next]_vars
  PROVE  sent \subseteq sent' /\ \A t : Sent(t) \subseteq Sent(t)'
<1>1. sent \subseteq sent'
  BY QuietStep, TransitionEffect
<1> QED
  BY <1>1 DEF Sent, Did

(* The initial state: no episode is anywhere. *)
LEMMA InitCustody == Init => Custody
<1> SUFFICES ASSUME Init PROVE Custody
  OBVIOUS
<1>1. /\ ring["assembler.control"] = <<>> /\ ring["storage.ready"] = <<>>
      /\ stageQ = <<>> /\ stageEventQ = <<>> /\ storeQ = <<>>
      /\ episodes = {} /\ output = {} /\ storer # "storing"
  BY PortTypes DEF Init, BusInit, ControlPort, AssemblerInit, StorageInit
<1>2. \A t : Named(<<>>, t) = {} /\ Once(<<>>, t)
  BY DEF Named, Once
<1>3. QueuedOnce
  BY <1>1, <1>2 DEF QueuedOnce
<1>4. \A i \in 1 .. 8 : Place[i] = {}
  BY <1>1, <1>2 DEF Place, Arriving, ToStage, Staged, Announced, ToStore, BeingStored
<1> QED
  BY <1>3, <1>4 DEF Custody, Apart

(* Custody is inductive: a place gains an episode only from the place before *)
(* it, and the first place gains it once.                                    *)
LEMMA CustodyStep == Typed /\ Streamed /\ Custody /\ [Next]_vars => Custody'
<1> SUFFICES ASSUME Typed, Streamed, Custody, [Next]_vars PROVE Custody'
  OBVIOUS
<1> DEFINE P == Place
           Q == Place'
           S == Sent("RecordingStart")
           T == Sent("RecordingStart")'
<1>1. QueuedOnce' /\ PlacesEffect
  BY MovedStep DEF Moved
<1>2. Apart(P) /\ \A i \in 1 .. 8 : P[i] \subseteq S
  BY DEF Custody
<1>3. S \subseteq T
  BY SentGrows
<1>4. StartEpisode => /\ next_episode_index \in T
                      /\ \A i \in 1 .. 8 : next_episode_index \notin P[i]
  <2>1. StartEpisode => next_episode_index \in T
    BY TransitionEffect DEF Sent, Did
  <2> QED
    BY <2>1, ArrivingStep
<1>5. /\ Loses <=> \A i \in 1 .. 8 : Q[i] \subseteq P[i]
      /\ \A e : Arrives(e) <=> /\ Q[1] \subseteq P[1] \cup {e}
                               /\ \A i \in 2 .. 8 : Q[i] \subseteq P[i]
      /\ \A k, e : Moves(k, e) <=>
           /\ e \in P[k] /\ e \notin Q[k]
           /\ Q[k + 1] \subseteq P[k + 1] \cup {e}
           /\ \A i \in 1 .. 8 : i # k + 1 => Q[i] \subseteq P[i]
  BY DEF Loses, Arrives, Moves
<1> HIDE DEF P, Q, S, T
<1>6. Apart(Q) /\ \A i \in 1 .. 8 : Q[i] \subseteq T
  <2>1. CASE Loses
    BY <1>2, <1>3, <1>5, <2>1, StaysApart
  <2>2. CASE StartEpisode /\ Arrives(next_episode_index)
    <3>0. /\ 1 \in 1 .. 8 /\ Q[1] \subseteq P[1] \cup {next_episode_index}
          /\ \A i \in 1 .. 8 : i # 1 => Q[i] \subseteq P[i]
          /\ \A i \in 1 .. 8 : next_episode_index \notin P[i]
      BY <1>4, <1>5, <2>2
    <3>1. Apart(Q)
      BY <1>2, <3>0, ArrivesApart
    <3> QED
      BY <1>2, <1>3, <1>4, <1>5, <2>2, <3>1
  <2>3. ASSUME NEW k \in 1 .. 7, NEW e, Moves(k, e)
        PROVE  Apart(Q) /\ \A i \in 1 .. 8 : Q[i] \subseteq T
    <3>0. k \in 1 .. 8 /\ k + 1 \in 1 .. 8
      BY <2>3
    <3>1. e \in P[k]
      BY <1>5, <2>3
    <3>2. e \in S
      BY <1>2, <3>0, <3>1
    <3>3. Apart(Q)
      <4> DEFINE l == k + 1
      <4>1. /\ l \in 1 .. 8 /\ e \notin Q[k] /\ Q[l] \subseteq P[l] \cup {e}
            /\ \A i \in 1 .. 8 : i # l => Q[i] \subseteq P[i]
        BY <1>5, <2>3, <3>0
      <4> HIDE DEF l
      <4> QED
        BY <1>2, <3>0, <3>1, <4>1, MovesApart
    <3> QED
      BY <1>2, <1>3, <1>5, <2>3, <3>0, <3>2, <3>3
  <2> QED
    BY <1>1, <2>1, <2>2, <2>3 DEF PlacesEffect
<1> QED
  BY <1>1, <1>6 DEF Custody, Q, T

(* The keep requests on record were published. *)
LEMMA KeepRequestStep ==
  ASSUME Typed, Streamed, KeptOnly, [Next]_vars
  PROVE  keep_requested' \subseteq Kept'
<1>1. Kept \subseteq Kept'
  BY SentGrows DEF Kept
<1>2. ASSUME NEW e \in Episode, OnEpisodeKeep(e)
      PROVE  keep_requested' \subseteq Kept'
  <2>1. /\ keep_requested' \subseteq keep_requested \cup {e}
        /\ ring["assembler.control"] # <<>>
        /\ Head(ring["assembler.control"]) = Msg("EpisodeKeep", e)
    BY <1>2 DEF OnEpisodeKeep, Controlled, Waiting
  <2>2. Head(ring["assembler.control"]) \in sent
    BY <2>1, HeadTailProperties DEF Streamed
  <2>3. e \in Kept
    BY <2>1, <2>2 DEF Kept, Sent, Did
  <2> QED
    BY <1>1, <2>1, <2>3 DEF KeptOnly
<1>3. CASE keep_requested' \subseteq keep_requested
  BY <1>1, <1>3 DEF KeptOnly
<1> QED
  BY <1>2, <1>3
  DEF Next, vars, assemblerVars, manager, UserCommand, ControllerStep, Halt, AssemblerStep,
      AssemblerLoop, OnRecordingStart, InsertEpisode, OnRecordingStop,
      OnEpisodeDiscard, RemoveEpisode, DropFailed, DropTimedOut, DropNoSlot, DropEpisode,
      OnPacket, Dispatch, SweepStaleSlot, OnShutdown, ControlDrained, AdvanceAssembler,
      DispatchDone, ReleaseSlot, SlotsReleased, OnStaged, OnStageError, OnStageShutdown,
      TakeStageEvent, LoopAgain, StagerStep, StagerNext, StageOk, StageFails,
      StageShutdown, TakeStageCommand, StorageStep, StorerStep, KillAssembler,
      AssemblerKilled, KillStorage, AllGone, Finished

(* Directories and counts are the kept episodes' own. *)
LEMMA StagingKeptStep ==
  ASSUME Typed, Streamed, Custody, KeptOnly, StoredMeansOutput, [Next]_vars
  PROVE  staging' \cup stored_episode_indices' \subseteq Kept'
<1>0. Kept \subseteq Kept'
  BY SentGrows DEF Kept
<1>1. Underway \cup staging \cup output \cup stored_episode_indices \subseteq Kept
  BY DEF KeptOnly, OnlyKeptLeavesAssembler
<1>2. staging' \subseteq Kept'
  <2>1. CASE staging' \subseteq staging
    BY <1>0, <1>1, <2>1
  <2>2. CASE StageOk
    <3>1. /\ staging' = staging \cup {Head(stageQ).episode_index}
          /\ Head(stageQ).episode_index \in ToStage
      BY <2>2, HeadPlaces DEF StageOk, TakeStageCommand
    <3> QED
      BY <1>0, <1>1, <3>1 DEF Underway
  <2>3. CASE StorerStep
    <3>1. staging' \subseteq staging \/ (staging' \subseteq staging \cup {storing} /\ storing \in staging)
      BY <2>3 DEF StorerStep, EndStore, Leftover, assemblerVars, stagerVars
    <3> QED
      BY <1>0, <1>1, <3>1
  <2> QED
    BY <2>1, <2>2, <2>3
    DEF Next, vars, assemblerVars, stagerVars, UserCommand, ControllerStep, Halt,
        AssemblerStep, AssemblerLoop, OnRecordingStart, OnRecordingStop, OnEpisodeKeep,
        OnEpisodeDiscard, RemoveArtifacts, DropFailed, DropTimedOut, DropNoSlot,
        DropEpisode, OnPacket, Dispatch, SweepStaleSlot, OnShutdown, ControlDrained,
        AdvanceAssembler, DispatchDone, ReleaseSlot, SlotsReleased, OnStaged,
        OnStageError, OnStageShutdown, TakeStageEvent, LoopAgain, StagerStep, StagerNext,
        StageFails, StageShutdown, StorageStep, KillAssembler, AssemblerKilled,
        KillStorage, AllGone, Finished
<1>3. stored_episode_indices' \subseteq Kept'
  <2>1. CASE UNCHANGED stored_episode_indices
    BY <1>0, <1>1, <2>1
  <2>2. CASE ApplyStored
    <3> DEFINE e == Head(ring["controller.stored"]).episode_index
    <3>1. stored_episode_indices' \subseteq stored_episode_indices \cup {e}
      BY <2>2 DEF ApplyStored
    <3>2. e \in Named(ring["controller.stored"], "EpisodeStored")
      <4>1. /\ "controller.stored" \in Port
            /\ TypesAt("controller.stored") = {"EpisodeStored"}
        BY PortTypes DEF StoredPort
      <4>2. /\ Waiting("controller.stored") /\ ring["controller.stored"] # <<>>
            /\ ring["controller.stored"] \in Seq(Carried("controller.stored"))
        BY <2>2, <4>1 DEF ApplyStored, Waiting, Typed, BusTyped
      <4>3. Head(ring["controller.stored"]).type = "EpisodeStored"
        BY <4>1, <4>2, HeadCarried DEF Typed
      <4> QED
        BY <4>2, <4>3, TailNames
    <3>3. e \in output
      BY <3>2 DEF StoredMeansOutput
    <3> QED
      BY <1>0, <1>1, <3>1, <3>3
  <2> QED
    BY <2>1, <2>2
    DEF Next, vars, controllerVars, lifecycle, UserCommand, ControllerStep, Tick,
        PollContinue, ApplyBackpressure, BackpressureDrained, Drained, StoredDrained,
        ApplyDropped, DroppedDrained, StartEpisode, StopEpisode, KeepEpisode,
        DiscardEpisode, RefuseCommand, Commanded, CommandsDrained, Halt, PollHalt,
        AssemblerStep, StagerStep, StorageStep, StorerStep, KillAssembler, KillStorage,
        AllGone, Finished
<1> QED
  BY <1>2, <1>3

(* Only what the user kept leaves the manager, in every step. *)
LEMMA KeptOnlyStep ==
  Typed /\ Streamed /\ Custody /\ KeptOnly /\ StoredMeansOutput /\ [Next]_vars => KeptOnly'
<1> SUFFICES ASSUME Typed, Streamed, Custody, KeptOnly, StoredMeansOutput, [Next]_vars
             PROVE  KeptOnly'
  OBVIOUS
<1>0. Kept \subseteq Kept'
  BY SentGrows DEF Kept
<1>1. /\ \A i \in 3 .. 8 : Place[i] \subseteq Kept
      /\ keep_requested \subseteq Kept
  BY DEF KeptOnly, OnlyKeptLeavesAssembler, Underway, Place
<1>2. \A i \in 3 .. 8 : Place'[i] \subseteq Kept'
  <2>1. CASE Loses
    BY <1>0, <1>1, <2>1 DEF Loses
  <2>2. ASSUME NEW e, Arrives(e)
        PROVE  \A i \in 3 .. 8 : Place'[i] \subseteq Kept'
    BY <1>0, <1>1, <2>2 DEF Arrives
  <2>3. ASSUME NEW k \in 1 .. 7, NEW e \in Episode, Moves(k, e), k = 2 => e \in keep_requested
        PROVE  \A i \in 3 .. 8 : Place'[i] \subseteq Kept'
    <3>1. k # 1 => e \in Kept
      BY <1>1, <2>3 DEF Moves
    <3>2. k = 1 => \A i \in 3 .. 8 : Place'[i] \subseteq Place[i]
      BY <2>3 DEF Moves
    <3>3. \A i \in 3 .. 8 : Place'[i] \subseteq Place[i] \cup {e}
      BY <2>3 DEF Moves
    <3> QED
      BY <1>0, <1>1, <3>1, <3>2, <3>3
  <2> QED
    BY <2>1, <2>2, <2>3, MovedStep DEF Moved, PlacesEffect
<1>3. Underway' \cup output' \subseteq Kept'
  BY <1>2 DEF Underway, Place
<1> QED
  BY <1>3, KeepRequestStep, StagingKeptStep DEF KeptOnly, OnlyKeptLeavesAssembler

-----------------------------------------------------------------------------
(* The directories. *)

(* A staging directory disappears only with an episode that is still in the  *)
(* manager, that fails to be staged, or that has been stored.                *)
LEMMA StagingStep ==
  ASSUME Typed, Custody, [Next]_vars
  PROVE  \/ staging \subseteq staging'
         \/ \E k \in {2, 3, 7} : \E e \in Place[k] :
              staging \ {e} \subseteq staging' /\ e \notin Place'[k]
<1> DEFINE Goal == \/ staging \subseteq staging'
                   \/ \E k \in {2, 3, 7} : \E e \in Place[k] :
                        staging \ {e} \subseteq staging' /\ e \notin Place'[k]
<1>1. ASSUME staging \subseteq staging' PROVE Goal
  BY <1>1
<1>2. ASSUME NEW e \in episodes, staging \ {e} \subseteq staging', episodes' = episodes \ {e}
      PROVE  Goal
  <2>1. e \in Place[2] /\ e \notin Place'[2]
    BY <1>2 DEF Place
  <2> QED
    BY <1>2, <2>1
<1>3. ASSUME StageFails PROVE Goal
  <2> DEFINE e == Head(stageQ).episode_index
  <2>1. /\ stageQ # <<>> /\ stageQ' = Tail(stageQ) /\ Head(stageQ).type = "Stage"
        /\ staging \ {e} \subseteq staging'
    BY <1>3 DEF StageFails, TakeStageCommand
  <2>2. e \in ToStage /\ e \notin ToStage'
    BY <2>1, Channels, TakesHead
  <2>3. e \in Place[3] /\ e \notin Place'[3]
    BY <2>2 DEF Place
  <2> QED
    BY <2>1, <2>3
<1>4. ASSUME EndStore(storing \in staging), staging \ {storing} \subseteq staging' PROVE Goal
  <2>1. storing \in BeingStored /\ BeingStored' = {}
    BY <1>4 DEF EndStore, BeingStored
  <2>2. storing \in Place[7] /\ storing \notin Place'[7]
    BY <2>1 DEF Place
  <2> QED
    BY <1>4, <2>2
<1> HIDE DEF Goal
<1>5. ASSUME NEW e \in Episode, OnEpisodeDiscard(e) PROVE Goal
  BY <1>1, <1>2, <1>5 DEF OnEpisodeDiscard, RemoveEpisode, RemoveArtifacts
<1>6. ASSUME NEW e \in Episode, DropFailed(e) \/ DropTimedOut(e) \/ DropNoSlot(e) PROVE Goal
  BY <1>2, <1>6
  DEF DropFailed, DropTimedOut, DropNoSlot, DropEpisode, Failed, AwaitsEos, FirstReady,
      Ready, KeptAndStopped, RemoveEpisode, RemoveArtifacts
<1>7. ASSUME StorerStep PROVE Goal
  BY <1>1, <1>4, <1>7 DEF StorerStep, assemblerVars, stagerVars
<1>8. Goal
  BY <1>1, <1>3, <1>5, <1>6, <1>7
  DEF Next, vars, assemblerVars, stagerVars, UserCommand, ControllerStep, Halt,
      AssemblerStep, AssemblerLoop, OnRecordingStart, OnRecordingStop, OnEpisodeKeep,
      OnPacket, Dispatch, SweepStaleSlot, OnShutdown, ControlDrained, AdvanceAssembler,
      DispatchDone, ReleaseSlot, SlotsReleased, OnStaged, OnStageError, OnStageShutdown,
      TakeStageEvent, LoopAgain, StagerStep, StagerNext, StageOk, StageShutdown,
      StorageStep, KillAssembler, AssemblerKilled, KillStorage, AllGone, Finished
<1> QED
  BY <1>8 DEF Goal

(* The directory of an episode on its way is there after every step. *)
LEMMA StagingDirStep ==
  Typed /\ Streamed /\ Custody /\ StagingDirPresent /\ [Next]_vars => StagingDirPresent'
<1> SUFFICES ASSUME Typed, Streamed, Custody, StagingDirPresent, [Next]_vars
             PROVE  StagingDirPresent'
  OBVIOUS
<1>1. \A i \in 4 .. 7 : Place[i] \subseteq staging
  BY DEF StagingDirPresent, Place
<1>2. ASSUME NEW i \in 4 .. 7, NEW x \in Place'[i] PROVE x \in staging'
  <2>1. x \in Place[i] \/ x \in staging' \/ \E k \in 4 .. 6 : x \in Place[k]
    <3>1. ASSUME NEW k \in 1 .. 7, NEW e \in Episode, Moves(k, e), k = 3 => e \in staging'
          PROVE  x \in Place[i] \/ x \in staging' \/ \E l \in 4 .. 6 : x \in Place[l]
      BY <3>1 DEF Moves
    <3> QED
      BY <3>1, MovedStep DEF Moved, PlacesEffect, Loses, Arrives
  <2>2. CASE staging \subseteq staging'
    BY <1>1, <2>1, <2>2
  <2>3. ASSUME NEW k \in {2, 3, 7}, NEW e \in Place[k],
               staging \ {e} \subseteq staging', e \notin Place'[k]
        PROVE  x \in staging'
    <3>1. \A l \in 4 .. 7 : l # k => e \notin Place[l]
      BY DEF Custody, Apart
    <3>2. x \in Place[i] => x # e
      BY <2>3, <3>1
    <3>3. \A l \in 4 .. 6 : x \in Place[l] => x # e
      BY <3>1
    <3> QED
      BY <1>1, <2>1, <2>3, <3>2, <3>3
  <2> QED
    BY <2>2, <2>3, StagingStep
<1> QED
  BY <1>2 DEF StagingDirPresent, Place

(* Nothing is ever removed from the output tree: storage/local clears the     *)
(* directory of an episode it is about to store, and that one is never there. *)
LEMMA OutputStep ==
  ASSUME Typed, Custody, [Next]_vars
  PROVE  /\ output' = output \/ (storing \in BeingStored /\ output' = output \cup {storing})
         /\ UNCHANGED output \/ StorerStep
<1>1. CASE StorerStep
  <2>1. CASE BeginStore
    <3>1. Head(storeQ).episode_index \in ToStore
      BY <2>1, HeadPlaces DEF BeginStore
    <3>2. Head(storeQ).episode_index \notin output
      BY <3>1, PlacesApart DEF Custody
    <3> QED
      BY <1>1, <2>1, <3>2 DEF BeginStore, Cleared
  <2>2. CASE ~BeginStore
    BY <1>1, <2>2
    DEF StorerStep, EndStore, StorerStarts, FailStore, StorerShutdown, Arrived, BeingStored
  <2> QED
    BY <2>1, <2>2
<1>2. CASE UNCHANGED output
  BY <1>2
<1> QED
  BY <1>1, <1>2
  DEF Next, vars, storageVars, UserCommand, ControllerStep, Halt, AssemblerStep,
      StagerStep, StorageStep, StorageLoop, OnStored, OnStoreError, OnStoreShutdown,
      TakeStoreEvent, StoreEventsDrained, AdvanceStorage, OnStorageControl, OnEpisodeReady,
      ReadyDrained, KillAssembler, KillStorage, StorageKilled, AllGone, Finished

(* A ring for stored notices gains the episode of an event of the storage worker. *)
LEMMA StoredRingStep ==
  ASSUME Typed, [Next]_vars, NEW p \in StoredPort
  PROVE  \/ Named(ring'[p], "EpisodeStored") \subseteq Named(ring[p], "EpisodeStored")
         \/ /\ OnStored
            /\ Named(ring'[p], "EpisodeStored")
                 \subseteq Named(ring[p], "EpisodeStored") \cup {Head(storeEventQ).episode_index}
<1> DEFINE es == "EpisodeStored"
           q == ring[p]
           u == ring'[p]
           Quiet == Named(u, es) \subseteq Named(q, es)
<1>0. /\ p \in Port /\ p \notin ControlPort /\ BusTyped(ring)
      /\ q \in Seq(Carried(p)) /\ Len(q) <= BufferSize
      /\ p \notin {"controller.command", "controller.backpressure", "controller.dropped",
                   "storage.ready"}
      /\ TypesAt(p) = {es}
  BY PortTypes DEF Typed, BusTyped, StoredPort, ControlPort
<1>1. ASSUME u = q \/ u = <<>> PROVE Quiet
  BY <1>1 DEF Named
<1>2. ASSUME NEW o \in Port, Waiting(o), ring' = Receive(ring, o)
      PROVE  Quiet
  <2>1. CASE o = p
    <3>1. u = Tail(q) /\ q # <<>>
      BY <1>0, <1>2, <2>1, ReceiveTyped DEF Waiting
    <3>2. Named(Tail(q), es) \subseteq Named(q, es)
      BY <1>0, <3>1, TailNames
    <3> QED
      BY <3>1, <3>2
  <2>2. CASE o # p
    BY <1>0, <1>1, <1>2, <2>2, ReceiveTyped DEF Waiting
  <2> QED
    BY <2>1, <2>2
<1>3. ASSUME NEW ports, p \notin ports, NEW m, ring' = Publish(ring, ports, m)
      PROVE  Quiet
  BY <1>0, <1>1, <1>3 DEF Publish
<1>4. ASSUME NEW ports, ring' = Forget(ring, ports)
      PROVE  Quiet
  BY <1>0, <1>1, <1>4, ForgetTyped
<1>5. ASSUME PollHalt PROVE Quiet
  <2>1. u = Forget(ring, ControllerPort)[p]
    BY <1>0, <1>5 DEF PollHalt, PublishControl, Publish
  <2>2. u = q \/ u = <<>>
    BY <1>0, <2>1, ForgetTyped
  <2> QED
    BY <1>1, <2>2
<1>6. ASSUME StartEpisode \/ StopEpisode \/ KeepEpisode \/ DiscardEpisode
      PROVE  Quiet
  <2>1. Receive(ring, "controller.command")[p] = q
    BY <1>0, <1>6, ReceiveTyped, PortTypes
    DEF StartEpisode, StopEpisode, KeepEpisode, DiscardEpisode, Commanded, Waiting
  <2>2. PICK m : ring' = Publish(Receive(ring, "controller.command"), ControlPort, m)
    BY <1>6 DEF StartEpisode, StopEpisode, KeepEpisode, DiscardEpisode, Transition,
                PublishControl
  <2>3. u = Receive(ring, "controller.command")[p]
    BY <1>0, <2>2 DEF Publish
  <2> QED
    BY <1>1, <2>1, <2>3
<1>7. ASSUME OnStored
      PROVE  Named(u, es) \subseteq Named(q, es) \cup {Head(storeEventQ).episode_index}
  <2> DEFINE e == Head(storeEventQ).episode_index
  <2>1. u = Send(q, Msg(es, e))
    BY <1>0, <1>7 DEF OnStored, Publish
  <2>2. e \in Episode
    BY <1>7, ChannelHeads DEF OnStored, TakeStoreEvent
  <2> HIDE DEF e
  <2>3. Msg(es, e) \in Carried(p) /\ Msg(es, e).episode_index = e
    BY <1>0, <2>2, MsgCarried DEF Msg
  <2> HIDE DEF q, u
  <2>4. Named(u, es) \subseteq Named(q, es) \cup {e}
    BY <1>0, <2>1, <2>3, SendNames
  <2> QED
    BY <2>4 DEF e
<1>8. ASSUME UNCHANGED ring PROVE Quiet
  BY <1>1, <1>8
<1> HIDE DEF Quiet
<1>9. ASSUME ControllerStep PROVE Quiet
  BY <1>2, <1>6, <1>8, <1>9, PortTypes
  DEF ControllerStep, Tick, PollContinue, ApplyBackpressure, BackpressureDrained, Drained,
      ApplyStored, StoredDrained, ApplyDropped, DroppedDrained, RefuseCommand, Commanded,
      CommandsDrained, StoredPort
<1>10. ASSUME AssemblerStep PROVE Quiet
  <2>1. ASSUME NEW t, NEW e, Controlled(t, e) PROVE Quiet
    BY <1>2, <2>1, PortTypes DEF Controlled, ControlPort
  <2>2. ASSUME NEW e \in Episode,
               DropFailed(e) \/ DropTimedOut(e) \/ DropNoSlot(e) \/ SweepStaleSlot(e)
        PROVE  Quiet
    <3>1. PICK b \in BOOLEAN : PublishDrop(e, b)
      BY <2>2 DEF DropFailed, DropTimedOut, DropNoSlot, DropEpisode, SweepStaleSlot
    <3> QED
      BY <1>0, <1>1, <3>1, PublishDropTyped
  <2>3. ASSUME OnStaged PROVE Quiet
    BY <1>0, <1>3, <2>3 DEF OnStaged
  <2> QED
    BY <1>2, <1>4, <1>8, <1>10, <2>1, <2>2, <2>3, PortTypes
    DEF AssemblerStep, AssemblerLoop, OnRecordingStart, OnRecordingStop, OnEpisodeKeep,
        OnEpisodeDiscard, OnShutdown, Dispatch, OnPacket, ControlDrained,
        AdvanceAssembler, DispatchDone, ReleaseSlot, SlotsReleased, OnStageError,
        OnStageShutdown, LoopAgain, StoredPort
<1>11. ASSUME StorageStep PROVE Quiet \/ OnStored
  BY <1>2, <1>4, <1>8, <1>11, PortTypes
  DEF StorageStep, StorageLoop, OnStoreError, OnStoreShutdown, StoreEventsDrained,
      AdvanceStorage, OnStorageControl, OnEpisodeReady, ReadyDrained, ControlPort
<1>12. ASSUME StagerStep \/ StorerStep \/ AllGone PROVE Quiet
  BY <1>8, <1>12
  DEF StagerStep, StagerNext, StageOk, StageFails, StageShutdown, TakeStageCommand,
      StorerStep, EndStore, StorerStarts, BeginStore, FailStore, StorerShutdown, AllGone
<1>13. ASSUME NEW c \in EpisodeCommand, UserCommand(c) PROVE Quiet
  BY <1>0, <1>3, <1>13 DEF UserCommand
<1>14. Quiet \/ OnStored
  BY <1>4, <1>5, <1>8, <1>9, <1>10, <1>11, <1>12, <1>13
  DEF Next, vars, Halt, Finished, KillAssembler, AssemblerKilled, KillStorage,
      StorageKilled
<1> QED
  BY <1>7, <1>14 DEF Quiet

(* The storage worker reports an episode stored when its files are all there. *)
LEMMA StoreEventStep ==
  ASSUME Typed, Custody, Directories, [Next]_vars
  PROVE  Named(storeEventQ', "Stored") \subseteq output'
<1> DEFINE st == "Stored"
<1>1. /\ storeEventQ \in Seq(StoreEvent) /\ Named(storeEventQ, st) \subseteq output
      /\ output \subseteq output'
  BY OutputStep DEF Typed, Directories
<1>2. ASSUME Named(storeEventQ', st) \subseteq Named(storeEventQ, st)
      PROVE  Named(storeEventQ', st) \subseteq output'
  BY <1>1, <1>2
<1>3. ASSUME storeEventQ # <<>>, storeEventQ' = Tail(storeEventQ)
      PROVE  Named(storeEventQ', st) \subseteq output'
  <2>1. Named(Tail(storeEventQ), st) \subseteq Named(storeEventQ, st)
    BY <1>1, <1>3, TailNames
  <2> QED
    BY <1>2, <1>3, <2>1
<1>4. ASSUME NEW t \in {"Error", "ShutdownComplete"}, NEW e \in Episode, Emit(t, e)
      PROVE  Named(storeEventQ', st) \subseteq output'
  <2> DEFINE m == Msg(t, e)
  <2>1. m \in StoreEvent /\ m.type # st /\ storeEventQ' = Append(storeEventQ, m)
    BY <1>4 DEF Msg, StoreEvent, Emit
  <2> HIDE DEF m
  <2>2. Named(Append(storeEventQ, m), st) = Named(storeEventQ, st)
    BY <1>1, <2>1, AppendNames
  <2> QED
    BY <1>2, <2>1, <2>2
<1>5. ASSUME EndStore(storing \in staging)
      PROVE  Named(storeEventQ', st) \subseteq output'
  <2> DEFINE m == Msg(st, storing)
  <2>1. /\ m \in StoreEvent /\ m.type = st /\ m.episode_index = storing
        /\ storeEventQ' = Append(storeEventQ, m) /\ storing \in output'
    BY <1>5 DEF Msg, StoreEvent, EndStore, Emit, Typed, TypeOK
  <2> HIDE DEF m
  <2>2. Named(Append(storeEventQ, m), st) = Named(storeEventQ, st) \cup {storing}
    BY <1>1, <2>1, AppendNames
  <2> QED
    BY <1>1, <2>1, <2>2
<1>6. ASSUME UNCHANGED storeEventQ
      PROVE  Named(storeEventQ', st) \subseteq output'
  BY <1>2, <1>6
<1>7. ASSUME StorerStep
      PROVE  Named(storeEventQ', st) \subseteq output'
  <2>1. storing \in Episode
    BY DEF Typed, TypeOK
  <2> QED
    BY <1>4, <1>5, <1>6, <1>7, <2>1, ZeroIsEpisode
    DEF StorerStep, StorerStarts, BeginStore, FailStore, StorerShutdown
<1>8. ASSUME KillStorage
      PROVE  Named(storeEventQ', st) \subseteq output'
  <2>1. storeEventQ' = <<>>
    BY <1>8 DEF KillStorage, StorageKilled
  <2> QED
    BY <2>1 DEF Named
<1> QED
  BY <1>3, <1>6, <1>7, <1>8
  DEF Next, vars, storageVars, UserCommand, ControllerStep, Halt, AssemblerStep,
      StagerStep, StorageStep, StorageLoop, OnStored, OnStoreError, OnStoreShutdown,
      TakeStoreEvent, StoreEventsDrained, AdvanceStorage, OnStorageControl, OnEpisodeReady,
      ReadyDrained, KillAssembler, AllGone, Finished

(* What is reported or counted stored is in the output tree, after every step. *)
LEMMA StoredStep ==
  ASSUME Typed, Custody, Directories, [Next]_vars
  PROVE  StoredMeansOutput'
<1>1. output \subseteq output'
  BY OutputStep
<1>2. OnStored => Head(storeEventQ).episode_index \in output
  <2>1. OnStored => storeEventQ # <<>> /\ Head(storeEventQ).type = "Stored"
    BY DEF OnStored, TakeStoreEvent
  <2>2. storeEventQ \in Seq(StoreEvent) /\ Named(storeEventQ, "Stored") \subseteq output
    BY DEF Typed, Directories
  <2>3. OnStored => Head(storeEventQ).episode_index \in Named(storeEventQ, "Stored")
    BY <2>1, <2>2, TailNames
  <2> QED
    BY <2>2, <2>3
<1>3. "controller.stored" \in StoredPort /\ "assembler.stored" \in StoredPort
  BY DEF StoredPort
<1>4. /\ stored_episode_indices \subseteq output
      /\ Named(ring["controller.stored"], "EpisodeStored") \subseteq output
      /\ Named(ring["assembler.stored"], "EpisodeStored") \subseteq output
  BY DEF Directories, DirectoriesSound, StoredMeansOutput
<1>5. /\ Named(ring'["controller.stored"], "EpisodeStored") \subseteq output'
      /\ Named(ring'["assembler.stored"], "EpisodeStored") \subseteq output'
  BY <1>1, <1>2, <1>3, <1>4, StoredRingStep
<1>6. stored_episode_indices' \subseteq output'
  <2>1. CASE UNCHANGED stored_episode_indices
    BY <1>1, <1>4, <2>1
  <2>2. CASE ApplyStored
    <3> DEFINE e == Head(ring["controller.stored"]).episode_index
    <3>1. stored_episode_indices' \subseteq stored_episode_indices \cup {e}
      BY <2>2 DEF ApplyStored
    <3>2. e \in Named(ring["controller.stored"], "EpisodeStored")
      <4>1. /\ "controller.stored" \in Port
            /\ TypesAt("controller.stored") = {"EpisodeStored"}
        BY <1>3, PortTypes
      <4>2. /\ Waiting("controller.stored") /\ ring["controller.stored"] # <<>>
            /\ ring["controller.stored"] \in Seq(Carried("controller.stored"))
        BY <2>2, <4>1 DEF ApplyStored, Waiting, Typed, BusTyped
      <4>3. Head(ring["controller.stored"]).type = "EpisodeStored"
        BY <4>1, <4>2, HeadCarried DEF Typed
      <4> QED
        BY <4>2, <4>3, TailNames
    <3> QED
      BY <1>1, <1>4, <3>1, <3>2
  <2> QED
    BY <2>1, <2>2
    DEF Next, vars, controllerVars, lifecycle, UserCommand, ControllerStep, Tick,
        PollContinue, ApplyBackpressure, BackpressureDrained, Drained, StoredDrained,
        ApplyDropped, DroppedDrained, StartEpisode, StopEpisode, KeepEpisode,
        DiscardEpisode, RefuseCommand, Commanded, CommandsDrained, Halt, PollHalt,
        AssemblerStep, StagerStep, StorageStep, StorerStep, KillAssembler, KillStorage,
        AllGone, Finished
<1> QED
  BY <1>5, <1>6 DEF StoredMeansOutput

(* The directories after every step. *)
LEMMA DirectoriesStep ==
  Typed /\ Streamed /\ Custody /\ Directories /\ [Next]_vars => Directories'
BY StagingDirStep, StoreEventStep, StoredStep DEF Directories, DirectoriesSound

-----------------------------------------------------------------------------
(* The slots. *)

(* A slot is given up for an episode that is stored, or declared dropped. *)
LEMMA SlotStep ==
  ASSUME Typed, Directories, [Next]_vars, assemblerPhase' # "exited"
  PROVE  /\ assemblerPhase # "exited"
         /\ \/ in_flight \cup dropped \subseteq in_flight' \cup dropped'
            \/ \E e \in output : (in_flight \cup dropped) \ {e} \subseteq in_flight' \cup dropped'
<1>1. CASE UNCHANGED <<assemblerPhase, in_flight, dropped>>
  BY <1>1
<1>2. CASE KillAssembler
  BY <1>2 DEF KillAssembler, AssemblerKilled
<1>3. CASE AssemblerStep
  <2>1. assemblerPhase # "exited"
    BY <1>3
    DEF AssemblerStep, AssemblerLoop, Controlled, OnRecordingStart, OnRecordingStop,
        OnEpisodeKeep, OnEpisodeDiscard, DropFailed, DropTimedOut, DropNoSlot, DropEpisode,
        OnPacket, Dispatch, SweepStaleSlot, OnShutdown, ControlDrained, AdvanceAssembler,
        DispatchDone, ReleaseSlot, SlotsReleased, OnStaged, OnStageError, OnStageShutdown,
        TakeStageEvent, LoopAgain
  <2>2. CASE ReleaseSlot
    <3> DEFINE e == Head(ring["assembler.stored"]).episode_index
    <3>1. in_flight' = in_flight \ {e} /\ UNCHANGED dropped
      BY <2>2 DEF ReleaseSlot
    <3>2. e \in Named(ring["assembler.stored"], "EpisodeStored")
      <4>1. /\ "assembler.stored" \in Port
            /\ TypesAt("assembler.stored") = {"EpisodeStored"}
        BY PortTypes DEF StoredPort
      <4>2. /\ Waiting("assembler.stored") /\ ring["assembler.stored"] # <<>>
            /\ ring["assembler.stored"] \in Seq(Carried("assembler.stored"))
        BY <2>2, <4>1 DEF ReleaseSlot, Waiting, Typed, BusTyped
      <4>3. Head(ring["assembler.stored"]).type = "EpisodeStored"
        BY <4>1, <4>2, HeadCarried DEF Typed
      <4> QED
        BY <4>2, <4>3, TailNames
    <3>3. e \in output
      BY <3>2 DEF Directories, DirectoriesSound, StoredMeansOutput
    <3> QED
      BY <2>1, <3>1, <3>3
  <2>3. CASE ~ReleaseSlot
    BY <1>3, <2>1, <2>3
    DEF AssemblerStep, AssemblerLoop, Controlled, OnRecordingStart, OnRecordingStop,
        OnEpisodeKeep, OnEpisodeDiscard, DropFailed, DropTimedOut, DropNoSlot, DropEpisode,
        OnPacket, Dispatch, SweepStaleSlot, PublishDrop, OnShutdown, ControlDrained,
        AdvanceAssembler, DispatchDone, SlotsReleased, OnStaged, OnStageError,
        OnStageShutdown, TakeStageEvent, LoopAgain
  <2> QED
    BY <2>2, <2>3
<1> QED
  BY <1>1, <1>2, <1>3
  DEF Next, vars, assemblerVars, UserCommand, ControllerStep, Halt, StagerStep, StagerNext,
      StageOk, StageFails, StageShutdown, TakeStageCommand, StorageStep, StorerStep,
      KillStorage, AllGone, Finished

(* What is under way is within the slots, after every step. *)
LEMMA SlotCoversStep ==
  Typed /\ Streamed /\ Custody /\ Directories /\ SlotCoversWork /\ [Next]_vars
    => SlotCoversWork'
<1> SUFFICES ASSUME Typed, Streamed, Custody, Directories, SlotCoversWork, [Next]_vars,
                    assemblerPhase' # "exited"
             PROVE  Underway' \subseteq in_flight' \cup dropped'
  BY DEF SlotCoversWork
<1> DEFINE A == in_flight \cup dropped
           B == in_flight' \cup dropped'
<1>1. \A i \in 3 .. 7 : Place[i] \subseteq A
  BY SlotStep DEF SlotCoversWork, Underway, Place
<1>2. ASSUME NEW i \in 3 .. 7, NEW x \in Place'[i] PROVE x \in B
  <2>1. x \in B \/ \E k \in 3 .. 7 : x \in Place[k]
    <3>1. ASSUME NEW k \in 1 .. 7, NEW e \in Episode, Moves(k, e), k = 2 => e \in in_flight'
          PROVE  x \in B \/ \E l \in 3 .. 7 : x \in Place[l]
      BY <3>1 DEF Moves
    <3> QED
      BY <3>1, MovedStep DEF Moved, PlacesEffect, Loses, Arrives
  <2>2. \A k \in 3 .. 7 : Place[k] \cap output = {}
    <3>1. \A k \in 3 .. 7 : Place[k] \cap Place[8] = {}
      BY DEF Custody, Apart
    <3> QED
      BY <3>1 DEF Place
  <2> HIDE DEF A, B
  <2>3. A \subseteq B \/ \E e \in output : A \ {e} \subseteq B
    BY SlotStep DEF A, B
  <2> QED
    BY <1>1, <2>1, <2>2, <2>3
<1> QED
  BY <1>2 DEF Underway, Place

-----------------------------------------------------------------------------
(* The theorems. *)

(* A queue that names no episode twice mentions one exactly if it names it. *)
LEMMA MentionsOnce ==
  ASSUME NEW q, NEW t, NEW e, Once(q, t)
  PROVE  Mentions(q, t, e) = Member(e, Named(q, t))
<1> DEFINE I == {i \in DOMAIN q : q[i].type = t /\ q[i].episode_index = e}
<1>1. CASE e \in Named(q, t)
  <2>1. PICK i \in DOMAIN q : q[i].type = t /\ q[i].episode_index = e
    BY <1>1 DEF Named
  <2>2. I = {i}
    BY <2>1 DEF Once
  <2>3. Cardinality(I) = 1
    BY <2>2, FS_Singleton
  <2> QED
    BY <1>1, <2>3 DEF Mentions, Member
<1>2. CASE e \notin Named(q, t)
  <2>1. I = {}
    BY <1>2 DEF Named
  <2>2. Cardinality(I) = 0
    BY <2>1, FS_EmptySet
  <2> QED
    BY <1>2, <2>2 DEF Mentions, Member
<1> QED
  BY <1>1, <1>2

(* Custody in the terms of the property. *)
LEMMA CustodyIsSingle == Custody => SingleCustody
<1> SUFFICES ASSUME Custody, NEW e \in Episode
             PROVE  1 >= Member(e, episodes) + Mentions(stageQ, "Stage", e)
                         + Mentions(stageEventQ, "Staged", e)
                         + Mentions(ring["storage.ready"], "EpisodeReady", e)
                         + Mentions(storeQ, "Store", e) + Member(e, BeingStored)
                         + Member(e, output)
  BY DEF SingleCustody
<1>1. /\ Mentions(stageQ, "Stage", e) = Member(e, ToStage)
      /\ Mentions(stageEventQ, "Staged", e) = Member(e, Staged)
      /\ Mentions(ring["storage.ready"], "EpisodeReady", e) = Member(e, Announced)
      /\ Mentions(storeQ, "Store", e) = Member(e, ToStore)
  BY MentionsOnce DEF Custody, QueuedOnce, ToStage, Staged, Announced, ToStore
<1>2. \A i, j \in 1 .. 8 : e \in Place[i] /\ e \in Place[j] => i = j
  BY DEF Custody, Apart
<1>3. CASE e \in episodes
  BY <1>1, <1>2, <1>3 DEF Member, Place
<1>4. CASE e \in ToStage
  BY <1>1, <1>2, <1>4 DEF Member, Place
<1>5. CASE e \in Staged
  BY <1>1, <1>2, <1>5 DEF Member, Place
<1>6. CASE e \in Announced
  BY <1>1, <1>2, <1>6 DEF Member, Place
<1>7. CASE e \in ToStore
  BY <1>1, <1>2, <1>7 DEF Member, Place
<1>8. CASE e \in BeingStored \cup output
  BY <1>1, <1>2, <1>8 DEF Member, Place
<1>9. CASE e \notin episodes \cup ToStage \cup Staged \cup Announced \cup ToStore
                    \cup BeingStored \cup output
  BY <1>1, <1>9 DEF Member
<1> QED
  BY <1>3, <1>4, <1>5, <1>6, <1>7, <1>8, <1>9

(* The initial state. *)
LEMMA InitInductive == Init => Inductive
<1> SUFFICES ASSUME Init PROVE Inductive
  OBVIOUS
<1>1. \A p \in Port : ring[p] = <<>>
  BY DEF Init, BusInit
<1>2. /\ keep_requested = {} /\ staging = {} /\ output = {} /\ stored_episode_indices = {}
      /\ stageQ = <<>> /\ stageEventQ = <<>> /\ storeQ = <<>> /\ storeEventQ = <<>>
      /\ storer # "storing"
  BY DEF Init, ControllerInit, AssemblerInit, StorageInit
<1>3. \A t : Named(<<>>, t) = {}
  BY DEF Named
<1>4. "storage.ready" \in Port /\ "controller.stored" \in Port /\ "assembler.stored" \in Port
  BY DEF Port, StoredPort
<1>5. Underway = {}
  BY <1>1, <1>2, <1>3, <1>4
  DEF Underway, ToStage, Staged, Announced, ToStore, BeingStored
<1>6. KeptOnly /\ SlotCoversWork
  BY <1>2, <1>5 DEF KeptOnly, OnlyKeptLeavesAssembler, SlotCoversWork
<1>7. Directories
  BY <1>1, <1>2, <1>3, <1>4, <1>5
  DEF Directories, DirectoriesSound, StagingDirPresent, StoredMeansOutput, Underway
<1> QED
  BY <1>6, <1>7, InitTyped, InitStreamed, InitCustody DEF Inductive

(* The conjunction of what the processes rely on is an inductive invariant. *)
LEMMA InductiveHolds == Spec => []Inductive
<1>1. Inductive /\ [Next]_vars => Inductive'
  <2> SUFFICES ASSUME Inductive, [Next]_vars PROVE Inductive'
    OBVIOUS
  <2>1. /\ Typed /\ Streamed /\ Custody /\ KeptOnly /\ Directories /\ SlotCoversWork
        /\ StoredMeansOutput
    BY DEF Inductive, Directories, DirectoriesSound
  <2> QED
    BY <2>1, TypedStep, StreamedStep, CustodyStep, KeptOnlyStep, DirectoriesStep,
       SlotCoversStep
    DEF Inductive
<1> QED
  BY <1>1, InitInductive, PTL DEF Spec

(* An episode is in one place of the pipeline at a time, is passed on once,   *)
(* and leaves the assembler only if the user kept it: however control events  *)
(* are overwritten on the bus, whatever fails or is killed (drain_control_    *)
(* events, dispatch_ready_episodes, the stage and store workers).             *)
THEOREM OneCustodian == Spec => []CustodySound
<1>1. Inductive => CustodySound
  BY CustodyIsSingle DEF Inductive, KeptOnly, CustodySound
<1> QED
  BY <1>1, InductiveHolds, PTL

(* The staging directory of an episode is there from the moment it is reported *)
(* staged until storage has moved it, and every stored notice, on its way or   *)
(* counted, is about an episode that is in the output tree.                    *)
THEOREM DirectoriesAreSound == Spec => []DirectoriesSound
<1>1. Inductive => DirectoriesSound
  BY DEF Inductive, Directories
<1> QED
  BY <1>1, InductiveHolds, PTL

(* At most staging_slots episodes hold a slot, and everything under way holds  *)
(* one unless its slot was swept and its drop announced (in_flight in the      *)
(* assembler's dispatch_ready_episodes, on_episode_stored and the stale sweep). *)
THEOREM SlotsBoundWork == Spec => []SlotsAccounted
<1>1. Inductive => SlotsAccounted
  BY DEF Inductive, Typed, SlotsAccounted
<1> QED
  BY <1>1, InductiveHolds, PTL

-----------------------------------------------------------------------------
(* The pipeline implements EpisodeSpec. *)

(* What Fate says of one episode. *)
FateOf(e) ==
  IF e < next_episode_index
  THEN IF Did("EpisodeKeep", e) THEN "kept" ELSE "discarded"
  ELSE IF e = next_episode_index /\ state # "Idle"
       THEN IF state = "Recording" THEN "recording" ELSE "pending"
       ELSE "none"

(* What a transition does to the fates: it changes that of the episode the   *)
(* controller is at and no other.                                            *)
LEMMA FateStep ==
  ASSUME Typed, StartEpisode \/ StopEpisode \/ KeepEpisode \/ DiscardEpisode
  PROVE  \E f : /\ Fate' = [Fate EXCEPT ![next_episode_index] = f]
                /\ StartEpisode => f = "recording"
                /\ StopEpisode => f = "pending"
                /\ KeepEpisode \/ DiscardEpisode => f \in {"kept", "discarded"}
<1> DEFINE Index == ResumeIndex .. MaxEpisodes - 1
<1>0. PICK n \in Nat : n = next_episode_index
  BY ResumeAssumption, MaxEpisodesAssumption DEF Typed, TypeOK
<1> DEFINE f == FateOf(n)'
<1>1. n \in Index
  BY <1>0, TransitionEffect, ResumeAssumption, MaxEpisodesAssumption DEF Typed, TypeOK, Episode
<1>2. Fate = [e \in Index |-> FateOf(e)] /\ Fate' = [e \in Index |-> FateOf(e)']
  BY DEF Fate, FateOf
<1>3. /\ StartEpisode => f = "recording"
      /\ StopEpisode => f = "pending"
      /\ KeepEpisode \/ DiscardEpisode => f \in {"kept", "discarded"}
  BY <1>0, TransitionEffect DEF FateOf
<1>4. ASSUME NEW e \in Index, e # n PROVE FateOf(e)' = FateOf(e)
  <2>0. e \in Nat /\ (e < n + 1 <=> e < n)
    BY <1>1, <1>4, ResumeAssumption, MaxEpisodesAssumption
  <2>1. Did("EpisodeKeep", e)' <=> Did("EpisodeKeep", e)
    BY <1>0, <1>4, TransitionEffect, DidAfter
  <2>2. CASE StartEpisode \/ StopEpisode
    BY <1>0, <1>4, <2>1, <2>2, TransitionEffect DEF FateOf
  <2>3. CASE KeepEpisode \/ DiscardEpisode
    <3>1. next_episode_index' = n + 1 /\ state' = "Idle" /\ state = "Pending"
      BY <1>0, <2>3, TransitionEffect
    <3> QED
      BY <1>0, <1>4, <2>0, <2>1, <3>1 DEF FateOf
  <2> QED
    BY <2>2, <2>3
<1>5. Fate' = [Fate EXCEPT ![n] = f]
  <2> HIDE DEF f, Index
  <2> DEFINE g == [Fate EXCEPT ![n] = f]
  <2>1. g = [e \in Index |-> IF e = n THEN f ELSE FateOf(e)]
    BY <1>1, <1>2
  <2>2. \A e \in Index : FateOf(e)' = IF e = n THEN f ELSE FateOf(e)
    BY <1>4 DEF f, Index
  <2> QED
    BY <1>2, <2>1, <2>2
<1> QED
  BY <1>0, <1>3, <1>5

(* Every step of the pipeline is a step of the promise, or none. *)
LEMMA PromiseStep ==
  ASSUME Inductive, [Next]_vars
  PROVE  [Promise!Next]_<<Fate, output>>
<1> DEFINE n == next_episode_index
           Index == ResumeIndex .. MaxEpisodes - 1
<1>0. Typed /\ Streamed /\ Custody /\ KeptOnly
  BY DEF Inductive
<1>1. \A e \in Index : Fate[e] = FateOf(e)
  BY DEF Fate, FateOf
<1>2. CASE UNCHANGED <<state, next_episode_index, sent>> \/ PollHalt
  <2>1. UNCHANGED <<state, next_episode_index>> /\ \A e : Did("EpisodeKeep", e)' <=> Did("EpisodeKeep", e)
    <3>1. CASE UNCHANGED <<state, next_episode_index, sent>>
      BY <3>1 DEF Did
    <3>2. CASE PollHalt
      BY <1>0, <3>2, TransitionEffect, DidAfter
    <3> QED
      BY <1>2, <3>1, <3>2
  <2>2. UNCHANGED Fate
    <3>1. Fate = [e \in Index |-> FateOf(e)] /\ Fate' = [e \in Index |-> FateOf(e)']
      BY DEF Fate, FateOf
    <3>2. \A e \in Index : FateOf(e)' = FateOf(e)
      BY <2>1 DEF FateOf
    <3> QED
      BY <3>1, <3>2
  <2>3. CASE UNCHANGED output
    BY <2>2, <2>3
  <2>4. CASE storing \in BeingStored /\ output' = output \cup {storing}
    <3>1. storing \notin output
      BY <1>0, <2>4, PlacesApart DEF Custody
    <3>2. storing \in Episode /\ Did("EpisodeKeep", storing)
      BY <1>0, <2>4 DEF KeptOnly, OnlyKeptLeavesAssembler, Underway, Kept, Sent
    <3>3. ResumeIndex <= storing /\ storing < n
      BY <1>0, <3>2 DEF Streamed, StreamOf
    <3>4. storing \in Index
      BY <1>0, <3>2, <3>3, ResumeAssumption, MaxEpisodesAssumption DEF Episode
    <3>5. Fate[storing] = "kept"
      BY <1>1, <3>2, <3>3, <3>4 DEF FateOf
    <3>6. Promise!Persist(storing)
      BY <2>2, <2>4, <3>1, <3>5 DEF Promise!Persist
    <3> QED
      BY <3>4, <3>6 DEF Promise!Next, Promise!Index
  <2> QED
    BY <1>0, <2>3, <2>4, OutputStep
<1>3. CASE StartEpisode \/ StopEpisode \/ KeepEpisode \/ DiscardEpisode
  <2>1. n \in Index
    BY <1>0, <1>3, TransitionEffect, ResumeAssumption, MaxEpisodesAssumption
    DEF Typed, TypeOK, Episode
  <2>2. UNCHANGED output
    <3>1. state' # state
      BY <1>0, <1>3, TransitionEffect
    <3>2. ~StorerStep
      BY <3>1 DEF StorerStep, controllerVars, lifecycle
    <3> QED
      BY <1>0, <3>2, OutputStep
  <2>3. PICK f : /\ Fate' = [Fate EXCEPT ![n] = f]
                 /\ StartEpisode => f = "recording"
                 /\ StopEpisode => f = "pending"
                 /\ KeepEpisode \/ DiscardEpisode => f \in {"kept", "discarded"}
    BY <1>0, <1>3, FateStep
  <2>4. Fate[n] = FateOf(n) /\ n \in Nat
    BY <1>1, <2>1, ResumeAssumption, MaxEpisodesAssumption
  <2>5. CASE StartEpisode
    <3>1. Fate[n] = "none"
      BY <1>0, <2>4, <2>5, TransitionEffect DEF FateOf
    <3>2. ASSUME NEW d \in Promise!Index, d < n PROVE Promise!Decided(d)
      <4>1. d \in Index
        BY DEF Promise!Index
      <4> QED
        BY <1>1, <3>2, <4>1 DEF FateOf, Promise!Decided
    <3>3. Promise!Start(n)
      BY <2>2, <2>3, <2>5, <3>1, <3>2 DEF Promise!Start
    <3> QED
      BY <2>1, <3>3 DEF Promise!Next, Promise!Index
  <2>6. CASE StopEpisode
    <3>1. Fate[n] = "recording"
      BY <1>0, <2>4, <2>6, TransitionEffect DEF FateOf
    <3>2. Promise!Stop(n)
      BY <2>2, <2>3, <2>6, <3>1 DEF Promise!Stop
    <3> QED
      BY <2>1, <3>2 DEF Promise!Next, Promise!Index
  <2>7. CASE KeepEpisode \/ DiscardEpisode
    <3>1. Fate[n] = "pending"
      BY <1>0, <2>4, <2>7, TransitionEffect DEF FateOf
    <3>2. Promise!Decide(n)
      BY <2>2, <2>3, <2>7, <3>1 DEF Promise!Decide
    <3> QED
      BY <2>1, <3>2 DEF Promise!Next, Promise!Index
  <2> QED
    BY <1>3, <2>5, <2>6, <2>7
<1> QED
  BY <1>2, <1>3, QuietStep

(* The detailed pipeline implements EpisodeSpec: whatever is lost, late,      *)
(* failed or killed, episodes are recorded one at a time, each is decided     *)
(* once, and only a kept one enters the dataset, once and for good            *)
(* (EpisodeLifecycle with the assembler and storage processes behind it).     *)
THEOREM ImplementsPromise == Spec => EpisodesAsPromised
<1>1. Init => Promise!Init
  <2> SUFFICES ASSUME Init PROVE Promise!Init
    OBVIOUS
  <2>1. state = "Idle" /\ next_episode_index = ResumeIndex /\ output = {}
    BY DEF Init, ControllerInit, StorageInit
  <2>2. \A e \in ResumeIndex .. MaxEpisodes - 1 : ~(e < ResumeIndex)
    BY ResumeAssumption, MaxEpisodesAssumption
  <2>3. Fate = [e \in ResumeIndex .. MaxEpisodes - 1 |-> "none"]
    BY <2>1, <2>2 DEF Fate
  <2> QED
    BY <2>1, <2>3 DEF Promise!Init, Promise!Index
<1>2. Inductive /\ [Next]_vars => [Promise!Next]_<<Fate, output>>
  BY PromiseStep
<1> QED
  BY <1>1, <1>2, InductiveHolds, PTL DEF Spec, EpisodesAsPromised, Promise!Spec
=============================================================================
