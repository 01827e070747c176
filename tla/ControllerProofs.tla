-------------------------- MODULE ControllerProofs --------------------------
(***************************************************************************)
(* Theorems about the three roles of the controller.                       *)
(*                                                                         *)
(* Its episodes, for every ring depth, every number of episodes and every  *)
(* resume point: whatever the other processes publish, the control stream  *)
(* is well formed, no event is published twice, the count is the number of *)
(* distinct stored episodes and the status shown between two ticks is      *)
(* current.                                                                *)
(*                                                                         *)
(* Its children, for any number of them and whatever they do: a regular    *)
(* return leaves no child behind, and SIGTERM never goes to a reaped one.  *)
(*                                                                         *)
(* Its setup wizard, for any rows and any commands: the session is sound,  *)
(* the preview children are those of the project on the screen, in the     *)
(* mode that was chosen, and no edit breaks a valid project.               *)
(***************************************************************************)
EXTENDS ControllerEnv, Supervisor, SetupWizard, FiniteSetTheorems, SequenceTheorems,
        WellFoundedInduction, TLAPS

Rings == [Port -> Seq(Message)]

(* Msg builds messages: the one operator every published sample goes through. *)
LEMMA MsgType ==
  ASSUME NEW t \in ControlEventType \cup EpisodeCommand
                     \cup {"EpisodeReady", "EpisodeStored", "EpisodeDropped", "Backpressure"},
         NEW e \in Episode
  PROVE  Msg(t, e) \in Message
BY DEF Msg, Message

(* Episode 0 exists, so Shutdown and the messages about no episode are typed. *)
LEMMA ZeroIsEpisode == 0 \in Episode
BY MaxEpisodesAssumption DEF Episode

(* Send keeps a ring a sequence of messages, full or not. *)
LEMMA SendType ==
  ASSUME NEW q \in Seq(Message), NEW m \in Message
  PROVE  Send(q, m) \in Seq(Message)
<1>1. CASE Len(q) < BufferSize
  BY <1>1 DEF Send
<1>2. CASE ~(Len(q) < BufferSize)
  <2>1. q # <<>>
    BY <1>2, BufferSizeAssumption
  <2>2. Tail(q) \in Seq(Message)
    BY <2>1
  <2> QED
    BY <1>2, <2>2 DEF Send
<1> QED
  BY <1>1, <1>2

(* Publish keeps the rings typed. *)
LEMMA PublishType ==
  ASSUME NEW r \in Rings, NEW ports, NEW m \in Message
  PROVE  Publish(r, ports, m) \in Rings
<1>1. \A p \in Port : r[p] \in Seq(Message)
  BY DEF Rings
<1>2. \A p \in Port : Send(r[p], m) \in Seq(Message)
  BY <1>1, SendType
<1> QED
  BY <1>1, <1>2 DEF Publish, Rings

(* Receive keeps the rings typed, given that there is something to receive. *)
LEMMA ReceiveType ==
  ASSUME NEW r \in Rings, NEW p \in Port, r[p] # <<>>
  PROVE  Receive(r, p) \in Rings
<1>1. Tail(r[p]) \in Seq(Message)
  BY DEF Rings
<1> QED
  BY <1>1 DEF Receive, Rings

(* Forget keeps the rings typed. *)
LEMMA ForgetType ==
  ASSUME NEW r \in Rings, NEW ports
  PROVE  Forget(r, ports) \in Rings
BY DEF Forget, Rings

(* The head of a ring that has one is a message. *)
LEMMA HeadType ==
  ASSUME NEW r \in Rings, NEW p \in Port, r[p] # <<>>
  PROVE  Head(r[p]) \in Message
BY DEF Rings

-----------------------------------------------------------------------------
(* The controller's ports are ports. *)
LEMMA ControllerPorts ==
  {"controller.command", "controller.backpressure", "controller.stored",
   "controller.dropped"} \subseteq Port
BY DEF Port, StoredPort

(* A transition of the lifecycle receives its command, and adds one event about *)
(* the current episode to the control stream.                                   *)
LEMMA TransitionEffect ==
  ASSUME TypeOK, NEW c, Commanded(c), next_episode_index \in Episode,
         NEW from \in EpisodeState, NEW to \in EpisodeState,
         NEW t \in ControlEventType, Transition(from, to, t)
  PROVE  /\ ring' \in Rings
         /\ sent' = sent \cup {Msg(t, next_episode_index)}
         /\ sent' \subseteq Message
         /\ state = from /\ state' = to /\ status_changed' = TRUE
         /\ UNCHANGED <<episode_count, stored_episode_indices, status, phase>>
<1>1. Msg(t, next_episode_index) \in Message
  BY MsgType
<1>2. Receive(ring, "controller.command") \in Rings
  BY ReceiveType, ControllerPorts DEF TypeOK, Rings, Commanded, Waiting
<1> QED
  BY <1>1, <1>2, PublishType DEF Transition, PublishControl, TypeOK, Commanded

(* Type correctness of the controller (EpisodeLifecycle and the tick). *)
THEOREM Typing == Spec => []TypeOK
<1>1. Init => TypeOK
  <2> SUFFICES ASSUME Init PROVE TypeOK
    OBVIOUS
  <2>1. ring \in Rings
    BY DEF Init, BusInit, Rings
  <2>2. status \in [state : EpisodeState, episode_count : Nat]
    BY ResumeAssumption DEF Init, ControllerInit, Status, EpisodeState
  <2>3. ResumeIndex \in ResumeIndex .. MaxEpisodes
    BY ResumeAssumption, MaxEpisodesAssumption
  <2>4. episode_count \in Nat /\ next_episode_index \in ResumeIndex .. MaxEpisodes
    BY <2>3, ResumeAssumption DEF Init, ControllerInit
  <2> QED
    BY <2>1, <2>2, <2>4 DEF Init, ControllerInit, TypeOK, Rings, EpisodeState, Phase
<1>2. TypeOK /\ [Next]_vars => TypeOK'
  <2> SUFFICES ASSUME TypeOK, [Next]_vars PROVE TypeOK'
    OBVIOUS
  <2> USE ResumeAssumption, MaxEpisodesAssumption
  <2>1. CASE UNCHANGED vars
    BY <2>1 DEF vars, controllerVars, lifecycle, TypeOK
  <2>2. CASE PollContinue(FALSE)
    BY <2>2 DEF PollContinue, lifecycle, TypeOK, Phase
  <2>3. CASE PollHalt
    <3>1. Shutdown \in Message
      BY MsgType, ZeroIsEpisode DEF Shutdown, ControlEventType
    <3>2. ring' \in Rings /\ sent' \subseteq Message
      BY <2>3, <3>1, PublishType, ForgetType DEF PollHalt, PublishControl, TypeOK, Rings
    <3> QED
      BY <2>3, <3>2 DEF PollHalt, lifecycle, TypeOK, Phase, Rings
  <2>4. CASE ApplyBackpressure
    <3>1. ring' \in Rings
      BY <2>4, ReceiveType, ControllerPorts DEF ApplyBackpressure, TypeOK, Waiting, Rings
    <3> QED
      BY <2>4, <3>1 DEF ApplyBackpressure, lifecycle, TypeOK, Rings
  <2>5. CASE BackpressureDrained
    BY <2>5 DEF BackpressureDrained, Drained, lifecycle, TypeOK, Phase
  <2>6. CASE ApplyStored
    <3>1. ring' \in Rings
      BY <2>6, ReceiveType, ControllerPorts DEF ApplyStored, TypeOK, Waiting, Rings
    <3>2. Head(ring["controller.stored"]).episode_index \in Episode
      BY <2>6, HeadType, ControllerPorts DEF ApplyStored, TypeOK, Waiting, Rings, Message
    <3>3. CASE CountsAsStored(Head(ring["controller.stored"]).episode_index)
      <4>1. /\ episode_count' \in Nat
            /\ stored_episode_indices' \subseteq Episode
            /\ start_blocked' = FALSE /\ status_changed' = TRUE
        BY <2>6, <3>2, <3>3 DEF ApplyStored, TypeOK
      <4> QED
        BY <2>6, <3>1, <4>1 DEF ApplyStored, TypeOK, Rings
    <3>4. CASE ~CountsAsStored(Head(ring["controller.stored"]).episode_index)
      BY <2>6, <3>1, <3>4 DEF ApplyStored, TypeOK, Rings
    <3> QED
      BY <3>3, <3>4
  <2>7. CASE StoredDrained
    BY <2>7 DEF StoredDrained, Drained, lifecycle, TypeOK, Phase
  <2>8. CASE ApplyDropped
    <3>1. ring' \in Rings
      BY <2>8, ReceiveType, ControllerPorts DEF ApplyDropped, TypeOK, Waiting, Rings
    <3> QED
      BY <2>8, <3>1 DEF ApplyDropped, lifecycle, TypeOK, Rings
  <2>9. CASE DroppedDrained
    BY <2>9 DEF DroppedDrained, Drained, lifecycle, TypeOK, Phase
  <2>10. CASE StartEpisode
    <3>1. next_episode_index \in Episode
      BY <2>10 DEF StartEpisode, MayStart, TypeOK, Episode
    <3>2. "Idle" \in EpisodeState /\ "Recording" \in EpisodeState
      BY DEF EpisodeState
    <3>3. "RecordingStart" \in ControlEventType
      BY DEF ControlEventType
    <3>4. Commanded("Start") /\ Transition("Idle", "Recording", "RecordingStart")
      BY <2>10 DEF StartEpisode
    <3> QED
      BY <2>10, <3>1, <3>2, <3>3, <3>4, TransitionEffect
      DEF StartEpisode, MayStart, TypeOK, Rings
  <2>11. CASE StopEpisode
    <3>1. state = "Recording" /\ next_episode_index \in Episode
      BY <2>11 DEF StopEpisode, Transition, TypeOK, Episode
    <3>2. "Pending" \in EpisodeState /\ "Recording" \in EpisodeState
      BY DEF EpisodeState
    <3>3. "RecordingStop" \in ControlEventType
      BY DEF ControlEventType
    <3>4. Commanded("Stop") /\ Transition("Recording", "Pending", "RecordingStop")
      BY <2>11 DEF StopEpisode
    <3> QED
      BY <2>11, <3>1, <3>2, <3>3, <3>4, TransitionEffect DEF StopEpisode, TypeOK, Rings
  <2>12. CASE KeepEpisode
    <3>1. state = "Pending" /\ next_episode_index \in Episode
      BY <2>12 DEF KeepEpisode, Transition, TypeOK, Episode
    <3>2. "Pending" \in EpisodeState /\ "Idle" \in EpisodeState
      BY DEF EpisodeState
    <3>3. "EpisodeKeep" \in ControlEventType
      BY DEF ControlEventType
    <3>4. Commanded("Keep") /\ Transition("Pending", "Idle", "EpisodeKeep")
      BY <2>12 DEF KeepEpisode
    <3>5. next_episode_index + 1 \in ResumeIndex .. MaxEpisodes
      BY <3>1 DEF TypeOK, Episode
    <3> QED
      BY <2>12, <3>1, <3>2, <3>3, <3>4, <3>5, TransitionEffect
      DEF KeepEpisode, TypeOK, Rings
  <2>13. CASE DiscardEpisode
    <3>1. state = "Pending" /\ next_episode_index \in Episode
      BY <2>13 DEF DiscardEpisode, Transition, TypeOK, Episode
    <3>2. "Pending" \in EpisodeState /\ "Idle" \in EpisodeState
      BY DEF EpisodeState
    <3>3. "EpisodeDiscard" \in ControlEventType
      BY DEF ControlEventType
    <3>4. Commanded("Discard") /\ Transition("Pending", "Idle", "EpisodeDiscard")
      BY <2>13 DEF DiscardEpisode
    <3>5. next_episode_index + 1 \in ResumeIndex .. MaxEpisodes
      BY <3>1 DEF TypeOK, Episode
    <3> QED
      BY <2>13, <3>1, <3>2, <3>3, <3>4, <3>5, TransitionEffect
      DEF DiscardEpisode, TypeOK, Rings
  <2>14. CASE RefuseCommand
    <3>1. ring' \in Rings
      BY <2>14, ReceiveType, ControllerPorts
      DEF RefuseCommand, Commanded, TypeOK, Waiting, Rings
    <3> QED
      BY <2>14, <3>1 DEF RefuseCommand, Commanded, TypeOK, Rings
  <2>15. CASE CommandsDrained
    BY <2>15 DEF CommandsDrained, lifecycle, TypeOK, Phase, Status
  <2>16. CASE Environment
    <3>1. ring' \in Rings /\ UNCHANGED controllerVars
      <4>1. \A c \in EpisodeCommand : Msg(c, 0) \in Message
        BY MsgType, ZeroIsEpisode
      <4>2. Msg("Backpressure", 0) \in Message /\ Msg("EpisodeDropped", 0) \in Message
        BY MsgType, ZeroIsEpisode
      <4>3. \A e \in Episode : Msg("EpisodeStored", e) \in Message
        BY MsgType
      <4> QED
        BY <2>16, <4>1, <4>2, <4>3, PublishType DEF Environment, Arrives, TypeOK, Rings
    <3> QED
      BY <3>1 DEF controllerVars, lifecycle, TypeOK, Rings
  <2> QED
    BY <2>1, <2>2, <2>3, <2>4, <2>5, <2>6, <2>7, <2>8, <2>9, <2>10, <2>11, <2>12,
       <2>13, <2>14, <2>15, <2>16
    DEF Next, Tick
<1> QED
  BY <1>1, <1>2, PTL DEF Spec

-----------------------------------------------------------------------------
(* PublishedOnce needs that Shutdown, too, is published only once. *)
ShutdownOnce == Shutdown \in sent => phase \in {"terminating", "done"}

(* StatusFresh is not inductive: within a tick the published status is behind *)
(* exactly while status_changed is set, and a tick starts with it cleared.    *)
StatusTracked ==
  /\ status_changed \/ status = Status
  /\ phase = "poll" => ~status_changed

(* Two messages are equal only if type and episode are: distinct events stay *)
(* distinct members of the control stream.                                    *)
LEMMA MsgInjective ==
  ASSUME NEW t, NEW e, NEW u, NEW f
  PROVE  Msg(t, e) = Msg(u, f) <=> t = u /\ e = f
BY DEF Msg

(* A transition adds its event to the control stream and nothing else. *)
LEMMA DidAfter ==
  ASSUME NEW u, NEW f, sent' = sent \cup {Msg(u, f)}, NEW t, NEW e
  PROVE  Msg(t, e) \in sent' <=> Msg(t, e) \in sent \/ (t = u /\ e = f)
BY MsgInjective

(* Only Shutdown and the four transitions touch the control stream. *)
LEMMA QuietStep ==
  ASSUME [Next]_vars
  PROVE  \/ UNCHANGED <<state, next_episode_index, sent>>
         \/ PollHalt \/ StartEpisode \/ StopEpisode \/ KeepEpisode \/ DiscardEpisode
BY DEF Next, Tick, vars, controllerVars, lifecycle, PollContinue, Drained,
       ApplyBackpressure, BackpressureDrained, ApplyStored, StoredDrained, ApplyDropped,
       DroppedDrained, Commanded, RefuseCommand, CommandsDrained, Environment, Arrives

(* The control stream is well formed (handle_command): each episode is started, *)
(* stopped and decided in order, once, and kept or discarded but not both.      *)
THEOREM StreamIsWellFormed == Spec => []ControlStream
<1>1. Init => ControlStream
  BY ResumeAssumption DEF Init, ControllerInit, ControlStream, StreamOf, Episode
<1>2. TypeOK /\ ControlStream /\ [Next]_vars => ControlStream'
  <2> SUFFICES ASSUME TypeOK, ControlStream, [Next]_vars, NEW e \in Episode
               PROVE  StreamOf(e)'
    BY DEF ControlStream
  <2>1. CASE UNCHANGED <<state, next_episode_index, sent>>
    BY <2>1 DEF ControlStream, StreamOf
  <2>2. CASE PollHalt
    <3>1. /\ UNCHANGED <<state, next_episode_index>>
          /\ sent' = sent \cup {Msg("Shutdown", 0)}
      BY <2>2 DEF PollHalt, PublishControl, Shutdown, lifecycle
    <3> QED
      BY <3>1, DidAfter DEF ControlStream, StreamOf
  <2>3. CASE StartEpisode
    <3>1. /\ state = "Idle" /\ state' = "Recording"
          /\ UNCHANGED next_episode_index
          /\ sent' = sent \cup {Msg("RecordingStart", next_episode_index)}
      BY <2>3 DEF StartEpisode, Transition, PublishControl
    <3> QED
      BY <3>1, DidAfter DEF ControlStream, StreamOf
  <2>4. CASE StopEpisode
    <3>1. /\ state = "Recording" /\ state' = "Pending"
          /\ UNCHANGED next_episode_index
          /\ sent' = sent \cup {Msg("RecordingStop", next_episode_index)}
      BY <2>4 DEF StopEpisode, Transition, PublishControl
    <3> QED
      BY <3>1, DidAfter DEF ControlStream, StreamOf
  <2>5. CASE KeepEpisode
    <3>1. /\ state = "Pending" /\ state' = "Idle"
          /\ next_episode_index' = next_episode_index + 1
          /\ sent' = sent \cup {Msg("EpisodeKeep", next_episode_index)}
      BY <2>5 DEF KeepEpisode, Transition, PublishControl
    <3>2. ResumeIndex <= e /\ e < next_episode_index' <=>
            (ResumeIndex <= e /\ e < next_episode_index) \/ e = next_episode_index
      BY <3>1, ResumeAssumption, MaxEpisodesAssumption DEF TypeOK, Episode
    <3>3. e = next_episode_index => ~(ResumeIndex <= e /\ e < next_episode_index)
      BY DEF TypeOK
    <3> QED
      BY <3>1, <3>2, <3>3, DidAfter DEF ControlStream, StreamOf
  <2>6. CASE DiscardEpisode
    <3>1. /\ state = "Pending" /\ state' = "Idle"
          /\ next_episode_index' = next_episode_index + 1
          /\ sent' = sent \cup {Msg("EpisodeDiscard", next_episode_index)}
      BY <2>6 DEF DiscardEpisode, Transition, PublishControl
    <3>2. ResumeIndex <= e /\ e < next_episode_index' <=>
            (ResumeIndex <= e /\ e < next_episode_index) \/ e = next_episode_index
      BY <3>1, ResumeAssumption, MaxEpisodesAssumption DEF TypeOK, Episode
    <3>3. e = next_episode_index => ~(ResumeIndex <= e /\ e < next_episode_index)
      BY DEF TypeOK
    <3> QED
      BY <3>1, <3>2, <3>3, DidAfter DEF ControlStream, StreamOf
  <2> QED
    BY <2>1, <2>2, <2>3, <2>4, <2>5, <2>6, QuietStep
<1> QED
  BY <1>1, <1>2, Typing, PTL DEF Spec

-----------------------------------------------------------------------------
(* What no step but ApplyStored does to the count. *)
LEMMA CountStep ==
  ASSUME [Next]_vars
  PROVE  UNCHANGED <<episode_count, stored_episode_indices>> \/ ApplyStored
BY DEF Next, Tick, vars, controllerVars, lifecycle, PollContinue, PollHalt, Drained,
       ApplyBackpressure, BackpressureDrained, StoredDrained, ApplyDropped, DroppedDrained,
       Commanded, StartEpisode, StopEpisode, KeepEpisode, DiscardEpisode, RefuseCommand,
       CommandsDrained, Environment, Arrives

(* record_episode_stored counts every stored episode once, whatever notices *)
(* arrive and however often.                                                *)
THEOREM CountIsExact == Spec => []CountIsStored
<1>1. Init => CountIsStored
  BY FS_EmptySet, ResumeAssumption DEF Init, ControllerInit, CountIsStored
<1>2. TypeOK /\ CountIsStored /\ [Next]_vars => CountIsStored'
  <2> SUFFICES ASSUME TypeOK, CountIsStored, [Next]_vars PROVE CountIsStored'
    OBVIOUS
  <2>1. CASE UNCHANGED <<episode_count, stored_episode_indices>>
    BY <2>1 DEF CountIsStored
  <2>2. CASE ApplyStored
    <3> DEFINE e == Head(ring["controller.stored"]).episode_index
    <3>1. CASE CountsAsStored(e)
      <4>1. IsFiniteSet(Episode)
        BY MaxEpisodesAssumption, FS_Interval DEF Episode
      <4>2. IsFiniteSet(stored_episode_indices)
        BY <4>1, FS_Subset DEF TypeOK
      <4>3. e \notin stored_episode_indices
        BY <3>1 DEF CountsAsStored
      <4>4. /\ stored_episode_indices' = stored_episode_indices \cup {e}
            /\ episode_count' = episode_count + 1
        BY <2>2, <3>1 DEF ApplyStored
      <4> HIDE DEF e
      <4>5. Cardinality(stored_episode_indices \cup {e})
              = Cardinality(stored_episode_indices) + 1
        BY <4>2, <4>3, FS_AddElement
      <4>6. Cardinality(stored_episode_indices) \in Nat
        BY <4>2, FS_CardinalityType
      <4> QED
        BY <4>4, <4>5, <4>6, ResumeAssumption DEF CountIsStored
    <3>2. CASE ~CountsAsStored(e)
      BY <2>2, <3>2 DEF ApplyStored, CountIsStored
    <3> QED
      BY <3>1, <3>2
  <2> QED
    BY <2>1, <2>2, CountStep
<1> QED
  BY <1>1, <1>2, Typing, PTL DEF Spec

(* A tick leaves no change unpublished (status_changed in run_collect_loop). *)
THEOREM StatusIsFresh == Spec => []StatusFresh
<1>1. Init => StatusTracked
  BY DEF Init, ControllerInit, StatusTracked
<1>2. TypeOK /\ StatusTracked /\ [Next]_vars => StatusTracked'
  <2> SUFFICES ASSUME TypeOK, StatusTracked, [Next]_vars PROVE StatusTracked'
    OBVIOUS
  <2>1. CASE UNCHANGED <<state, episode_count, status, status_changed>>
             /\ (phase' = phase \/ phase' # "poll")
    BY <2>1 DEF StatusTracked, Status
  <2>2. CASE status_changed' = TRUE /\ phase' # "poll"
    BY <2>2 DEF StatusTracked
  <2>3. CASE CommandsDrained
    BY <2>3 DEF CommandsDrained, lifecycle, StatusTracked, Status
  <2>4. ApplyStored \/ ApplyDropped => phase' # "poll"
    BY DEF ApplyStored, ApplyDropped
  <2>5. (\E c \in EpisodeCommand : Commanded(c)) => phase' # "poll"
    BY DEF Commanded
  <2> QED
    BY <2>1, <2>2, <2>3, <2>4, <2>5
    DEF Next, Tick, vars, controllerVars, lifecycle, PollContinue, PollHalt, Drained,
        ApplyBackpressure, BackpressureDrained, ApplyStored, StoredDrained, ApplyDropped,
        DroppedDrained, Commanded, StartEpisode, StopEpisode, KeepEpisode, DiscardEpisode,
        Transition, RefuseCommand, Environment, Arrives
<1>3. StatusTracked => StatusFresh
  BY DEF StatusTracked, StatusFresh
<1> QED
  BY <1>1, <1>2, <1>3, Typing, PTL DEF Spec

-----------------------------------------------------------------------------
(* Shutdown is broadcast by the step that leaves the loop for good (PollHalt). *)
LEMMA ShutdownIsLast == Spec => []ShutdownOnce
<1>1. Init => ShutdownOnce
  BY DEF Init, ControllerInit, ShutdownOnce
<1>2. TypeOK /\ ShutdownOnce /\ [Next]_vars => ShutdownOnce'
  <2> SUFFICES ASSUME TypeOK, ShutdownOnce, [Next]_vars PROVE ShutdownOnce'
    OBVIOUS
  <2>1. CASE PollHalt
    BY <2>1 DEF PollHalt, ShutdownOnce
  <2>2. CASE UNCHANGED sent /\ (phase' = phase \/ phase \notin {"terminating", "done"})
    BY <2>2 DEF ShutdownOnce
  <2>3. ASSUME NEW t \in ControlEventType \ {"Shutdown"},
               sent' = sent \cup {Msg(t, next_episode_index)}, phase' = phase
        PROVE  ShutdownOnce'
    BY <2>3, DidAfter DEF ShutdownOnce, Shutdown
  <2>4. CASE StartEpisode \/ StopEpisode \/ KeepEpisode \/ DiscardEpisode
    BY <2>3, <2>4 DEF StartEpisode, StopEpisode, KeepEpisode, DiscardEpisode, Transition,
                      PublishControl, Commanded, ControlEventType
  <2> QED
    BY <2>1, <2>2, <2>4
    DEF Next, Tick, vars, controllerVars, PollContinue, Drained,
        ApplyBackpressure, BackpressureDrained, ApplyStored, StoredDrained, ApplyDropped,
        DroppedDrained, Commanded, RefuseCommand, CommandsDrained, Environment, Arrives
<1> QED
  BY <1>1, <1>2, Typing, PTL DEF Spec

(* Steps that publish no control event leave the assembler's control ring alone. *)
LEMMA RingUntouched ==
  ASSUME TypeOK, [Next]_vars, ~PollHalt, ~StartEpisode, ~StopEpisode, ~KeepEpisode,
         ~DiscardEpisode
  PROVE  ring'["assembler.control"] = ring["assembler.control"]
<1>1. "assembler.control" \in Port
  BY DEF Port, ControlPort
<1>2. ASSUME NEW p \in Port, p # "assembler.control", ring' = Receive(ring, p)
      PROVE  ring'["assembler.control"] = ring["assembler.control"]
  BY <1>1, <1>2 DEF Receive, TypeOK
<1>3. ASSUME NEW p, p # "assembler.control", NEW m, ring' = Publish(ring, {p}, m)
      PROVE  ring'["assembler.control"] = ring["assembler.control"]
  BY <1>1, <1>3 DEF Publish, TypeOK
<1>4. CASE Environment
  BY <1>4, <1>3 DEF Environment, Arrives
<1>5. CASE ApplyBackpressure \/ ApplyStored \/ ApplyDropped \/ RefuseCommand
  BY <1>5, <1>2, ControllerPorts
  DEF ApplyBackpressure, ApplyStored, ApplyDropped, RefuseCommand
<1>6. CASE UNCHANGED ring
  BY <1>6
<1> QED
  BY <1>4, <1>5, <1>6
  DEF Next, Tick, vars, PollContinue, BackpressureDrained, StoredDrained, DroppedDrained,
      Drained, CommandsDrained

(* No control event is published twice: the control stream has no repetition, *)
(* although publishing (send_copy) never looks at what went out before.       *)
THEOREM NoEventTwice == Spec => PublishedOnce
<1> DEFINE Once == ring'["assembler.control"] # ring["assembler.control"] => sent' # sent
<1>1. TypeOK /\ ControlStream /\ ShutdownOnce /\ [Next]_vars => Once
  <2> SUFFICES ASSUME TypeOK, ControlStream, ShutdownOnce, [Next]_vars PROVE Once
    OBVIOUS
  <2>1. CASE PollHalt
    BY <2>1 DEF PollHalt, PublishControl, ShutdownOnce
  <2>2. CASE StartEpisode
    <3>1. next_episode_index \in Episode
      BY <2>2, ResumeAssumption, MaxEpisodesAssumption
      DEF StartEpisode, MayStart, TypeOK, Episode
    <3>2. Msg("RecordingStart", next_episode_index) \notin sent
      BY <2>2, <3>1 DEF StartEpisode, Transition, ControlStream, StreamOf, TypeOK
    <3> QED
      BY <2>2, <3>2 DEF StartEpisode, Transition, PublishControl
  <2>3. CASE StopEpisode \/ KeepEpisode \/ DiscardEpisode
    <3>1. state # "Idle" /\ next_episode_index \in Episode
      BY <2>3, ResumeAssumption, MaxEpisodesAssumption
      DEF StopEpisode, KeepEpisode, DiscardEpisode, Transition, TypeOK, Episode
    <3>2. /\ StopEpisode => Msg("RecordingStop", next_episode_index) \notin sent
          /\ Msg("EpisodeKeep", next_episode_index) \notin sent
          /\ Msg("EpisodeDiscard", next_episode_index) \notin sent
      BY <3>1 DEF StopEpisode, Transition, ControlStream, StreamOf, TypeOK
    <3> QED
      BY <2>3, <3>2
      DEF StopEpisode, KeepEpisode, DiscardEpisode, Transition, PublishControl
  <2> QED
    BY <2>1, <2>2, <2>3, RingUntouched
<1> QED
  BY <1>1, Typing, StreamIsWellFormed, ShutdownIsLast, PTL DEF Spec, PublishedOnce

-----------------------------------------------------------------------------
(* Supervisor *)


Gone(c) == child[c] \in {"unborn", "reaped"}

(* What the last loop of terminate_children has behind it. *)
KilledSoFar == stage = "killing" => \A c \in Child : c < next => Gone(c)

(* Between its check and its signal request_terminate holds an unreaped child. *)
SignalTarget == stage = "signalling" => child[next] \in {"running", "zombie"}

(* Shutdown is published on every way into terminate_children. *)
ShutdownPublished ==
  stage \in {"waiting", "requesting", "signalling", "grace", "killing"} => shutdown_sent

SupervisorInv == SupervisorTypeOK /\ NoChildLeft /\ KilledSoFar /\ SignalTarget /\ ShutdownPublished

(* The types of the variables that are no flags are kept by every step. *)
LEMMA ValuesStep == ValuesOK /\ [SupervisorNext]_supervisorVars => ValuesOK'
<1> SUFFICES ASSUME ValuesOK, [SupervisorNext]_supervisorVars PROVE ValuesOK'
  OBVIOUS
<1> USE NAssumption DEF ValuesOK, Child, history
<1>0. CASE SpawnChild
  BY <1>0 DEF SpawnChild
<1>1. CASE SpawnFails \/ AllSpawned \/ ProbeAccepts
  BY <1>1 DEF SpawnFails, AllSpawned, ProbeAccepts
<1>2. CASE SignalSeen \/ ExitSeen
  BY <1>2 DEF SignalSeen, ExitSeen, Zombie
<1>3. CASE WaitForExit \/ WaitForGrace
  <2>1. child' = Reaped /\ next' = 1 /\ UNCHANGED terminated
    BY <1>3 DEF WaitForExit, WaitForGrace, WaitPass
  <2>2. stage' \in {"waiting", "requesting", "grace", "killing", "returned"}
    BY <1>3 DEF WaitForExit, WaitForGrace, WaitPass
  <2>3. child' \in [Child -> {"unborn", "running", "zombie", "reaped"}]
    BY <2>1 DEF Reaped
  <2> QED BY <2>1, <2>2, <2>3
<1>4. CASE CheckBeforeTerminate
  BY <1>4 DEF CheckBeforeTerminate, Reaped, Alive
<1>5. CASE SendTerminate
  BY <1>5 DEF SendTerminate
<1>6. CASE KillChild
  BY <1>6 DEF KillChild
<1>9. CASE AllRequested \/ AllKilled
  BY <1>9 DEF AllRequested, AllKilled
<1>7. CASE ReturnEarly \/ SignalArrives \/ Returned \/ UNCHANGED supervisorVars
  BY <1>7 DEF ReturnEarly, SignalArrives, Returned, supervisorVars
<1>8. ASSUME NEW c \in Child, ChildExits(c) PROVE ValuesOK'
  BY <1>8 DEF ChildExits, Alive
<1> QED
  BY <1>0, <1>1, <1>2, <1>3, <1>4, <1>5, <1>6, <1>7, <1>8, <1>9 DEF SupervisorNext, Supervise

(* The flags stay flags. *)
LEMMA FlagsStep == FlagsOK /\ [SupervisorNext]_supervisorVars => FlagsOK'
<1> SUFFICES ASSUME FlagsOK, [SupervisorNext]_supervisorVars PROVE FlagsOK'
  OBVIOUS
<1> USE DEF FlagsOK, history
<1>1. CASE SpawnChild \/ SpawnFails \/ AllSpawned \/ ProbeAccepts \/ ReturnEarly
  BY <1>1, Zenon DEF SpawnChild, SpawnFails, AllSpawned, ProbeAccepts, ReturnEarly
<1>2. CASE SignalSeen \/ ExitSeen \/ WaitForExit \/ WaitForGrace
  BY <1>2, Zenon DEF SignalSeen, ExitSeen, WaitForExit, WaitForGrace, WaitPass
<1>3. CASE CheckBeforeTerminate \/ SendTerminate \/ AllRequested \/ KillChild \/ AllKilled
  BY <1>3, Zenon DEF CheckBeforeTerminate, SendTerminate, AllRequested, KillChild, AllKilled
<1>4. CASE SignalArrives \/ Returned \/ UNCHANGED supervisorVars
  BY <1>4, Zenon DEF SignalArrives, Returned, supervisorVars
<1>5. ASSUME NEW c \in Child, ChildExits(c) PROVE FlagsOK'
  BY <1>5, Zenon DEF ChildExits
<1> QED
  BY <1>1, <1>2, <1>3, <1>4, <1>5, Zenon DEF SupervisorNext, Supervise

(* Every way to "returned" that is not early finds no child left. *)
LEMMA ReturnStep == SupervisorInv /\ [SupervisorNext]_supervisorVars => NoChildLeft'
<1> SUFFICES ASSUME SupervisorInv, [SupervisorNext]_supervisorVars PROVE NoChildLeft'
  OBVIOUS
<1> USE NAssumption DEF SupervisorInv, SupervisorTypeOK, ValuesOK, NoChildLeft, Child, history
<1>1. CASE SpawnChild \/ SpawnFails \/ AllSpawned \/ ProbeAccepts
  BY <1>1 DEF SpawnChild, SpawnFails, AllSpawned, ProbeAccepts
<1>2. CASE SignalSeen \/ ExitSeen
  BY <1>2 DEF SignalSeen, ExitSeen, Zombie
<1>3. CASE WaitForExit \/ WaitForGrace
  BY <1>3 DEF WaitForExit, WaitForGrace, WaitPass, Reaped, Alive
<1>4. CASE CheckBeforeTerminate \/ SendTerminate \/ AllRequested
  BY <1>4 DEF CheckBeforeTerminate, SendTerminate, AllRequested
<1>5. CASE KillChild
  BY <1>5 DEF KillChild
<1>6. CASE AllKilled
  BY <1>6 DEF AllKilled, KilledSoFar, Gone
<1>7. CASE ReturnEarly \/ SignalArrives \/ Returned \/ UNCHANGED supervisorVars
  BY <1>7 DEF ReturnEarly, SignalArrives, Returned, supervisorVars
<1>8. ASSUME NEW c \in Child, ChildExits(c) PROVE NoChildLeft'
  BY <1>8 DEF ChildExits, Alive
<1> QED
  BY <1>1, <1>2, <1>3, <1>4, <1>5, <1>6, <1>7, <1>8 DEF SupervisorNext, Supervise

(* A child behind the last loop stays gone: it is not there to exit. *)
LEMMA KillStep == SupervisorInv /\ [SupervisorNext]_supervisorVars => KilledSoFar'
<1> SUFFICES ASSUME SupervisorInv, [SupervisorNext]_supervisorVars PROVE KilledSoFar'
  OBVIOUS
<1> USE NAssumption DEF SupervisorInv, SupervisorTypeOK, ValuesOK, KilledSoFar, Gone, Child, history
<1>1. CASE SpawnChild \/ SpawnFails \/ AllSpawned \/ ProbeAccepts \/ SignalSeen \/ ExitSeen
  BY <1>1 DEF SpawnChild, SpawnFails, AllSpawned, ProbeAccepts, SignalSeen, ExitSeen
<1>2. CASE WaitForExit \/ WaitForGrace
  BY <1>2 DEF WaitForExit, WaitForGrace, WaitPass
<1>3. CASE CheckBeforeTerminate \/ SendTerminate \/ AllRequested
  BY <1>3 DEF CheckBeforeTerminate, SendTerminate, AllRequested
<1>4. CASE KillChild
  BY <1>4 DEF KillChild
<1>5. CASE AllKilled \/ ReturnEarly \/ SignalArrives \/ Returned \/ UNCHANGED supervisorVars
  BY <1>5 DEF AllKilled, ReturnEarly, SignalArrives, Returned, supervisorVars
<1>6. ASSUME NEW c \in Child, ChildExits(c) PROVE KilledSoFar'
  BY <1>6 DEF ChildExits, Alive
<1> QED
  BY <1>1, <1>2, <1>3, <1>4, <1>5, <1>6 DEF SupervisorNext, Supervise

(* The target of a signal may exit meanwhile, but nothing reaps it. *)
LEMMA SignalStep == SupervisorInv /\ [SupervisorNext]_supervisorVars => SignalTarget' /\ ShutdownPublished'
<1> SUFFICES ASSUME SupervisorInv, [SupervisorNext]_supervisorVars PROVE SignalTarget' /\ ShutdownPublished'
  OBVIOUS
<1> USE NAssumption DEF SupervisorInv, SupervisorTypeOK, ValuesOK, SignalTarget, ShutdownPublished, Child, history
<1>1. CASE SpawnChild \/ SpawnFails \/ AllSpawned \/ ProbeAccepts \/ SignalSeen \/ ExitSeen
  BY <1>1 DEF SpawnChild, SpawnFails, AllSpawned, ProbeAccepts, SignalSeen, ExitSeen
<1>2. CASE WaitForExit \/ WaitForGrace
  BY <1>2 DEF WaitForExit, WaitForGrace, WaitPass
<1>3. CASE CheckBeforeTerminate \/ SendTerminate \/ AllRequested
  BY <1>3 DEF CheckBeforeTerminate, SendTerminate, AllRequested, Alive
<1>4. CASE KillChild \/ AllKilled \/ ReturnEarly \/ SignalArrives \/ Returned \/ UNCHANGED supervisorVars
  BY <1>4 DEF KillChild, AllKilled, ReturnEarly, SignalArrives, Returned, supervisorVars
<1>5. ASSUME NEW c \in Child, ChildExits(c) PROVE SignalTarget' /\ ShutdownPublished'
  BY <1>5 DEF ChildExits, Alive
<1> QED
  BY <1>1, <1>2, <1>3, <1>4, <1>5 DEF SupervisorNext, Supervise

(* The inductive invariant holds initially and is kept. *)
LEMMA SupervisorInvariance == SupervisorSpec => []SupervisorInv
<1>1. SupervisorInit => SupervisorInv
  <2> SUFFICES ASSUME SupervisorInit PROVE SupervisorInv
    OBVIOUS
  <2>1. ValuesOK BY NAssumption DEF SupervisorInit, ValuesOK, Child
  <2>2. FlagsOK BY Zenon DEF SupervisorInit, FlagsOK
  <2>3. NoChildLeft /\ KilledSoFar /\ SignalTarget /\ ShutdownPublished
    BY DEF SupervisorInit, NoChildLeft, KilledSoFar, SignalTarget, ShutdownPublished
  <2> QED BY <2>1, <2>2, <2>3 DEF SupervisorInv, SupervisorTypeOK
<1>2. SupervisorInv /\ [SupervisorNext]_supervisorVars => SupervisorInv'
  <2> SUFFICES ASSUME SupervisorInv, [SupervisorNext]_supervisorVars PROVE SupervisorInv'
    OBVIOUS
  <2>1. SupervisorTypeOK' BY ValuesStep, FlagsStep DEF SupervisorInv, SupervisorTypeOK
  <2>2. NoChildLeft' BY ReturnStep
  <2>3. KilledSoFar' BY KillStep
  <2>4. SignalTarget' /\ ShutdownPublished' BY SignalStep
  <2> QED BY <2>1, <2>2, <2>3, <2>4 DEF SupervisorInv
<1> QED BY <1>1, <1>2, PTL DEF SupervisorSpec

(* Type correctness, for any number of children. *)
THEOREM SupervisorTyping == SupervisorSpec => []SupervisorTypeOK
<1>1. SupervisorInv => SupervisorTypeOK BY DEF SupervisorInv
<1> QED BY <1>1, SupervisorInvariance, PTL

(* However the children behave and wherever spawning stops, a regular return *)
(* of run_with_config or spawn_collect_children leaves no child unreaped.    *)
THEOREM NoneIsLeft == SupervisorSpec => []NoChildLeft
<1>1. SupervisorInv => NoChildLeft BY DEF SupervisorInv
<1> QED BY <1>1, SupervisorInvariance, PTL

(* SIGTERM goes only to process ids the controller still owns, and only      *)
(* after Shutdown was published.                                             *)
THEOREM OnlyOwnChildren == SupervisorSpec => SignalsOwnChild
<1> DEFINE OwnStep == \A c \in terminated' \ terminated :
                         shutdown_sent /\ child[c] \in {"running", "zombie"}
<1>1. SupervisorInv /\ [SupervisorNext]_supervisorVars => [OwnStep]_supervisorVars
  <2> SUFFICES ASSUME SupervisorInv, SupervisorNext PROVE OwnStep
    BY DEF supervisorVars
  <2>1. CASE SendTerminate
    BY <2>1 DEF SendTerminate, SupervisorInv, SignalTarget, ShutdownPublished
  <2>2. CASE ~SendTerminate
    <3>1. terminated' = terminated
      BY <2>2 DEF SupervisorNext, Supervise, SpawnChild, SpawnFails, AllSpawned, ProbeAccepts, ReturnEarly,
                  SignalSeen, ExitSeen, WaitForExit, WaitForGrace, WaitPass,
                  CheckBeforeTerminate, AllRequested, KillChild, AllKilled, ChildExits,
                  SignalArrives, Returned, history, supervisorVars
    <3> QED BY <3>1
  <2> QED BY <2>1, <2>2
<1>2. SignalsOwnChild <=> [][OwnStep]_supervisorVars
  BY PTL DEF SignalsOwnChild
<1> QED BY <1>1, <1>2, SupervisorInvariance, PTL DEF SupervisorSpec

-----------------------------------------------------------------------------
(* The setup wizard: its pairings *)

Pair == [leader : Row, follower : Row, mapping : Range(Policies)]

(* A set of numbers with 0 in it and, with each, the next has them all.      *)
LEMMA AllNumbers ==
  ASSUME NEW P, 0 \in P, \A n \in Nat : n \in P => n + 1 \in P
  PROVE  Nat \subseteq P
<1> SUFFICES ASSUME ~(Nat \subseteq P) PROVE FALSE
  OBVIOUS
<1> DEFINE R == OpToRel(<, Nat)
           T == Nat \ P
<1>1. IsWellFoundedOn(R, Nat)
  BY NatLessThanWellFounded
<1>2. \A a, b \in Nat : a < b => <<a, b>> \in R
  BY DEF OpToRel
<1> HIDE DEF R
<1>3. T \subseteq Nat /\ T # {}
  OBVIOUS
<1>4. PICK x \in T : \A y \in T : ~(<<y, x>> \in R)
  <2> HIDE DEF T
  <2> QED
    BY <1>1, <1>3, WFMin
<1>5. x \in Nat /\ x # 0
  OBVIOUS
<1>6. x - 1 \in Nat /\ x - 1 < x /\ (x - 1) + 1 = x
  BY <1>5
<1>7. x - 1 \in P
  BY <1>2, <1>4, <1>5, <1>6
<1> QED
  BY <1>6, <1>7

(* One sequence is made of elements of another, each taken at most once.     *)
TakenFrom(s, t) ==
  \E h \in [1 .. Len(s) -> 1 .. Len(t)] :
    /\ \A i, j \in 1 .. Len(s) : h[i] = h[j] => i = j
    /\ \A i \in 1 .. Len(s) : s[i] = t[h[i]]

(* f goes through the first n elements of s and retains those in K.          *)
Retains(f, s, K, n) ==
  f = [i \in 0 .. n |-> IF i = 0 THEN <<>>
                        ELSE IF s[i] \in K THEN Append(f[i - 1], s[i]) ELSE f[i - 1]]

(* Retaining elements one by one, as Vec::retain does, is well defined.      *)
LEMMA RetainExists == \A s, K : \A n \in Nat : \E f : Retains(f, s, K, n)
<1> SUFFICES ASSUME NEW s, NEW K PROVE \A n \in Nat : \E f : Retains(f, s, K, n)
  OBVIOUS
<1> DEFINE Def(f, n) == [i \in 0 .. n |-> IF i = 0 THEN <<>>
                                          ELSE IF s[i] \in K THEN Append(f[i - 1], s[i])
                                               ELSE f[i - 1]]
           P == {n \in Nat : \E f : Retains(f, s, K, n)}
<1>1. 0 \in P
  <2> DEFINE g == [i \in 0 .. 0 |-> <<>>]
  <2>1. g = Def(g, 0)
    OBVIOUS
  <2> HIDE DEF g
  <2>2. Retains(g, s, K, 0)
    BY <2>1 DEF Retains
  <2> QED
    BY <2>2
<1>2. ASSUME NEW n \in Nat, n \in P PROVE n + 1 \in P
  <2>1. PICK f : f = Def(f, n)
    BY <1>2 DEF Retains
  <2> DEFINE g == [i \in 0 .. n + 1 |->
                     IF i <= n THEN f[i]
                     ELSE IF s[i] \in K THEN Append(f[i - 1], s[i]) ELSE f[i - 1]]
  <2>2. ASSUME NEW i \in 0 .. n + 1 PROVE g[i] = Def(g, n + 1)[i]
    <3>1. CASE i = 0
      <4>1. f[0] = <<>>
        BY <2>1
      <4> QED
        BY <3>1, <4>1
    <3>2. CASE i # 0 /\ i <= n
      <4>1. i \in 0 .. n /\ i - 1 \in 0 .. n /\ i - 1 \in 0 .. n + 1 /\ i - 1 <= n
        BY <3>2
      <4>2. f[i] = IF s[i] \in K THEN Append(f[i - 1], s[i]) ELSE f[i - 1]
        BY <2>1, <3>2, <4>1
      <4>3. g[i] = f[i] /\ g[i - 1] = f[i - 1]
        BY <3>2, <4>1
      <4> QED
        BY <3>2, <4>2, <4>3
    <3>3. CASE ~(i <= n)
      <4>1. i = n + 1 /\ i - 1 \in 0 .. n + 1 /\ i - 1 <= n /\ i # 0
        BY <3>3
      <4>2. g[i - 1] = f[i - 1]
        BY <4>1
      <4> QED
        BY <3>3, <4>1, <4>2
    <3> QED
      BY <3>1, <3>2, <3>3
  <2>3. g = Def(g, n + 1)
    BY <2>2
  <2> HIDE DEF g
  <2>4. Retains(g, s, K, n + 1)
    BY <2>3 DEF Retains
  <2> QED
    BY <1>2, <2>4
<1>3. Nat \subseteq P
  <2> HIDE DEF P
  <2> QED
    BY <1>1, <1>2, AllNumbers
<1> QED
  BY <1>3

(* r is made of elements of K among the first m of s, each taken once.       *)
Retained(r, S, s, K, m) ==
  /\ r \in Seq(S)
  /\ \A i \in 1 .. Len(r) : r[i] \in K
  /\ \E h \in [1 .. Len(r) -> 1 .. m] :
       /\ \A i, j \in 1 .. Len(r) : h[i] = h[j] => i = j
       /\ \A i \in 1 .. Len(r) : r[i] = s[h[i]]

(* The recurrence of f, at every index of s.                                 *)
Retaining(f, s, K) ==
  /\ f[0] = <<>>
  /\ \A i \in 1 .. Len(s) : f[i] = IF s[i] \in K THEN Append(f[i - 1], s[i]) ELSE f[i - 1]

(* What is retained is taken from the sequence and has the property.         *)
LEMMA RetainTakes ==
  ASSUME NEW S, NEW s \in Seq(S), NEW K, NEW f, NEW m \in 0 .. Len(s), Retaining(f, s, K)
  PROVE  Retained(f[m], S, s, K, m)
<1> DEFINE Good(n) == Retained(f[n], S, s, K, n)
           P == {n \in Nat : n <= Len(s) => Good(n)}
<1>0. Len(s) \in Nat
  OBVIOUS
<1>1. 0 \in P
  <2>1. f[0] = <<>>
    BY DEF Retaining
  <2>2. <<>> \in Seq(S) /\ Len(<<>>) = 0
    BY EmptySeq
  <2>3. 1 .. Len(f[0]) = {}
    BY <2>1, <2>2
  <2> DEFINE h == [i \in {} |-> 0]
  <2>4. h \in [1 .. Len(f[0]) -> 1 .. 0]
    BY <2>3
  <2> HIDE DEF h
  <2>5. Good(0)
    BY <2>1, <2>2, <2>3, <2>4 DEF Retained
  <2> QED
    BY <2>5
<1>2. ASSUME NEW n \in Nat, n \in P PROVE n + 1 \in P
  <2> HIDE DEF Good
  <2> SUFFICES ASSUME n + 1 <= Len(s) PROVE Good(n + 1)
    BY <1>2
  <2>1. n \in Nat /\ n <= Len(s) /\ n + 1 \in 1 .. Len(s) /\ (n + 1) - 1 = n
    BY <1>0, <1>2
  <2>2. Good(n)
    BY <1>2, <2>1
  <2>3. f[n + 1] = IF s[n + 1] \in K THEN Append(f[n], s[n + 1]) ELSE f[n]
    BY <2>1 DEF Retaining
  <2>4. s[n + 1] \in S
    BY <2>1, ElementOfSeq
  <2>5. PICK h \in [1 .. Len(f[n]) -> 1 .. n] :
          /\ \A i, j \in 1 .. Len(f[n]) : h[i] = h[j] => i = j
          /\ \A i \in 1 .. Len(f[n]) : f[n][i] = s[h[i]]
    BY <2>2 DEF Good, Retained
  <2>6. f[n] \in Seq(S) /\ \A i \in 1 .. Len(f[n]) : f[n][i] \in K
    BY <2>2 DEF Good, Retained
  <2>7. CASE s[n + 1] \notin K
    <3>1. f[n + 1] = f[n]
      BY <2>3, <2>7
    <3>2. h \in [1 .. Len(f[n]) -> 1 .. n + 1]
      BY <2>1, <2>5
    <3>3. /\ \A i, j \in 1 .. Len(f[n]) : h[i] = h[j] => i = j
          /\ \A i \in 1 .. Len(f[n]) : f[n][i] = s[h[i]]
      BY <2>5
    <3>4. Retained(f[n], S, s, K, n + 1)
      BY <2>6, <3>2, <3>3 DEF Retained
    <3> QED
      BY <3>1, <3>4 DEF Good
  <2>8. CASE s[n + 1] \in K
    <3> DEFINE k == Len(f[n])
               g == [i \in 1 .. k + 1 |-> IF i <= k THEN h[i] ELSE n + 1]
    <3>1. f[n + 1] = Append(f[n], s[n + 1])
      BY <2>3, <2>8
    <3>2. /\ k \in Nat /\ f[n + 1] \in Seq(S) /\ Len(f[n + 1]) = k + 1
          /\ \A i \in 1 .. k : f[n + 1][i] = f[n][i]
          /\ f[n + 1][k + 1] = s[n + 1]
      BY <2>4, <2>6, <3>1, AppendProperties, LenProperties
    <3> HIDE DEF k
    <3>3. \A i \in 1 .. k : h[i] \in 1 .. n
      BY <2>5 DEF k
    <3>4. g \in [1 .. k + 1 -> 1 .. n + 1]
      BY <2>1, <3>2, <3>3
    <3>5. ASSUME NEW i \in 1 .. k + 1, NEW j \in 1 .. k + 1, g[i] = g[j] PROVE i = j
      <4>1. CASE i <= k /\ j <= k
        <5>1. i \in 1 .. k /\ j \in 1 .. k /\ h[i] = h[j]
          BY <3>2, <3>5, <4>1
        <5> QED
          BY <2>5, <5>1 DEF k
      <4>2. CASE i <= k /\ ~(j <= k)
        <5>1. h[i] = n + 1 /\ i \in 1 .. k
          BY <3>2, <3>5, <4>2
        <5> QED
          BY <2>1, <3>3, <5>1
      <4>3. CASE ~(i <= k) /\ j <= k
        <5>1. h[j] = n + 1 /\ j \in 1 .. k
          BY <3>2, <3>5, <4>3
        <5> QED
          BY <2>1, <3>3, <5>1
      <4>4. CASE ~(i <= k) /\ ~(j <= k)
        BY <3>2, <3>5, <4>4
      <4> QED
        BY <4>1, <4>2, <4>3, <4>4
    <3>6. ASSUME NEW i \in 1 .. k + 1 PROVE f[n + 1][i] \in K /\ f[n + 1][i] = s[g[i]]
      <4>1. CASE i <= k
        <5>1. i \in 1 .. k /\ g[i] = h[i]
          BY <3>2, <4>1
        <5> QED
          BY <2>5, <2>6, <3>2, <5>1 DEF k
      <4>2. CASE ~(i <= k)
        <5>1. i = k + 1 /\ g[i] = n + 1
          BY <3>2, <4>2
        <5> QED
          BY <2>8, <3>2, <5>1
      <4> QED
        BY <4>1, <4>2
    <3> HIDE DEF g
    <3>7. /\ f[n + 1] \in Seq(S) /\ \A i \in 1 .. Len(f[n + 1]) : f[n + 1][i] \in K
          /\ g \in [1 .. Len(f[n + 1]) -> 1 .. n + 1]
          /\ \A i, j \in 1 .. Len(f[n + 1]) : g[i] = g[j] => i = j
          /\ \A i \in 1 .. Len(f[n + 1]) : f[n + 1][i] = s[g[i]]
      BY <3>2, <3>4, <3>5, <3>6
    <3> QED
      BY <3>7 DEF Good, Retained
  <2> QED
    BY <2>7, <2>8
<1>3. Nat \subseteq P
  <2> HIDE DEF P
  <2> QED
    BY <1>1, <1>2, AllNumbers
<1>4. m \in P /\ m <= Len(s)
  BY <1>0, <1>3
<1> QED
  BY <1>4

(* prune_invalid_pairings keeps pairings of the project, each once, and only *)
(* those whose two devices are left.                                         *)
LEMMA PruneKeeps ==
  ASSUME pairings \in Seq(Pair), NEW cfg
  PROVE  /\ PrunePairings(cfg) \in Seq(Pair)
         /\ TakenFrom(PrunePairings(cfg), pairings)
         /\ \A i \in 1 .. Len(PrunePairings(cfg)) :
              {PrunePairings(cfg)[i].leader, PrunePairings(cfg)[i].follower} \subseteq DOMAIN cfg
<1> DEFINE n == Len(pairings)
           K == {p \in Pair : {p.leader, p.follower} \subseteq DOMAIN cfg}
           Pruned == CHOOSE f : f = [i \in 0 .. n |->
                       IF i = 0 THEN <<>>
                       ELSE IF {pairings[i].leader, pairings[i].follower} \subseteq DOMAIN cfg
                            THEN Append(f[i - 1], pairings[i]) ELSE f[i - 1]]
<1>1. PrunePairings(cfg) = Pruned[n]
  BY DEF PrunePairings
<1>2. n \in Nat /\ \A i \in 1 .. n : pairings[i] \in Pair
  BY ElementOfSeq
<1>3. \A i \in 1 .. n : pairings[i] \in K <=>
        {pairings[i].leader, pairings[i].follower} \subseteq DOMAIN cfg
  BY <1>2
<1>4. PICK f : Retains(f, pairings, K, n)
  <2> HIDE DEF K, n
  <2> QED
    BY <1>2, RetainExists
<1>5. f = [i \in 0 .. n |->
             IF i = 0 THEN <<>>
             ELSE IF {pairings[i].leader, pairings[i].follower} \subseteq DOMAIN cfg
                  THEN Append(f[i - 1], pairings[i]) ELSE f[i - 1]]
  <2> HIDE DEF K, n
  <2>1. \A i \in 0 .. n : i # 0 => i \in 1 .. n
    BY <1>2
  <2> QED
    BY <1>3, <1>4, <2>1 DEF Retains
<1>6. Pruned = [i \in 0 .. n |->
                  IF i = 0 THEN <<>>
                  ELSE IF {pairings[i].leader, pairings[i].follower} \subseteq DOMAIN cfg
                       THEN Append(Pruned[i - 1], pairings[i]) ELSE Pruned[i - 1]]
  BY <1>5
<1> HIDE DEF Pruned
<1>7. /\ Pruned[0] = <<>>
      /\ \A i \in 1 .. n : Pruned[i] = IF pairings[i] \in K THEN Append(Pruned[i - 1], pairings[i])
                                       ELSE Pruned[i - 1]
  <2> HIDE DEF K, n
  <2>1. 0 \in 0 .. n /\ \A i \in 1 .. n : i \in 0 .. n /\ i # 0
    BY <1>2
  <2> QED
    BY <1>3, <1>6, <2>1
<1>8. Retained(Pruned[n], Pair, pairings, K, n)
  <2> HIDE DEF K
  <2>1. n \in 0 .. Len(pairings) /\ n = Len(pairings)
    BY <1>2
  <2>2. Retaining(Pruned, pairings, K)
    BY <1>7, <2>1 DEF Retaining
  <2> HIDE DEF n
  <2> QED
    BY <2>1, <2>2, RetainTakes
<1> DEFINE r == PrunePairings(cfg)
<1>9. Retained(r, Pair, pairings, K, n)
  BY <1>1, <1>8
<1> HIDE DEF r
<1>10. /\ r \in Seq(Pair)
       /\ \A i \in 1 .. Len(r) : r[i] \in K
       /\ TakenFrom(r, pairings)
  <2> HIDE DEF K
  <2> QED
    BY <1>9 DEF Retained, TakenFrom
<1>11. \A i \in 1 .. Len(r) : {r[i].leader, r[i].follower} \subseteq DOMAIN cfg
  BY <1>10
<1> QED
  BY <1>10, <1>11 DEF r

(* PairingsSound of a project.                                               *)
Sound(cfg, pairs) ==
  /\ \A i \in 1 .. Len(pairs) :
       /\ {pairs[i].leader, pairs[i].follower} \subseteq DOMAIN cfg
       /\ pairs[i].leader # pairs[i].follower
  /\ \A i, j \in 1 .. Len(pairs) : pairs[i].follower = pairs[j].follower => i = j

(* Pairings taken from sound ones are sound while their devices are there.   *)
LEMMA TakenSound ==
  ASSUME NEW old, NEW pairs \in Seq(Pair), NEW cfg, NEW s \in Seq(Pair), Sound(old, pairs),
         TakenFrom(s, pairs),
         \A i \in 1 .. Len(s) : {s[i].leader, s[i].follower} \subseteq DOMAIN cfg
  PROVE  Sound(cfg, s)
<1>1. PICK h \in [1 .. Len(s) -> 1 .. Len(pairs)] :
        /\ \A i, j \in 1 .. Len(s) : h[i] = h[j] => i = j
        /\ \A i \in 1 .. Len(s) : s[i] = pairs[h[i]]
  BY DEF TakenFrom
<1>2. \A i \in 1 .. Len(s) : h[i] \in 1 .. Len(pairs)
  BY <1>1
<1>3. ASSUME NEW i \in 1 .. Len(s) PROVE s[i].leader # s[i].follower
  BY <1>1, <1>2 DEF Sound
<1>4. ASSUME NEW i \in 1 .. Len(s), NEW j \in 1 .. Len(s), s[i].follower = s[j].follower
      PROVE  i = j
  <2>1. h[i] \in 1 .. Len(pairs) /\ h[j] \in 1 .. Len(pairs)
    BY <1>2, <1>4
  <2>2. pairs[h[i]].follower = pairs[h[j]].follower
    BY <1>1, <1>4
  <2>3. h[i] = h[j]
    BY <2>1, <2>2 DEF Sound
  <2> QED
    BY <1>1, <1>4, <2>3
<1> QED
  BY <1>3, <1>4 DEF Sound

(* What setup_remove_pairing leaves is taken from the pairings.              *)
LEMMA RemoveTakes ==
  ASSUME NEW pairs \in Seq(Pair), NEW i \in DOMAIN pairs
  PROVE  RemoveAt(pairs, i) \in Seq(Pair) /\ TakenFrom(RemoveAt(pairs, i), pairs)
<1> DEFINE n == Len(pairs)
           s == SubSeq(pairs, 1, i - 1)
           t == SubSeq(pairs, i + 1, n)
<1>1. n \in Nat /\ i \in 1 .. n /\ n = Len(pairs) /\ i \in Int /\ i - 1 \in Int /\ i + 1 \in Int
      /\ n \in Int
  BY LenProperties
<1>0. RemoveAt(pairs, i) = s \o t
  BY DEF RemoveAt
<1> HIDE DEF n
<1>2. \A j \in 1 .. n : pairs[j] \in Pair
  BY <1>1, ElementOfSeq
<1>3. /\ s \in Seq(Pair) /\ Len(s) = i - 1 /\ \A j \in 1 .. i - 1 : s[j] = pairs[j]
  <2>1. \A j \in 1 .. i - 1 : pairs[j] \in Pair
    BY <1>1, <1>2
  <2>2. /\ s \in Seq(Pair) /\ Len(s) = IF 1 <= i - 1 THEN (i - 1) - 1 + 1 ELSE 0
        /\ \A j \in 1 .. (i - 1) - 1 + 1 : s[j] = pairs[1 + j - 1]
    BY <1>1, <2>1, SubSeqProperties
  <2> HIDE DEF s
  <2> QED
    BY <1>1, <2>2
<1>4. /\ t \in Seq(Pair) /\ Len(t) = n - i /\ \A j \in 1 .. n - i : t[j] = pairs[i + j]
  <2>1. \A j \in i + 1 .. n : pairs[j] \in Pair
    BY <1>1, <1>2
  <2>2. /\ t \in Seq(Pair) /\ Len(t) = IF i + 1 <= n THEN n - (i + 1) + 1 ELSE 0
        /\ \A j \in 1 .. n - (i + 1) + 1 : t[j] = pairs[(i + 1) + j - 1]
    <3>1. i + 1 \in Int /\ n \in Int
      BY <1>1
    <3> QED
      BY <2>1, <3>1, SubSeqProperties
  <2> HIDE DEF t
  <2>3. /\ n - (i + 1) + 1 = n - i /\ (i + 1 <= n \/ n - i = 0)
        /\ \A j \in 1 .. n - i : (i + 1) + j - 1 = i + j
    BY <1>1
  <2>4. \A j \in 1 .. n - i : t[j] = pairs[i + j]
    BY <2>2, <2>3
  <2> QED
    BY <2>2, <2>3, <2>4
<1> HIDE DEF s, t
<1> DEFINE r == s \o t
<1>6. /\ r \in Seq(Pair) /\ Len(r) = n - 1
      /\ \A j \in 1 .. n - 1 : r[j] = IF j <= i - 1 THEN s[j] ELSE t[j - (i - 1)]
  <2>1. /\ r \in Seq(Pair) /\ Len(r) = Len(s) + Len(t)
        /\ \A j \in 1 .. Len(s) + Len(t) : r[j] = IF j <= Len(s) THEN s[j] ELSE t[j - Len(s)]
    BY <1>3, <1>4, ConcatProperties
  <2> HIDE DEF r
  <2>2. Len(s) + Len(t) = n - 1
    <3>1. (i - 1) + (n - i) = n - 1
      BY <1>1
    <3> QED
      BY <1>3, <1>4, <3>1
  <2> QED
    BY <1>3, <2>1, <2>2
<1> HIDE DEF r
<1> DEFINE h == [j \in 1 .. n - 1 |-> IF j <= i - 1 THEN j ELSE j + 1]
<1>7. h \in [1 .. n - 1 -> 1 .. n]
  BY <1>1
<1>8. \A j, k \in 1 .. n - 1 : h[j] = h[k] => j = k
  BY <1>1
<1>9. ASSUME NEW j \in 1 .. n - 1 PROVE r[j] = pairs[h[j]]
  <2>1. CASE j <= i - 1
    <3>1. j \in 1 .. i - 1 /\ h[j] = j
      BY <1>1, <2>1
    <3> QED
      BY <1>3, <1>6, <2>1, <3>1
  <2>2. CASE ~(j <= i - 1)
    <3>1. j - (i - 1) \in 1 .. n - i /\ i + (j - (i - 1)) = j + 1 /\ h[j] = j + 1
      BY <1>1, <2>2
    <3>2. t[j - (i - 1)] = pairs[i + (j - (i - 1))]
      BY <1>4, <3>1
    <3> QED
      BY <1>6, <2>2, <3>1, <3>2
  <2> QED
    BY <2>1, <2>2
<1> HIDE DEF h
<1>10. h \in [1 .. Len(r) -> 1 .. Len(pairs)]
  BY <1>1, <1>6, <1>7
<1>11. 1 .. Len(r) = 1 .. n - 1
  BY <1>6
<1>12. \A j, k \in 1 .. Len(r) : h[j] = h[k] => j = k
  BY <1>8, <1>11
<1>13. \A j \in 1 .. Len(r) : r[j] = pairs[h[j]]
  BY <1>9, <1>11
<1>14. TakenFrom(r, pairs)
  BY <1>10, <1>12, <1>13 DEF TakenFrom
<1> QED
  BY <1>0, <1>6, <1>14 DEF r

(* A new pairing whose follower follows nobody else keeps them sound.        *)
LEMMA AppendSound ==
  ASSUME NEW pairs \in Seq(Pair), NEW old, NEW cfg, Sound(old, pairs), DOMAIN cfg = DOMAIN old,
         NEW p \in Pair, {p.leader, p.follower} \subseteq DOMAIN cfg, p.leader # p.follower,
         \A i \in 1 .. Len(pairs) : p.follower # pairs[i].follower
  PROVE  Append(pairs, p) \in Seq(Pair) /\ Sound(cfg, Append(pairs, p))
<1> DEFINE n == Len(pairs)
           r == Append(pairs, p)
<1>1. /\ n \in Nat /\ r \in Seq(Pair) /\ Len(r) = n + 1 /\ n = Len(pairs)
      /\ \A i \in 1 .. n : r[i] = pairs[i]
      /\ r[n + 1] = p
  BY AppendProperties, LenProperties
<1> HIDE DEF n, r
<1>2. \A i \in 1 .. n + 1 : i \in 1 .. n \/ i = n + 1
  BY <1>1
<1>3. \A i \in 1 .. n + 1 : /\ {r[i].leader, r[i].follower} \subseteq DOMAIN cfg
                            /\ r[i].leader # r[i].follower
  BY <1>1, <1>2 DEF Sound
<1>4. ASSUME NEW i \in 1 .. n + 1, NEW j \in 1 .. n + 1, r[i].follower = r[j].follower
      PROVE  i = j
  BY <1>1, <1>2, <1>4 DEF Sound
<1> QED
  BY <1>1, <1>3, <1>4 DEF Sound, r

(* So does a pairing put in the place of another.                            *)
LEMMA ExceptSound ==
  ASSUME NEW pairs \in Seq(Pair), NEW old, NEW cfg, Sound(old, pairs), DOMAIN cfg = DOMAIN old,
         NEW k \in DOMAIN pairs,
         NEW p \in Pair, {p.leader, p.follower} \subseteq DOMAIN cfg, p.leader # p.follower,
         \A i \in DOMAIN pairs \ {k} : p.follower # pairs[i].follower
  PROVE  [pairs EXCEPT ![k] = p] \in Seq(Pair) /\ Sound(cfg, [pairs EXCEPT ![k] = p])
<1> DEFINE n == Len(pairs)
           r == [pairs EXCEPT ![k] = p]
<1>1. /\ n \in Nat /\ r \in Seq(Pair) /\ Len(r) = n /\ n = Len(pairs) /\ k \in 1 .. n
      /\ DOMAIN pairs = 1 .. n
      /\ \A i \in 1 .. n : r[i] = IF i = k THEN p ELSE pairs[i]
  BY ExceptSeq, LenProperties
<1> HIDE DEF n, r
<1>2. \A i \in 1 .. n : /\ {r[i].leader, r[i].follower} \subseteq DOMAIN cfg
                        /\ r[i].leader # r[i].follower
  BY <1>1 DEF Sound
<1>3. ASSUME NEW i \in 1 .. n, NEW j \in 1 .. n, r[i].follower = r[j].follower
      PROVE  i = j
  BY <1>1, <1>3 DEF Sound
<1> QED
  BY <1>1, <1>2, <1>3 DEF Sound, r

-----------------------------------------------------------------------------
(* The setup wizard: its session *)

IsProject(cfg) == DOMAIN cfg \subseteq Row /\ cfg \in [DOMAIN cfg -> Channel]

(* The project and the rows of Devices: a row is always a valid channel, and *)
(* the project departs from its row's mode only for a follower.              *)
ProjectInv ==
  /\ IsProject(config) /\ pairings \in Seq(Pair) /\ Sound(config, pairings)
  /\ mirror \in [Row -> Channel] /\ \A r \in Row : ValidChannel(mirror[r])
  /\ \A r \in DOMAIN config : config[r].mode \in {mirror[r].mode, "CommandFollowing"}

(* What is identified is selected, and in Devices unless the session went    *)
(* astray.                                                                   *)
ScreenInv ==
  /\ step \in 1 .. 5 /\ identify \in DOMAIN config \cup {NoRow}
  /\ ~astray /\ identify # NoRow => step = 1

(* What a command does to the project: nothing, an edit that is marked, or   *)
(* half of a pairing that did not validate, which leaves the project invalid *)
(* and unmarked.                                                             *)
HalfTakenBack ==
  /\ UNCHANGED <<mirror, pairings, config_changed>>
  /\ ~Validate(config', pairings')
  /\ DOMAIN config' = DOMAIN config
  /\ \A r \in DOMAIN config : config'[r].mode \in {config[r].mode, "CommandFollowing"}

EditKind ==
  \/ UNCHANGED <<config, mirror, pairings, config_changed>>
  \/ config_changed'
  \/ HalfTakenBack

(* The step of ValidStays.                                                   *)
ValidStep ==
  Validate(config, pairings) =>
    \/ /\ Validate(config', pairings')
       /\ failed' => UNCHANGED <<config, pairings>>
    \/ /\ failed'
       /\ DOMAIN config' = {} \/ \E r \in DOMAIN config' : config'[r].publish = {}
    \/ mirror' # mirror /\ \E r \in DOMAIN config : config'[r] = mirror'[r]

CommandInv == ProjectInv' /\ ScreenInv' /\ EditKind /\ ValidStep

(* The modes and the states.                                                 *)
LEMMA SessionValues ==
  /\ Range(Mode) = {"FreeDrive", "CommandFollowing"}
  /\ Range(Policies) = {"direct-joint", "cartesian", "parallel"}
  /\ \A p \in Range(Policies) : LeaderState(p) \in StateKind
  /\ Len(Steps) = 5 /\ DOMAIN Steps = 1 .. 5
  /\ \A s \in 1 .. 5 : /\ Steps[s] = "Devices" <=> s = 1
                       /\ Steps[s] = "Preview" <=> s = 5
<1>1. Range(Mode) = {"FreeDrive", "CommandFollowing"}
  BY DEF Mode, Range
<1>2. Range(Policies) = {"direct-joint", "cartesian", "parallel"}
  BY DEF Policies, Range
<1>3. \A p \in Range(Policies) : LeaderState(p) \in StateKind
  BY <1>2 DEF LeaderState, StateKind
<1>4. Len(Steps) = 5 /\ DOMAIN Steps = 1 .. 5
  BY DEF Steps
<1>5. \A s \in 1 .. 5 : /\ Steps[s] = "Devices" <=> s = 1
                        /\ Steps[s] = "Preview" <=> s = 5
  BY DEF Steps
<1> QED
  BY <1>1, <1>2, <1>3, <1>4, <1>5

(* What stays the same when a command edits no selection.                    *)
LEMMA ScreenStays ==
  ScreenInv /\ DOMAIN config' = DOMAIN config /\ UNCHANGED <<step, identify, astray>> => ScreenInv'
BY DEF ScreenInv

(* Commands that leave the project as it is.                                 *)
LEMMA StillCommand ==
  ASSUME ProjectInv, ScreenInv', UNCHANGED <<config, mirror, pairings, config_changed>>
  PROVE  CommandInv
<1>1. ProjectInv'
  BY DEF ProjectInv
<1>2. ValidStep
  BY DEF ValidStep
<1> QED
  BY <1>1, <1>2 DEF CommandInv, EditKind

(* setup_advance_step, setup_retreat_step and setup_jump_to_step.            *)
LEMMA StepCommand ==
  ASSUME ProjectInv, ScreenInv, AdvanceStep \/ RetreatStep \/ JumpToStep, UNCHANGED astray
  PROVE  CommandInv
<1>1. PICK s \in 1 .. 5 : Goto(s)
  <2>1. CASE AdvanceStep
    <3>1. step + 1 \in 1 .. 5
      BY <2>1, SessionValues DEF AdvanceStep, ScreenInv
    <3> QED
      BY <2>1, <3>1 DEF AdvanceStep
  <2>2. CASE RetreatStep
    <3>1. step - 1 \in 1 .. 5
      BY <2>2 DEF RetreatStep, ScreenInv
    <3> QED
      BY <2>2, <3>1 DEF RetreatStep
  <2>3. CASE JumpToStep
    BY <2>3, SessionValues DEF JumpToStep
  <2> QED
    BY <2>1, <2>2, <2>3
<1>2. UNCHANGED <<config, mirror, pairings, config_changed>> /\ step' = s
  BY <1>1 DEF Goto
<1>3. identify' = IF s = 1 THEN identify ELSE NoRow
  BY <1>1, SessionValues DEF Goto, LeavesDevices
<1>4. ScreenInv'
  BY <1>2, <1>3 DEF ScreenInv
<1> QED
  BY <1>2, <1>4, StillCommand

(* setup_save, setup_cancel and setup_toggle_identify.                       *)
LEMMA ScreenCommand ==
  ASSUME ProjectInv, ScreenInv,
         \/ (Save \/ Cancel) /\ UNCHANGED astray
         \/ \E r \in Row : ToggleIdentify(r)
  PROVE  CommandInv
<1>1. CASE (Save \/ Cancel) /\ UNCHANGED astray
  <2>1. UNCHANGED <<config, mirror, pairings, config_changed, step, identify>>
    BY <1>1 DEF Save, Cancel
  <2>2. ScreenInv'
    BY <1>1, <2>1 DEF ScreenInv
  <2> QED
    BY <2>1, <2>2, StillCommand
<1>2. ASSUME NEW r \in Row, ToggleIdentify(r) PROVE CommandInv
  <2>1. /\ UNCHANGED <<config, mirror, pairings, config_changed, step>>
        /\ r \in DOMAIN config \cup {identify}
        /\ identify' = IF identify = r THEN NoRow ELSE r
        /\ astray' = (astray \/ (identify # r /\ ~InStep("Devices")))
    BY <1>2 DEF ToggleIdentify
  <2>2. ScreenInv'
    BY <2>1, SessionValues DEF ScreenInv, InStep
  <2> QED
    BY <2>1, <2>2, StillCommand
<1> QED
  BY <1>1, <1>2

(* setup_toggle_device_selection: the pairings of a deselected row go with   *)
(* it.                                                                       *)
LEMMA SelectionCommand ==
  ASSUME ProjectInv, ScreenInv, NEW r \in Row, ToggleDeviceSelection(r), UNCHANGED astray
  PROVE  CommandInv
<1> DEFINE cfg == IF r \in DOMAIN config THEN Restrict(config, DOMAIN config \ {r})
                  ELSE [x \in DOMAIN config \cup {r} |-> IF x = r THEN mirror[r] ELSE config[x]]
<1>1. /\ config' = cfg /\ pairings' = PrunePairings(cfg)
      /\ failed' = ~Validate(cfg, PrunePairings(cfg)) /\ config_changed' = TRUE
      /\ UNCHANGED <<mirror, step>>
      /\ identify' = IF identify = r /\ r \in DOMAIN config THEN NoRow ELSE identify
  BY DEF ToggleDeviceSelection, Commit
<1>2. /\ IsProject(config) /\ pairings \in Seq(Pair) /\ Sound(config, pairings)
      /\ mirror \in [Row -> Channel] /\ \A x \in Row : ValidChannel(mirror[x])
      /\ \A x \in DOMAIN config : config[x].mode \in {mirror[x].mode, "CommandFollowing"}
  BY DEF ProjectInv
<1>3. /\ DOMAIN cfg = IF r \in DOMAIN config THEN DOMAIN config \ {r} ELSE DOMAIN config \cup {r}
      /\ \A x \in DOMAIN cfg : cfg[x] = IF x \in DOMAIN config THEN config[x] ELSE mirror[x]
      /\ cfg = [x \in DOMAIN cfg |-> cfg[x]]
  BY DEF Restrict
<1> HIDE DEF cfg
<1>4. IsProject(cfg)
  <2>1. DOMAIN cfg \subseteq Row
    BY <1>2, <1>3 DEF IsProject
  <2>2. \A x \in DOMAIN cfg : cfg[x] \in Channel
    BY <1>2, <1>3, <2>1 DEF IsProject
  <2> QED
    BY <1>3, <2>1, <2>2 DEF IsProject
<1>5. /\ PrunePairings(cfg) \in Seq(Pair)
      /\ TakenFrom(PrunePairings(cfg), pairings)
      /\ \A i \in 1 .. Len(PrunePairings(cfg)) :
           {PrunePairings(cfg)[i].leader, PrunePairings(cfg)[i].follower} \subseteq DOMAIN cfg
  BY <1>2, PruneKeeps
<1> DEFINE pairs == PrunePairings(cfg)
<1> HIDE DEF pairs
<1>6. pairs \in Seq(Pair) /\ Sound(cfg, pairs)
  BY <1>2, <1>5, TakenSound DEF pairs
<1>7. \A x \in DOMAIN cfg : cfg[x].mode \in {mirror[x].mode, "CommandFollowing"}
  BY <1>2, <1>3
<1>8. ProjectInv'
  BY <1>1, <1>2, <1>4, <1>6, <1>7 DEF ProjectInv, pairs
<1>9. ScreenInv'
  BY <1>1, <1>3 DEF ScreenInv
<1>10. ValidStep
  <2> SUFFICES ASSUME Validate(config, pairings), DOMAIN cfg # {}
               PROVE  Validate(cfg, pairs)
    BY <1>1 DEF ValidStep, pairs
  <2>1. \A x \in DOMAIN cfg : ValidChannel(cfg[x])
    BY <1>2, <1>3, <1>4 DEF Validate, IsProject
  <2>2. ASSUME NEW i \in DOMAIN pairs PROVE ValidPairing(cfg, pairs[i])
    <3>1. i \in 1 .. Len(pairs)
      BY <1>6, LenProperties
    <3>2. PICK j \in DOMAIN pairings : pairs[i] = pairings[j]
      <4>1. DOMAIN pairings = 1 .. Len(pairings)
        BY <1>2, LenProperties
      <4> QED
        BY <1>5, <3>1, <4>1 DEF TakenFrom, pairs
    <3>3. ValidPairing(config, pairs[i])
      BY <3>2 DEF Validate
    <3>4. {pairs[i].leader, pairs[i].follower} \subseteq DOMAIN cfg
      BY <1>6, <3>1 DEF Sound
    <3> QED
      BY <1>3, <3>3, <3>4 DEF ValidPairing
  <2> QED
    BY <2>1, <2>2 DEF Validate
<1> QED
  BY <1>1, <1>8, <1>9, <1>10 DEF CommandInv, EditKind

(* setup_cycle_robot_mode: the project's channel becomes the row's.          *)
LEMMA ModeCommand ==
  ASSUME ProjectInv, ScreenInv, NEW r \in Row, NEW d \in Delta, CycleRobotMode(r, d),
         UNCHANGED astray
  PROVE  CommandInv
<1> DEFINE m == Next1(Mode, mirror[r].mode, d)
<1>1. /\ r \in DOMAIN config
      /\ mirror' = [mirror EXCEPT ![r].mode = m]
      /\ config' = [config EXCEPT ![r] = mirror'[r]]
      /\ config_changed' = TRUE
      /\ UNCHANGED <<pairings, step, identify, failed>>
  BY DEF CycleRobotMode
<1>2. /\ IsProject(config) /\ pairings \in Seq(Pair) /\ Sound(config, pairings)
      /\ mirror \in [Row -> Channel] /\ \A x \in Row : ValidChannel(mirror[x])
      /\ \A x \in DOMAIN config : config[x].mode \in {mirror[x].mode, "CommandFollowing"}
  BY DEF ProjectInv
<1>3. mirror[r].mode \in Range(Mode)
  BY <1>2 DEF Channel
<1>4. m \in Range(Mode) /\ m # mirror[r].mode
  <2>1. \A x \in {"FreeDrive", "CommandFollowing"} : \A e \in {1, -1} :
          Next1(Mode, x, e) \in {"FreeDrive", "CommandFollowing"} \ {x}
    BY DEF Mode, Next1, RotateIndex
  <2> QED
    BY <1>3, <2>1, SessionValues DEF Delta
<1> HIDE DEF m
<1>5. /\ mirror' \in [Row -> Channel] /\ \A x \in Row : ValidChannel(mirror'[x])
      /\ \A x \in Row : x # r => mirror'[x] = mirror[x]
      /\ mirror'[r].mode = m
  BY <1>1, <1>2, <1>4 DEF Channel, ValidChannel
<1>6. DOMAIN config' = DOMAIN config /\ config'[r] = mirror'[r]
      /\ \A x \in DOMAIN config : x # r => config'[x] = config[x]
  BY <1>1
<1>7. IsProject(config')
  BY <1>1, <1>2, <1>5, <1>6 DEF IsProject
<1>8. \A x \in DOMAIN config' : config'[x].mode \in {mirror'[x].mode, "CommandFollowing"}
  BY <1>2, <1>5, <1>6 DEF IsProject
<1>9. Sound(config', pairings')
  BY <1>1, <1>2, <1>6 DEF Sound
<1>10. ProjectInv'
  BY <1>1, <1>2, <1>5, <1>7, <1>8, <1>9 DEF ProjectInv
<1>11. ValidStep
  <2>1. mirror' # mirror
    BY <1>1, <1>4, <1>5
  <2> QED
    BY <1>1, <1>6, <2>1 DEF ValidStep
<1> QED
  BY <1>1, <1>6, <1>10, <1>11, ScreenStays DEF CommandInv, EditKind

(* A command that edits the states of one channel of the project and then    *)
(* copies them to its row.  The project stays valid if the channel does and  *)
(* no pairing needs a state that is gone.                                    *)
LEMMA ChannelCommand ==
  ASSUME ProjectInv, ScreenInv, NEW r \in DOMAIN config, NEW P \in SUBSET StateKind,
         NEW Q \in SUBSET StateKind, NEW cfg,
         cfg = [config EXCEPT ![r].publish = P, ![r].recorded = Q],
         Commit(cfg, pairings), SyncAvailableChannel(r), UNCHANGED <<step, identify, astray>>,
         Validate(config, pairings) => P = {} \/ Validate(cfg, pairings)
  PROVE  CommandInv
<1>1. /\ config' = cfg /\ config_changed' = TRUE /\ UNCHANGED <<pairings, step, identify>>
      /\ failed' = ~Validate(cfg, pairings)
      /\ mirror' = IF failed' THEN mirror
                   ELSE [mirror EXCEPT ![r].publish = config'[r].publish,
                                       ![r].recorded = config'[r].recorded]
  BY DEF Commit, SyncAvailableChannel
<1>2. /\ IsProject(config) /\ pairings \in Seq(Pair) /\ Sound(config, pairings)
      /\ mirror \in [Row -> Channel] /\ \A x \in Row : ValidChannel(mirror[x])
      /\ \A x \in DOMAIN config : config[x].mode \in {mirror[x].mode, "CommandFollowing"}
  BY DEF ProjectInv
<1>3. /\ r \in Row /\ config[r] \in Channel
  BY <1>2 DEF IsProject
<1>4. /\ DOMAIN cfg = DOMAIN config /\ cfg \in [DOMAIN config -> Channel]
      /\ cfg[r].publish = P /\ cfg[r].recorded = Q
      /\ \A x \in DOMAIN config : cfg[x].mode = config[x].mode
  BY <1>2, <1>3 DEF IsProject, Channel
<1>5. IsProject(cfg)
  BY <1>2, <1>4 DEF IsProject
<1>6. /\ mirror' \in [Row -> Channel]
      /\ \A x \in Row : mirror'[x].mode = mirror[x].mode
      /\ \A x \in Row : ValidChannel(mirror'[x])
  <2>1. CASE failed'
    BY <1>1, <1>2, <2>1
  <2>2. CASE ~failed'
    <3>1. mirror' = [mirror EXCEPT ![r].publish = P, ![r].recorded = Q]
      BY <1>1, <1>4, <2>2
    <3>2. ValidChannel(cfg[r])
      BY <1>1, <1>4, <2>2 DEF Validate
    <3>3. P # {} /\ Q \subseteq P
      BY <1>4, <3>2 DEF ValidChannel
    <3>4. mirror' \in [Row -> Channel]
      BY <1>2, <1>3, <3>1 DEF Channel
    <3>5. \A x \in Row : mirror'[x].mode = mirror[x].mode
      BY <1>2, <1>3, <3>1 DEF Channel
    <3>6. ASSUME NEW x \in Row PROVE ValidChannel(mirror'[x])
      BY <1>2, <1>3, <3>1, <3>3 DEF Channel, ValidChannel
    <3> QED
      BY <3>4, <3>5, <3>6
  <2> QED
    BY <2>1, <2>2
<1>7. \A x \in DOMAIN cfg : cfg[x].mode \in {mirror'[x].mode, "CommandFollowing"}
  BY <1>2, <1>4, <1>6 DEF IsProject
<1>8. Sound(cfg, pairings)
  BY <1>2, <1>4 DEF Sound
<1>9. ProjectInv'
  BY <1>1, <1>2, <1>5, <1>6, <1>7, <1>8 DEF ProjectInv
<1>10. ValidStep
  <2> SUFFICES ASSUME Validate(config, pairings)
               PROVE  \/ Validate(config', pairings') /\ ~failed'
                      \/ failed' /\ \E x \in DOMAIN config' : config'[x].publish = {}
    BY DEF ValidStep
  <2>1. CASE Validate(cfg, pairings)
    BY <1>1, <2>1
  <2>2. CASE ~Validate(cfg, pairings)
    <3>1. P = {}
      BY <2>2
    <3> QED
      BY <1>1, <1>4, <2>2, <3>1
  <2> QED
    BY <2>1, <2>2
<1> QED
  BY <1>1, <1>4, <1>9, <1>10, ScreenStays DEF CommandInv, EditKind

(* A project stays valid when one channel changes its states, if the channel *)
(* stays valid and loses no state that a pairing it leads needs.             *)
LEMMA StatesValid ==
  ASSUME Validate(config, pairings), NEW r \in DOMAIN config, NEW cfg,
         DOMAIN cfg = DOMAIN config, \A x \in DOMAIN config : x # r => cfg[x] = config[x],
         ValidChannel(cfg[r]),
         \A i \in DOMAIN pairings : pairings[i].leader = r /\ LeaderState(pairings[i].mapping) \in config[r].publish
                                      => LeaderState(pairings[i].mapping) \in cfg[r].publish
  PROVE  Validate(cfg, pairings)
<1>1. \A x \in DOMAIN cfg : ValidChannel(cfg[x])
  BY DEF Validate
<1>2. ASSUME NEW i \in DOMAIN pairings PROVE ValidPairing(cfg, pairings[i])
  <2>1. ValidPairing(config, pairings[i])
    BY DEF Validate
  <2>2. LeaderState(pairings[i].mapping) \in cfg[pairings[i].leader].publish
    BY <2>1 DEF ValidPairing
  <2> QED
    BY <2>1, <2>2 DEF ValidPairing
<1> QED
  BY <1>1, <1>2 DEF Validate

(* setup_toggle_publish_state.                                               *)
LEMMA PublishCommand ==
  ASSUME ProjectInv, ScreenInv, NEW r \in Row, NEW k \in StateKind, TogglePublishState(r, k),
         UNCHANGED astray
  PROVE  CommandInv
<1> DEFINE cfg == PublishToggled(r, k)
           removed == k \in config[r].publish
           P == IF removed THEN config[r].publish \ {k} ELSE config[r].publish \cup {k}
           Q == IF removed THEN config[r].recorded \ {k} ELSE config[r].recorded
<1>1. /\ r \in DOMAIN config
      /\ removed => \A i \in DOMAIN pairings :
                      ~(pairings[i].leader = r /\ LeaderState(pairings[i].mapping) = k)
      /\ Commit(cfg, pairings) /\ SyncAvailableChannel(r) /\ UNCHANGED <<step, identify>>
  BY DEF TogglePublishState
<1>2. IsProject(config) /\ config[r] \in Channel
  BY <1>1 DEF ProjectInv, IsProject
<1>3. P \in SUBSET StateKind /\ Q \in SUBSET StateKind
  BY <1>2 DEF Channel
<1>4. cfg = [config EXCEPT ![r].publish = P, ![r].recorded = Q]
  <2>1. CASE removed
    BY <2>1 DEF PublishToggled
  <2>2. CASE ~removed
    <3>1. /\ cfg = [config EXCEPT ![r].publish = P]
          /\ Q = config[r].recorded
      BY <2>2 DEF PublishToggled
    <3>2. [config EXCEPT ![r].publish = P, ![r].recorded = config[r].recorded] = [config EXCEPT ![r].publish = P]
      BY <1>1, <1>2 DEF IsProject, Channel
    <3> QED
      BY <3>1, <3>2
  <2> QED
    BY <2>1, <2>2
<1> HIDE DEF cfg, P, Q, removed
<1>5. /\ DOMAIN cfg = DOMAIN config /\ \A x \in DOMAIN config : x # r => cfg[x] = config[x]
      /\ cfg[r].publish = P /\ cfg[r].recorded = Q
  BY <1>1, <1>2, <1>4 DEF IsProject, Channel
<1>6. ASSUME Validate(config, pairings), P # {} PROVE Validate(cfg, pairings)
  <2>1. ValidChannel(config[r])
    BY <1>1, <1>6 DEF Validate
  <2>2. ValidChannel(cfg[r])
    BY <1>5, <1>6, <2>1 DEF ValidChannel, P, Q, removed
  <2>3. \A i \in DOMAIN pairings :
          pairings[i].leader = r /\ LeaderState(pairings[i].mapping) \in config[r].publish
            => LeaderState(pairings[i].mapping) \in cfg[r].publish
    BY <1>1, <1>5 DEF P, removed
  <2> QED
    BY <1>1, <1>5, <1>6, <2>2, <2>3, StatesValid
<1>7. UNCHANGED <<step, identify, astray>> /\ (Validate(config, pairings) => P = {} \/ Validate(cfg, pairings))
  BY <1>1, <1>6
<1> QED
  BY <1>1, <1>3, <1>4, <1>7, ChannelCommand

(* setup_toggle_recorded_state.                                              *)
LEMMA RecordedCommand ==
  ASSUME ProjectInv, ScreenInv, NEW r \in Row, NEW k \in StateKind, ToggleRecordedState(r, k),
         UNCHANGED astray
  PROVE  CommandInv
<1> DEFINE cfg == [config EXCEPT ![r].recorded = IF k \in @ THEN @ \ {k} ELSE @ \cup {k}]
           P == config[r].publish
           Q == IF k \in config[r].recorded THEN config[r].recorded \ {k}
                ELSE config[r].recorded \cup {k}
<1>1. /\ r \in DOMAIN config
      /\ k \in config[r].publish \cup config[r].recorded
      /\ Commit(cfg, pairings) /\ SyncAvailableChannel(r) /\ UNCHANGED <<step, identify>>
  BY DEF ToggleRecordedState
<1>2. IsProject(config) /\ config[r] \in Channel
  BY <1>1 DEF ProjectInv, IsProject
<1>3. P \in SUBSET StateKind /\ Q \in SUBSET StateKind
  BY <1>2 DEF Channel
<1>4. cfg = [config EXCEPT ![r].publish = P, ![r].recorded = Q]
  <2>1. cfg = [config EXCEPT ![r].recorded = Q]
    OBVIOUS
  <2>2. [config EXCEPT ![r].publish = config[r].publish, ![r].recorded = Q] = [config EXCEPT ![r].recorded = Q]
    BY <1>1, <1>2 DEF IsProject, Channel
  <2> QED
    BY <2>1, <2>2
<1>5. /\ DOMAIN cfg = DOMAIN config /\ \A x \in DOMAIN config : x # r => cfg[x] = config[x]
      /\ cfg[r].publish = P /\ cfg[r].recorded = Q
  BY <1>1, <1>2, <1>4 DEF IsProject, Channel
<1> HIDE DEF cfg
<1>6. ASSUME Validate(config, pairings) PROVE Validate(cfg, pairings)
  <2>1. ValidChannel(config[r])
    BY <1>1, <1>6 DEF Validate
  <2>2. ValidChannel(cfg[r])
    BY <1>1, <1>5, <2>1 DEF ValidChannel
  <2>3. \A i \in DOMAIN pairings :
          pairings[i].leader = r /\ LeaderState(pairings[i].mapping) \in config[r].publish
            => LeaderState(pairings[i].mapping) \in cfg[r].publish
    BY <1>5
  <2> HIDE DEF P, Q
  <2> QED
    BY <1>1, <1>5, <1>6, <2>2, <2>3, StatesValid
<1> HIDE DEF P, Q
<1>7. UNCHANGED <<step, identify, astray>> /\ (Validate(config, pairings) => P = {} \/ Validate(cfg, pairings))
  BY <1>1, <1>6
<1> QED
  BY <1>1, <1>3, <1>4, <1>7, ChannelCommand

(* cfg is the project with some states opted in and some robots made         *)
(* followers.                                                                *)
Extends(cfg) ==
  /\ IsProject(cfg) /\ DOMAIN cfg = DOMAIN config
  /\ \A x \in DOMAIN config : /\ config[x].publish \subseteq cfg[x].publish
                              /\ cfg[x].recorded = config[x].recorded
                              /\ cfg[x].mode \in {config[x].mode, "CommandFollowing"}

(* ensure_channel_publishes_state opts the leader in.                        *)
LEMMA MappingExtends ==
  ASSUME ProjectInv, NEW pair \in Pair, pair.leader \in DOMAIN config
  PROVE  /\ Extends(ForMapping(pair))
         /\ LeaderState(pair.mapping) \in ForMapping(pair)[pair.leader].publish
<1> DEFINE kind == LeaderState(pair.mapping)
           l == pair.leader
           cfg == ForMapping(pair)
<1>1. IsProject(config)
  BY DEF ProjectInv
<1>2. kind \in StateKind
  BY SessionValues DEF Pair
<1>3. cfg = [config EXCEPT ![l].publish = @ \cup {kind}]
  BY DEF ForMapping, EnsurePublishes
<1> HIDE DEF kind, l, cfg
<1>4. l \in DOMAIN config
  BY DEF l
<1>5. DOMAIN cfg = DOMAIN config /\ cfg \in [DOMAIN config -> Channel]
  BY <1>1, <1>2, <1>3, <1>4 DEF IsProject, Channel
<1>6. IsProject(cfg)
  BY <1>1, <1>5 DEF IsProject
<1>7. kind \in cfg[l].publish
  BY <1>1, <1>3, <1>4 DEF IsProject, Channel
<1>8. \A x \in DOMAIN config : /\ config[x].publish \subseteq cfg[x].publish
                               /\ cfg[x].recorded = config[x].recorded
                               /\ cfg[x].mode \in {config[x].mode, "CommandFollowing"}
  BY <1>1, <1>3, <1>4 DEF IsProject, Channel
<1> QED
  BY <1>5, <1>6, <1>7, <1>8 DEF Extends, kind, l, cfg

(* So does a pairing, which also makes the follower follow commands.         *)
LEMMA WithExtends ==
  ASSUME ProjectInv, NEW pair \in Pair, pair.leader \in DOMAIN config
  PROVE  /\ Extends(WithPairing(pair))
         /\ LeaderState(pair.mapping) \in WithPairing(pair)[pair.leader].publish
<1> DEFINE f == pair.follower
           old == ForMapping(pair)
           cfg == WithPairing(pair)
<1>1. /\ Extends(old) /\ LeaderState(pair.mapping) \in old[pair.leader].publish
  BY MappingExtends
<1>2. cfg = [old EXCEPT ![f].mode = "CommandFollowing"]
  BY DEF WithPairing, PromoteFollower, ForMapping
<1>3. IsProject(old) /\ DOMAIN old = DOMAIN config
  BY <1>1 DEF Extends
<1> HIDE DEF f, old, cfg
<1>4. /\ DOMAIN cfg = DOMAIN config
      /\ cfg = [x \in DOMAIN old |-> cfg[x]]
      /\ \A x \in DOMAIN old : cfg[x] = IF x = f THEN [old[x] EXCEPT !.mode = "CommandFollowing"]
                                        ELSE old[x]
  BY <1>2, <1>3
<1>5. \A x \in DOMAIN config : /\ cfg[x] \in Channel
                               /\ cfg[x].publish = old[x].publish
                               /\ cfg[x].recorded = old[x].recorded
                               /\ cfg[x].mode \in {old[x].mode, "CommandFollowing"}
  BY <1>3, <1>4, SessionValues DEF IsProject, Channel
<1>6. IsProject(cfg)
  BY <1>3, <1>4, <1>5 DEF IsProject
<1>7. Extends(cfg)
  BY <1>1, <1>4, <1>5, <1>6 DEF Extends
<1>8. LeaderState(pair.mapping) \in cfg[pair.leader].publish
  BY <1>1, <1>5
<1> QED
  BY <1>7, <1>8 DEF cfg

(* Nothing that was valid becomes invalid under it.                          *)
LEMMA ExtendsValid ==
  ASSUME NEW cfg, Extends(cfg), Validate(config, pairings)
  PROVE  /\ DOMAIN cfg # {} /\ \A x \in DOMAIN cfg : ValidChannel(cfg[x])
         /\ \A i \in DOMAIN pairings : ValidPairing(cfg, pairings[i])
<1>1. DOMAIN cfg = DOMAIN config
      /\ \A x \in DOMAIN config : /\ config[x].publish \subseteq cfg[x].publish
                                  /\ cfg[x].recorded = config[x].recorded
  BY DEF Extends
<1>2. \A x \in DOMAIN cfg : ValidChannel(cfg[x])
  BY <1>1 DEF Validate, ValidChannel
<1>3. \A i \in DOMAIN pairings : ValidPairing(cfg, pairings[i])
  BY <1>1 DEF Validate, ValidPairing
<1> QED
  BY <1>1, <1>2, <1>3 DEF Validate

(* The project keeps its invariant.                                          *)
LEMMA ExtendsProject ==
  ASSUME ProjectInv, NEW cfg, NEW pairs \in Seq(Pair), Extends(cfg), Sound(cfg, pairs),
         config' = cfg, pairings' = pairs, mirror' = mirror
  PROVE  ProjectInv'
<1>1. /\ IsProject(config)
      /\ mirror \in [Row -> Channel] /\ \A x \in Row : ValidChannel(mirror[x])
      /\ \A x \in DOMAIN config : config[x].mode \in {mirror[x].mode, "CommandFollowing"}
  BY DEF ProjectInv
<1>2. /\ IsProject(cfg) /\ DOMAIN cfg = DOMAIN config
      /\ \A x \in DOMAIN config : cfg[x].mode \in {config[x].mode, "CommandFollowing"}
  BY DEF Extends
<1>3. \A x \in DOMAIN cfg : cfg[x].mode \in {mirror[x].mode, "CommandFollowing"}
  BY <1>1, <1>2
<1> QED
  BY <1>1, <1>2, <1>3 DEF ProjectInv

(* A command that edits the pairings.                                        *)
LEMMA PairingCommand ==
  ASSUME ProjectInv, ScreenInv, NEW cfg, NEW pairs \in Seq(Pair), Extends(cfg),
         Sound(cfg, pairs), config' = cfg, pairings' = pairs, config_changed',
         failed' => ~Validate(cfg, pairs), UNCHANGED <<mirror, step, identify, astray>>,
         Validate(config, pairings) => \A i \in DOMAIN pairs : ValidPairing(cfg, pairs[i])
  PROVE  CommandInv
<1>1. ProjectInv'
  BY ExtendsProject
<1>2. DOMAIN config' = DOMAIN config
  BY DEF Extends
<1>3. ASSUME Validate(config, pairings) PROVE Validate(cfg, pairs)
  <2>1. DOMAIN cfg # {} /\ \A x \in DOMAIN cfg : ValidChannel(cfg[x])
    BY <1>3, ExtendsValid
  <2> QED
    BY <1>3, <2>1 DEF Validate
<1>4. ValidStep
  BY <1>3 DEF ValidStep
<1> QED
  BY <1>1, <1>2, <1>4, ScreenStays DEF CommandInv, EditKind

(* The project extends itself.                                               *)
LEMMA SameExtends == ProjectInv => Extends(config)
BY DEF ProjectInv, Extends

(* setup_remove_pairing.                                                     *)
LEMMA RemoveCommand ==
  ASSUME ProjectInv, ScreenInv, NEW i \in DOMAIN pairings, RemovePairing(i), UNCHANGED astray
  PROVE  CommandInv
<1> DEFINE pairs == RemoveAt(pairings, i)
<1>1. /\ pairings \in Seq(Pair) /\ Sound(config, pairings)
  BY DEF ProjectInv
<1>2. /\ config' = config /\ pairings' = pairs /\ config_changed' = TRUE
      /\ failed' = ~Validate(config, pairs) /\ UNCHANGED <<mirror, step, identify>>
  BY DEF RemovePairing, Commit
<1>3. pairs \in Seq(Pair) /\ TakenFrom(pairs, pairings)
  BY <1>1, RemoveTakes
<1> HIDE DEF pairs
<1>4. DOMAIN pairs = 1 .. Len(pairs) /\ DOMAIN pairings = 1 .. Len(pairings)
  BY <1>1, <1>3, LenProperties
<1>5. \A j \in DOMAIN pairs : \E k \in DOMAIN pairings : pairs[j] = pairings[k]
  BY <1>3, <1>4 DEF TakenFrom
<1>6. \A j \in 1 .. Len(pairs) : {pairs[j].leader, pairs[j].follower} \subseteq DOMAIN config
  BY <1>1, <1>4, <1>5 DEF Sound
<1>7. Sound(config, pairs)
  BY <1>1, <1>3, <1>6, TakenSound
<1>8. Validate(config, pairings) => \A j \in DOMAIN pairs : ValidPairing(config, pairs[j])
  BY <1>5 DEF Validate
<1>9. Extends(config)
  BY SameExtends
<1> QED
  BY <1>2, <1>3, <1>7, <1>8, <1>9, PairingCommand

(* A pairing is put in the place of another.                                 *)
LEMMA ReplaceCommand ==
  ASSUME ProjectInv, ScreenInv, NEW i \in DOMAIN pairings, NEW pair \in Pair, NEW cfg, NEW pairs,
         pairs = [pairings EXCEPT ![i] = pair], Extends(cfg),
         ValidPairing(cfg, pair),
         \A j \in DOMAIN pairings \ {i} : pair.follower # pairings[j].follower,
         config' = cfg, pairings' = pairs, config_changed', failed' => ~Validate(cfg, pairs),
         UNCHANGED <<mirror, step, identify, astray>>
  PROVE  CommandInv
<1>1. pairings \in Seq(Pair) /\ Sound(config, pairings) /\ DOMAIN cfg = DOMAIN config
  BY DEF ProjectInv, Extends
<1>2. {pair.leader, pair.follower} \subseteq DOMAIN cfg /\ pair.leader # pair.follower
  BY DEF ValidPairing
<1>3. pairs \in Seq(Pair) /\ Sound(cfg, pairs)
  BY <1>1, <1>2, ExceptSound
<1>4. ASSUME Validate(config, pairings), NEW j \in DOMAIN pairs PROVE ValidPairing(cfg, pairs[j])
  <2>1. \A k \in DOMAIN pairings : ValidPairing(cfg, pairings[k])
    BY <1>4, ExtendsValid
  <2> QED
    BY <1>1, <1>4, <2>1
<1>5. Validate(config, pairings) => \A j \in DOMAIN pairs : ValidPairing(cfg, pairs[j])
  BY <1>4
<1> QED
  BY <1>3, <1>5, PairingCommand

(* setup_cycle_pair_leader and setup_cycle_pair_follower: the partner is     *)
(* eligible for the mapping.                                                 *)
LEMMA PartnerCommand ==
  ASSUME ProjectInv, ScreenInv, NEW i \in DOMAIN pairings, NEW r \in Row,
         SetPairingLeader(i, r) \/ SetPairingFollower(i, r), UNCHANGED astray
  PROVE  CommandInv
<1>1. pairings \in Seq(Pair) /\ Sound(config, pairings) /\ DOMAIN pairings = 1 .. Len(pairings)
  BY LenProperties DEF ProjectInv
<1>2. /\ pairings[i] \in Pair /\ pairings[i].leader \in DOMAIN config
      /\ pairings[i].follower \in DOMAIN config
  BY <1>1, ElementOfSeq DEF Sound
<1>3. PICK pair \in Pair :
        /\ SetPairing(i, pair)
        /\ {pair.leader, pair.follower} \subseteq DOMAIN config /\ pair.leader # pair.follower
        /\ pair.mapping \in ArmPolicies
        /\ \A j \in DOMAIN pairings \ {i} : pair.follower # pairings[j].follower
  <2>1. CASE SetPairingLeader(i, r)
    <3> DEFINE pair == [pairings[i] EXCEPT !.leader = r]
    <3>1. /\ SetPairing(i, pair) /\ r \in DOMAIN config /\ i # 0
          /\ pairings[i].mapping \in ArmPolicies
          /\ r # pairings[i].follower
      BY <1>1, <2>1 DEF SetPairingLeader, EligibleLeaders
    <3>2. pair \in Pair /\ pair.leader = r /\ pair.follower = pairings[i].follower
          /\ pair.mapping = pairings[i].mapping
      BY <1>2 DEF Pair
    <3> HIDE DEF pair
    <3>3. \A j \in DOMAIN pairings \ {i} : pair.follower # pairings[j].follower
      BY <1>1, <3>2 DEF Sound
    <3> QED
      BY <1>2, <3>1, <3>2, <3>3
  <2>2. CASE SetPairingFollower(i, r)
    <3> DEFINE pair == [pairings[i] EXCEPT !.follower = r]
    <3>1. /\ SetPairing(i, pair) /\ r \in DOMAIN config /\ i # 0
          /\ pairings[i].mapping \in ArmPolicies
          /\ r # pairings[i].leader
          /\ \A j \in DOMAIN pairings \ {i} : r # pairings[j].follower
      BY <1>1, <2>2 DEF SetPairingFollower, EligibleFollowers
    <3>2. pair \in Pair /\ pair.leader = pairings[i].leader /\ pair.follower = r
          /\ pair.mapping = pairings[i].mapping
      BY <1>2 DEF Pair
    <3> HIDE DEF pair
    <3> QED
      BY <1>2, <3>1, <3>2
  <2> QED
    BY <2>1, <2>2
<1> DEFINE cfg == WithPairing(pair)
           pairs == [pairings EXCEPT ![i] = pair]
<1>4. /\ config' = cfg /\ pairings' = pairs /\ config_changed' = TRUE
      /\ failed' = ~Validate(cfg, pairs) /\ UNCHANGED <<mirror, step, identify>>
  BY <1>3 DEF SetPairing, Commit
<1>5. Extends(cfg) /\ LeaderState(pair.mapping) \in cfg[pair.leader].publish
  BY <1>3, WithExtends
<1> HIDE DEF cfg
<1>6. ValidPairing(cfg, pair)
  BY <1>3, <1>5 DEF ValidPairing, Extends
<1>7. pairs = [pairings EXCEPT ![i] = pair]
  OBVIOUS
<1> HIDE DEF pairs
<1> QED
  BY <1>3, <1>4, <1>5, <1>6, <1>7, ReplaceCommand

(* setup_cycle_pair_mapping.                                                 *)
LEMMA MappingCommand ==
  ASSUME ProjectInv, ScreenInv, ~failed, NEW i \in DOMAIN pairings, NEW d \in Delta,
         CyclePairMapping(i, d), UNCHANGED astray
  PROVE  CommandInv
<1> DEFINE pair == Remapped(i, d)
           cfg == ForMapping(pair)
           pairs == [pairings EXCEPT ![i] = pair]
<1>1. pairings \in Seq(Pair) /\ Sound(config, pairings) /\ DOMAIN pairings = 1 .. Len(pairings)
  BY LenProperties DEF ProjectInv
<1>2. pairings[i] \in Pair /\ pairings[i].leader \in DOMAIN config
  BY <1>1, ElementOfSeq DEF Sound
<1>3. /\ Validate(cfg, pairs) /\ config' = cfg /\ pairings' = pairs /\ config_changed' = TRUE
      /\ UNCHANGED <<mirror, step, identify, failed>>
  BY DEF CyclePairMapping
<1>4. /\ pair \in Pair /\ pair.leader = pairings[i].leader /\ pair.follower = pairings[i].follower
  <2>1. \A x \in {"direct-joint", "cartesian", "parallel"} : \A e \in {1, -1} :
          Next1(Policies, x, e) \in {"direct-joint", "cartesian", "parallel"}
    BY DEF Policies, Next1, RotateIndex
  <2>2. Next1(Policies, pairings[i].mapping, d) \in Range(Policies)
    BY <1>2, <2>1, SessionValues DEF Delta, Pair
  <2> QED
    BY <1>2, <2>2 DEF Remapped, Pair
<1>5. pairs = [pairings EXCEPT ![i] = pair] /\ cfg = ForMapping(pair) /\ pairs[i] = pair
  OBVIOUS
<1> HIDE DEF pair, cfg, pairs
<1>6. Extends(cfg)
  BY <1>2, <1>4, <1>5, MappingExtends
<1>7. ValidPairing(cfg, pair)
  <2>1. i \in DOMAIN pairs
    BY <1>5
  <2> QED
    BY <1>3, <1>5, <2>1 DEF Validate
<1>8. \A j \in DOMAIN pairings \ {i} : pair.follower # pairings[j].follower
  BY <1>1, <1>4 DEF Sound
<1>9. failed' => ~Validate(cfg, pairs)
  BY <1>3
<1> QED
  BY <1>3, <1>4, <1>5, <1>6, <1>7, <1>8, <1>9, ReplaceCommand

(* setup_create_pairing: what does not validate is half taken back.          *)
LEMMA CreateCommand ==
  ASSUME ProjectInv, ScreenInv, ~failed, NEW p \in Range(Policies), NEW l \in Row, NEW f \in Row,
         CreatePairing(p, l, f), UNCHANGED astray
  PROVE  CommandInv
<1> DEFINE pair == PairingFromChannels(p, l, f)
           cfg == WithPairing(pair)
           pairs == Append(pairings, pair)
<1>1. pairings \in Seq(Pair) /\ Sound(config, pairings) /\ DOMAIN pairings = 1 .. Len(pairings)
  BY LenProperties DEF ProjectInv
<1>2. /\ l \in DOMAIN config /\ p \in ArmPolicies
      /\ f \in DOMAIN config /\ \A i \in DOMAIN pairings : f # pairings[i].follower
      /\ l # f
  BY <1>1 DEF CreatePairing, EligibleLeaders, EligibleFollowers
<1>3. /\ config' = cfg
      /\ \/ Validate(cfg, pairs) /\ pairings' = pairs /\ config_changed' = TRUE
         \/ ~Validate(cfg, pairs) /\ UNCHANGED <<pairings, config_changed>>
      /\ UNCHANGED <<mirror, step, identify, failed>>
  BY DEF CreatePairing
<1>4. pair \in Pair /\ pair.leader = l /\ pair.follower = f /\ pair.mapping = p
  BY DEF PairingFromChannels, Pair
<1> HIDE DEF pair
<1>5. Extends(cfg) /\ LeaderState(p) \in cfg[l].publish
  BY <1>2, <1>4, WithExtends
<1> HIDE DEF cfg
<1>6. DOMAIN cfg = DOMAIN config
  BY <1>5 DEF Extends
<1>7. {pair.leader, pair.follower} \subseteq DOMAIN cfg /\ pair.leader # pair.follower
      /\ \A i \in 1 .. Len(pairings) : pair.follower # pairings[i].follower
  BY <1>1, <1>2, <1>4, <1>6
<1>8. pairs \in Seq(Pair) /\ Sound(cfg, pairs)
  BY <1>1, <1>4, <1>6, <1>7, AppendSound
<1>9. DOMAIN pairs = DOMAIN pairings \cup {Len(pairings) + 1} /\ pairs[Len(pairings) + 1] = pair
      /\ \A j \in DOMAIN pairings : pairs[j] = pairings[j]
  BY <1>1, <1>4, AppendProperties
<1>10. ValidPairing(cfg, pair)
  BY <1>2, <1>4, <1>5, <1>7 DEF ValidPairing
<1> HIDE DEF pairs
<1>11. ASSUME Validate(config, pairings), NEW j \in DOMAIN pairs PROVE ValidPairing(cfg, pairs[j])
  <2>1. \A k \in DOMAIN pairings : ValidPairing(cfg, pairings[k])
    BY <1>5, <1>11, ExtendsValid
  <2> QED
    BY <1>9, <1>10, <1>11, <2>1
<1>12. CASE Validate(cfg, pairs)
  <2>1. pairings' = pairs /\ config_changed' = TRUE /\ (failed' => ~Validate(cfg, pairs))
    BY <1>3, <1>12
  <2> QED
    BY <1>3, <1>5, <1>8, <1>11, <2>1, PairingCommand
<1>13. CASE ~Validate(cfg, pairs)
  <2>1. UNCHANGED <<pairings, config_changed, mirror>>
    BY <1>3, <1>13
  <2>2. Sound(cfg, pairings)
    BY <1>1, <1>6 DEF Sound
  <2>3. ProjectInv'
    BY <1>1, <1>3, <1>5, <2>1, <2>2, ExtendsProject
  <2>4. ~Validate(config, pairings)
    <3> SUFFICES ASSUME Validate(config, pairings) PROVE FALSE
      OBVIOUS
    <3>1. DOMAIN cfg # {} /\ \A x \in DOMAIN cfg : ValidChannel(cfg[x])
      BY <1>5, ExtendsValid
    <3> QED
      BY <1>11, <1>13, <3>1 DEF Validate
  <2>5. ~Validate(cfg, pairings)
    <3> SUFFICES ASSUME Validate(cfg, pairings) PROVE FALSE
      OBVIOUS
    <3>1. \A j \in DOMAIN pairs : ValidPairing(cfg, pairs[j])
      BY <1>9, <1>10 DEF Validate
    <3> QED
      BY <1>13, <3>1 DEF Validate
  <2>6. HalfTakenBack
    BY <1>3, <1>5, <1>6, <2>1, <2>5 DEF HalfTakenBack, Extends
  <2>7. ValidStep
    BY <2>4 DEF ValidStep
  <2> QED
    BY <1>3, <1>6, <2>3, <2>6, <2>7, ScreenStays DEF CommandInv, EditKind
<1> QED
  BY <1>12, <1>13

(* Every command keeps the invariant of the session.                         *)
LEMMA EveryCommand ==
  ASSUME ProjectInv, ScreenInv, ~failed, ApplyCommand
  PROVE  CommandInv
<1>1. CASE (AdvanceStep \/ RetreatStep \/ JumpToStep) /\ UNCHANGED astray
  BY <1>1, StepCommand
<1>2. CASE \/ (Save \/ Cancel) /\ UNCHANGED astray
           \/ \E r \in Row : ToggleIdentify(r)
  BY <1>2, ScreenCommand
<1>3. ASSUME NEW r \in Row, UNCHANGED astray,
             \/ ToggleDeviceSelection(r)
             \/ \E d \in Delta : CycleRobotMode(r, d)
             \/ \E k \in StateKind : TogglePublishState(r, k) \/ ToggleRecordedState(r, k)
      PROVE  CommandInv
  BY <1>3, SelectionCommand, ModeCommand, PublishCommand, RecordedCommand
<1>4. ASSUME NEW i \in DOMAIN pairings, UNCHANGED astray,
             \/ RemovePairing(i)
             \/ \E d \in Delta : CyclePairMapping(i, d)
             \/ \E r \in Row : SetPairingLeader(i, r) \/ SetPairingFollower(i, r)
      PROVE  CommandInv
  BY <1>4, RemoveCommand, MappingCommand, PartnerCommand
<1>5. ASSUME NEW p \in Range(Policies), NEW l \in Row, NEW f \in Row, CreatePairing(p, l, f),
             UNCHANGED astray
      PROVE  CommandInv
  BY <1>5, CreateCommand
<1> QED
  BY <1>1, <1>2, <1>3, <1>4, <1>5 DEF ApplyCommand, Edit

-----------------------------------------------------------------------------
(* The setup wizard: its preview *)

RobotMode == {"none", "Identifying"} \cup Range(Mode)

ProcessesOK ==
  /\ place \in {"poll", "drain", "sync", "settled", "ended"}
  /\ runtime.target \in Row \cup {NoRow} /\ active_identify_target \in Row \cup {NoRow}
  /\ driver \in [Row -> [up : {"off", "starting", "running"}, mode : RobotMode]]
  /\ mode_events \in [Row -> RobotMode]
  /\ \A r \in Row : driver[r].up # "off" => r \in DOMAIN runtime.config

Identified(r) == [x \in {r} |-> [mirror[x] EXCEPT !.mode = "Identifying"]]

(* Until a command marks an edit, what runs was started from the project or  *)
(* the row of its target as they are, if the project is valid.               *)
Shown ==
  runtime # Stopped /\ ~config_changed /\ ~astray /\ Validate(config, pairings) =>
    IF runtime.target = NoRow THEN runtime.config = config /\ runtime.pairings = pairings
    ELSE runtime.config = Identified(runtime.target) /\ runtime.pairings = <<>>

(* After reconciliation, nothing runs that should not.                       *)
Settled ==
  place \in {"sync", "settled"} /\ ~astray =>
    /\ runtime # Stopped => runtime.target = DesiredTarget /\ ~config_changed
    /\ Validate(config, pairings) =>
         IF ShouldRunPreview
         THEN runtime.config = BuildPreview.config /\ runtime.pairings = BuildPreview.pairings
         ELSE runtime = Stopped

(* A robot of the whole project was started in the mode of its row or as a   *)
(* follower, and only a follower's mode may have changed since, unmarked.    *)
StartedModes ==
  runtime.target = NoRow /\ ~config_changed /\ ~astray =>
    \A r \in DOMAIN runtime.config :
      /\ r \in DOMAIN config
      /\ runtime.config[r].mode \in {mirror[r].mode, "CommandFollowing"}
      /\ config[r].mode \in {runtime.config[r].mode, "CommandFollowing"}

(* The modes the drivers have and are about to take.                         *)
DriverModes ==
  ~astray => \A r \in Row : driver[r].up # "off" =>
    /\ runtime.target # NoRow =>
         /\ r = runtime.target
         /\ driver[r].mode = "Identifying" /\ mode_events[r] \in {"none", "Identifying"}
    /\ runtime.target = NoRow /\ ~config_changed =>
         /\ driver[r].mode \in {runtime.config[r].mode, mirror[r].mode}
         /\ mode_events[r] \in {"none", mirror[r].mode}

PreviewInv == ProcessesOK /\ Shown /\ Settled /\ StartedModes /\ DriverModes

WizardInv == ProjectInv /\ ScreenInv /\ PreviewInv

(* Which step the session is in.                                             *)
LEMMA StepFacts == ScreenInv => /\ InStep("Devices") <=> step = 1
                                /\ InStep("Preview") <=> step = 5
BY SessionValues DEF ScreenInv, InStep

(* What start_preview_runtime starts belongs to the desired target.          *)
LEMMA BuildFacts ==
  ASSUME ScreenInv, ~astray, ShouldRunPreview
  PROVE  /\ BuildPreview.target = DesiredTarget
         /\ DesiredTarget = NoRow => BuildPreview.config = config /\ BuildPreview.pairings = pairings
         /\ DesiredTarget # NoRow => /\ BuildPreview.config = Identified(DesiredTarget)
                                     /\ BuildPreview.pairings = <<>>
<1>1. \/ step = 5 /\ identify = NoRow /\ ~InStep("Devices")
      \/ step = 1 /\ identify # NoRow /\ InStep("Devices")
  BY StepFacts DEF ShouldRunPreview, ScreenInv
<1> QED
  BY <1>1 DEF BuildPreview, DesiredTarget, Identified

(* SetupSession starts with a sound project.                                 *)
LEMMA SessionStarts == SessionInit => ProjectInv /\ ScreenInv
<1> SUFFICES ASSUME SessionInit PROVE ProjectInv /\ ScreenInv
  OBVIOUS
<1>1. /\ mirror = [r \in Row |-> Discovered(CHOOSE i \in DOMAIN Rows : Rows[i] = r)]
      /\ config = mirror
      /\ pairings = IF Len(Rows) < 2 THEN <<>>
                    ELSE <<PairingFromChannels("direct-joint", Rows[1], Rows[2])>>
      /\ step \in {1, 5} /\ identify = NoRow /\ astray = FALSE
  BY SessionValues DEF SessionInit
<1>2. \A i : /\ Discovered(i) \in Channel /\ ValidChannel(Discovered(i))
             /\ Discovered(i).mode \in Range(Mode)
  BY SessionValues DEF Discovered, Channel, ValidChannel, SupportedStates, StateKind
<1>3. mirror \in [Row -> Channel] /\ \A r \in Row : ValidChannel(mirror[r])
  BY <1>1, <1>2
<1>4. IsProject(config) /\ DOMAIN config = Row
  BY <1>1, <1>3 DEF IsProject
<1>5. pairings \in Seq(Pair) /\ Sound(config, pairings)
  <2>1. CASE Len(Rows) < 2
    <3>1. pairings = <<>> /\ Len(pairings) = 0
      BY <1>1, <2>1
    <3> QED
      BY <3>1 DEF Sound
  <2>2. CASE ~(Len(Rows) < 2)
    <3> DEFINE p == PairingFromChannels("direct-joint", Rows[1], Rows[2])
    <3>1. Len(Rows) \in Nat /\ DOMAIN Rows = 1 .. Len(Rows) /\ Rows \in Seq(Row)
      BY SetupAssumption, LenProperties DEF Row
    <3>2. 1 \in DOMAIN Rows /\ 2 \in DOMAIN Rows
      BY <2>2, <3>1
    <3>3. Rows[1] \in Row /\ Rows[2] \in Row
      BY <3>1, <3>2, ElementOfSeq
    <3>4. Rows[1] # Rows[2]
      BY <3>2, SetupAssumption DEF IsInjective
    <3>5. p \in Pair /\ p.leader = Rows[1] /\ p.follower = Rows[2]
      BY <3>3, SessionValues DEF Pair, PairingFromChannels
    <3>6. pairings = <<p>>
      BY <1>1, <2>2
    <3> HIDE DEF p
    <3>7. pairings \in Seq(Pair) /\ Len(pairings) = 1 /\ pairings[1] = p
      BY <3>5, <3>6
    <3> QED
      BY <1>4, <3>3, <3>4, <3>5, <3>7 DEF Sound
  <2> QED
    BY <2>1, <2>2
<1> QED
  BY <1>1, <1>3, <1>4, <1>5 DEF ProjectInv, ScreenInv

(* Nothing runs at first.                                                    *)
LEMMA WizardStarts == WizardInit => WizardInv
<1> SUFFICES ASSUME WizardInit PROVE WizardInv
  OBVIOUS
<1>1. ProjectInv /\ ScreenInv
  BY SessionStarts DEF WizardInit
<1>2. /\ place = "poll" /\ runtime = Stopped /\ active_identify_target = NoRow
      /\ driver = [r \in Row |-> Off] /\ mode_events = [r \in Row |-> "none"]
  BY DEF WizardInit
<1>3. ProcessesOK
  BY <1>2 DEF ProcessesOK, Stopped, Off, RobotMode
<1>4. Shown /\ Settled
  BY <1>2 DEF Shown, Settled
<1>5. StartedModes
  BY <1>2 DEF StartedModes, Stopped
<1>6. DriverModes
  BY <1>2 DEF DriverModes, Off
<1> QED
  BY <1>1, <1>3, <1>4, <1>5, <1>6 DEF WizardInv, PreviewInv

(* When the runtime is stopped and the loop goes on with a pass to come, or  *)
(* none, nothing is left to be wrong.                                        *)
LEMMA StopStep ==
  ASSUME ProjectInv', ScreenInv', StopRuntime, place' \in {"poll", "ended"},
         active_identify_target' \in Row \cup {NoRow}
  PROVE  WizardInv'
<1>1. /\ runtime' = Stopped
      /\ driver' = [r \in Row |-> Off] /\ mode_events' = [r \in Row |-> "none"]
  BY DEF StopRuntime
<1>2. ProcessesOK'
  BY <1>1 DEF ProcessesOK, Stopped, Off, RobotMode
<1>3. Shown' /\ Settled'
  BY <1>1 DEF Shown, Settled
<1>4. StartedModes'
  BY <1>1 DEF StartedModes, Stopped
<1>5. DriverModes'
  BY <1>1 DEF DriverModes, Off
<1> QED
  BY <1>2, <1>3, <1>4, <1>5 DEF WizardInv, PreviewInv

(* The session does not change when only the loop and the drivers do.        *)
LEMMA SessionStays ==
  ASSUME ProjectInv, ScreenInv, UNCHANGED <<config, mirror, pairings, step, identify, astray>>
  PROVE  ProjectInv' /\ ScreenInv'
BY DEF ProjectInv, ScreenInv

(* Commands leave the processes alone.                                       *)
LEMMA DrainStep ==
  ASSUME WizardInv, Drain
  PROVE  WizardInv' /\ ValidStep
<1>1. /\ ApplyCommand /\ ~failed /\ place' = "drain"
      /\ UNCHANGED <<runtime, driver, mode_events, active_identify_target>>
  BY DEF Drain, processVars, identifyVars
<1>2. ProjectInv' /\ ScreenInv' /\ EditKind /\ ValidStep
  BY <1>1, EveryCommand DEF WizardInv, CommandInv
<1>3. ~astray' => ~astray
  BY <1>1 DEF ApplyCommand, ToggleIdentify
<1>4. ProcessesOK'
  BY <1>1 DEF WizardInv, PreviewInv, ProcessesOK
<1>5. Settled'
  BY <1>1 DEF Settled
<1>6. CASE UNCHANGED <<config, mirror, pairings, config_changed>>
  <2>1. Shown'
    BY <1>1, <1>3, <1>6 DEF WizardInv, PreviewInv, Shown, Identified
  <2>2. StartedModes'
    BY <1>1, <1>3, <1>6 DEF WizardInv, PreviewInv, StartedModes
  <2>3. DriverModes'
    BY <1>1, <1>3, <1>6 DEF WizardInv, PreviewInv, DriverModes
  <2> QED
    BY <1>2, <1>4, <1>5, <2>1, <2>2, <2>3 DEF WizardInv, PreviewInv
<1>7. CASE HalfTakenBack
  <2>1. Shown'
    BY <1>7 DEF HalfTakenBack, Shown
  <2>2. StartedModes'
    BY <1>1, <1>3, <1>7 DEF WizardInv, PreviewInv, StartedModes, HalfTakenBack
  <2>3. DriverModes'
    BY <1>1, <1>3, <1>7 DEF WizardInv, PreviewInv, DriverModes, HalfTakenBack
  <2> QED
    BY <1>2, <1>4, <1>5, <2>1, <2>2, <2>3 DEF WizardInv, PreviewInv
<1>8. config_changed' => Shown' /\ StartedModes' /\ DriverModes'
  <2> SUFFICES ASSUME config_changed' PROVE Shown' /\ StartedModes' /\ DriverModes'
    OBVIOUS
  <2>1. Shown' /\ StartedModes'
    BY DEF Shown, StartedModes
  <2>2. DriverModes'
    BY <1>1, <1>3 DEF WizardInv, PreviewInv, DriverModes
  <2> QED
    BY <2>1, <2>2
<1> QED
  BY <1>2, <1>4, <1>5, <1>6, <1>7, <1>8 DEF WizardInv, PreviewInv, EditKind

(* A driver subscribes to mode events, or obeys one.                         *)
LEMMA DriverStep ==
  ASSUME WizardInv, NEW r \in Row, DriverSubscribes(r) \/ DriverTakesMode(r)
  PROVE  WizardInv'
<1>1. UNCHANGED <<sessionVars, place, runtime, identifyVars>>
  BY DEF DriverSubscribes, DriverTakesMode
<1>2. UNCHANGED <<config, mirror, pairings, step, identify, exit_kind, config_changed, astray,
                  place, runtime, active_identify_target>>
  BY <1>1 DEF sessionVars, identifyVars
<1>3. ProjectInv' /\ ScreenInv'
  BY <1>2, SessionStays DEF WizardInv
<1>4. /\ driver \in [Row -> [up : {"off", "starting", "running"}, mode : RobotMode]]
      /\ mode_events \in [Row -> RobotMode]
  BY DEF WizardInv, PreviewInv, ProcessesOK
<1>5. /\ driver' \in [Row -> [up : {"off", "starting", "running"}, mode : RobotMode]]
      /\ mode_events' \in [Row -> RobotMode]
      /\ \A x \in Row : driver'[x].up # "off" => driver[x].up # "off"
      /\ \A x \in Row : \/ driver'[x].mode = driver[x].mode /\ mode_events'[x] = mode_events[x]
                        \/ /\ driver'[x].mode = mode_events[x] /\ mode_events[x] # "none"
                           /\ mode_events'[x] = "none"
  <2>1. CASE DriverSubscribes(r)
    BY <1>4, <2>1 DEF DriverSubscribes
  <2>2. CASE DriverTakesMode(r)
    BY <1>4, <2>2 DEF DriverTakesMode, RobotMode
  <2> QED
    BY <2>1, <2>2
<1>6. ProcessesOK'
  BY <1>2, <1>5 DEF WizardInv, PreviewInv, ProcessesOK
<1>7. Shown'
  BY <1>2 DEF WizardInv, PreviewInv, Shown, Identified
<1>8. StartedModes'
  BY <1>2 DEF WizardInv, PreviewInv, StartedModes
<1>9. Settled'
  <2>1. DesiredTarget' = DesiredTarget /\ ShouldRunPreview' = ShouldRunPreview
    BY <1>2 DEF DesiredTarget, ShouldRunPreview, InStep
  <2>2. BuildPreview' = BuildPreview
    BY <1>2 DEF BuildPreview, InStep
  <2> QED
    BY <1>2, <2>1, <2>2 DEF WizardInv, PreviewInv, Settled
<1>10. DriverModes'
  <2> SUFFICES ASSUME ~astray', NEW x \in Row, driver'[x].up # "off"
               PROVE  /\ runtime'.target # NoRow =>
                           /\ x = runtime'.target
                           /\ driver'[x].mode = "Identifying"
                           /\ mode_events'[x] \in {"none", "Identifying"}
                      /\ runtime'.target = NoRow /\ ~config_changed' =>
                           /\ driver'[x].mode \in {runtime'.config[x].mode, mirror'[x].mode}
                           /\ mode_events'[x] \in {"none", mirror'[x].mode}
    BY DEF DriverModes
  <2>1. /\ runtime.target # NoRow =>
             /\ x = runtime.target
             /\ driver[x].mode = "Identifying" /\ mode_events[x] \in {"none", "Identifying"}
        /\ runtime.target = NoRow /\ ~config_changed =>
             /\ driver[x].mode \in {runtime.config[x].mode, mirror[x].mode}
             /\ mode_events[x] \in {"none", mirror[x].mode}
    BY <1>2, <1>5 DEF WizardInv, PreviewInv, DriverModes
  <2> QED
    BY <1>2, <1>5, <2>1
<1> QED
  BY <1>3, <1>6, <1>7, <1>8, <1>9, <1>10 DEF WizardInv, PreviewInv

(* sync_identify_mode publishes only what belongs to the target.             *)
LEMMA SyncStep ==
  ASSUME WizardInv, Sync
  PROVE  WizardInv'
<1>1. /\ place = "sync" /\ place' = "settled" /\ active_identify_target' = DesiredTarget
      /\ mode_events' = [r \in Row |-> IF driver[r].up = "running" /\ Published(r) # "none"
                                       THEN Published(r) ELSE mode_events[r]]
      /\ UNCHANGED <<config, mirror, pairings, step, identify, exit_kind, config_changed, astray,
                     runtime, driver>>
  BY DEF Sync, sessionVars
<1>2. ProjectInv' /\ ScreenInv'
  BY <1>1, SessionStays DEF WizardInv
<1>3. /\ driver \in [Row -> [up : {"off", "starting", "running"}, mode : RobotMode]]
      /\ mode_events \in [Row -> RobotMode]
      /\ \A r \in Row : driver[r].up # "off" => r \in DOMAIN runtime.config
      /\ runtime.target \in Row \cup {NoRow}
  BY DEF WizardInv, PreviewInv, ProcessesOK
<1>4. DesiredTarget \in Row \cup {NoRow}
  BY DEF WizardInv, ProjectInv, IsProject, ScreenInv, DesiredTarget
<1>5. \A r \in Row : Published(r) \in {"Identifying", "none", mirror[r].mode}
  BY DEF Published
<1>6. \A r \in Row : mirror[r].mode \in Range(Mode)
  BY DEF WizardInv, ProjectInv, Channel
<1>7. mode_events' \in [Row -> RobotMode]
  <2>1. \A r \in Row : Published(r) \in RobotMode
    BY <1>5, <1>6 DEF RobotMode
  <2> QED
    BY <1>1, <1>3, <2>1
<1>8. ProcessesOK'
  BY <1>1, <1>3, <1>4, <1>7 DEF ProcessesOK
<1>9. Shown'
  BY <1>1 DEF WizardInv, PreviewInv, Shown, Identified
<1>10. StartedModes'
  BY <1>1 DEF WizardInv, PreviewInv, StartedModes
<1>11. Settled'
  <2>1. DesiredTarget' = DesiredTarget /\ ShouldRunPreview' = ShouldRunPreview
    BY <1>1 DEF DesiredTarget, ShouldRunPreview, InStep
  <2>2. BuildPreview' = BuildPreview
    BY <1>1 DEF BuildPreview, InStep
  <2> QED
    BY <1>1, <2>1, <2>2 DEF WizardInv, PreviewInv, Settled
<1>12. DriverModes'
  <2> SUFFICES ASSUME ~astray, NEW r \in Row, driver[r].up # "off"
               PROVE  /\ runtime.target # NoRow =>
                           /\ r = runtime.target
                           /\ driver[r].mode = "Identifying"
                           /\ mode_events'[r] \in {"none", "Identifying"}
                      /\ runtime.target = NoRow /\ ~config_changed =>
                           /\ driver[r].mode \in {runtime.config[r].mode, mirror[r].mode}
                           /\ mode_events'[r] \in {"none", mirror[r].mode}
    BY <1>1 DEF DriverModes
  <2>1. /\ runtime.target # NoRow =>
             /\ r = runtime.target
             /\ driver[r].mode = "Identifying" /\ mode_events[r] \in {"none", "Identifying"}
        /\ runtime.target = NoRow /\ ~config_changed =>
             /\ driver[r].mode \in {runtime.config[r].mode, mirror[r].mode}
             /\ mode_events[r] \in {"none", mirror[r].mode}
    BY DEF WizardInv, PreviewInv, DriverModes
  <2>2. runtime # Stopped
    BY <1>3 DEF Stopped
  <2>3. runtime.target = DesiredTarget
    BY <1>1, <2>2 DEF WizardInv, PreviewInv, Settled
  <2>4. runtime.target # NoRow => Published(r) \in {"Identifying", "none"}
    BY <2>1, <2>3 DEF Published
  <2>5. runtime.target = NoRow => Published(r) \in {"none", mirror[r].mode}
    <3>1. r # NoRow
      BY SetupAssumption DEF Row
    <3> QED
      BY <2>3, <3>1 DEF Published
  <2>6. \/ mode_events'[r] = Published(r) /\ Published(r) # "none"
        \/ mode_events'[r] = mode_events[r]
    BY <1>1
  <2> QED
    BY <2>1, <2>4, <2>5, <2>6
<1> QED
  BY <1>2, <1>8, <1>9, <1>10, <1>11, <1>12 DEF WizardInv, PreviewInv

(* What a pass starts.                                                       *)
LEMMA StartStep ==
  ASSUME WizardInv, ShouldRunPreview, Start(BuildPreview), place' = "sync", ~config_changed',
         UNCHANGED <<config, mirror, pairings, step, identify, exit_kind, astray,
                     active_identify_target>>
  PROVE  WizardInv'
<1> DEFINE preview == BuildPreview
<1>1. /\ runtime' = preview
      /\ driver' = [r \in Row |-> IF r \in DOMAIN preview.config
                                  THEN [up |-> "starting", mode |-> preview.config[r].mode]
                                  ELSE Off]
      /\ mode_events' = [r \in Row |-> "none"]
  BY DEF Start
<1>2. ProjectInv' /\ ScreenInv'
  BY SessionStays DEF WizardInv
<1>3. /\ IsProject(config) /\ mirror \in [Row -> Channel]
      /\ \A r \in DOMAIN config : config[r].mode \in {mirror[r].mode, "CommandFollowing"}
      /\ identify \in Row \cup {NoRow}
  BY DEF WizardInv, ProjectInv, ScreenInv, IsProject
<1>4. /\ preview.target = identify
      /\ preview.config = [r \in {identify} |-> [mirror[r] EXCEPT !.mode = "Identifying"]]
         \/ preview.config = config
  BY DEF BuildPreview
<1>5. \A r \in Row : r \in DOMAIN preview.config => preview.config[r].mode \in RobotMode
  <2>1. CASE preview.config = config
    BY <1>3, <2>1 DEF IsProject, Channel, RobotMode
  <2>2. CASE preview.config = [r \in {identify} |-> [mirror[r] EXCEPT !.mode = "Identifying"]]
    <3>1. ASSUME NEW r \in Row, r \in DOMAIN preview.config
          PROVE  preview.config[r].mode = "Identifying"
      BY <1>3, <2>2, <3>1 DEF Channel
    <3> QED
      BY <3>1 DEF RobotMode
  <2> QED
    BY <1>4, <2>1, <2>2
<1>6. /\ DesiredTarget' = DesiredTarget /\ ShouldRunPreview' = ShouldRunPreview
  BY DEF DesiredTarget, ShouldRunPreview, InStep
<1>7. BuildPreview' = preview
  BY DEF BuildPreview, InStep
<1>8. ~astray => /\ preview.target = DesiredTarget
                 /\ DesiredTarget = NoRow => preview.config = config /\ preview.pairings = pairings
                 /\ DesiredTarget # NoRow => /\ preview.config = Identified(DesiredTarget)
                                             /\ preview.pairings = <<>>
  BY BuildFacts DEF WizardInv
<1> HIDE DEF preview
<1>9. ProcessesOK'
  <2>1. driver' \in [Row -> [up : {"off", "starting", "running"}, mode : RobotMode]]
    BY <1>1, <1>5 DEF Off, RobotMode
  <2>2. mode_events' \in [Row -> RobotMode]
    BY <1>1 DEF RobotMode
  <2>3. \A r \in Row : driver'[r].up # "off" => r \in DOMAIN runtime'.config
    BY <1>1 DEF Off
  <2>4. runtime'.target \in Row \cup {NoRow} /\ active_identify_target' \in Row \cup {NoRow}
    BY <1>1, <1>3, <1>4 DEF WizardInv, PreviewInv, ProcessesOK
  <2> QED
    BY <2>1, <2>2, <2>3, <2>4 DEF ProcessesOK
<1>10. Shown'
  <2>1. ~astray /\ DesiredTarget # NoRow => preview.config = Identified(DesiredTarget)'
    BY <1>6, <1>8 DEF Identified
  <2> QED
    BY <1>1, <1>6, <1>8, <2>1 DEF Shown, Identified
<1>11. Settled'
  BY <1>1, <1>6, <1>7, <1>8 DEF Settled
<1>12. StartedModes'
  BY <1>1, <1>3, <1>8 DEF StartedModes
<1>13. DriverModes'
  <2> SUFFICES ASSUME ~astray, NEW r \in Row, driver'[r].up # "off"
               PROVE  /\ runtime'.target # NoRow =>
                           /\ r = runtime'.target
                           /\ driver'[r].mode = "Identifying"
                           /\ mode_events'[r] \in {"none", "Identifying"}
                      /\ runtime'.target = NoRow =>
                           /\ driver'[r].mode \in {runtime'.config[r].mode, mirror'[r].mode}
                           /\ mode_events'[r] \in {"none", mirror'[r].mode}
    BY DEF DriverModes
  <2>1. /\ r \in DOMAIN preview.config /\ driver'[r].mode = preview.config[r].mode
        /\ mode_events'[r] = "none" /\ runtime' = preview
    BY <1>1 DEF Off
  <2>2. preview.target # NoRow => r = preview.target /\ preview.config[r].mode = "Identifying"
    BY <1>3, <1>8, <2>1 DEF Identified, Channel
  <2> QED
    BY <2>1, <2>2
<1> QED
  BY <1>2, <1>9, <1>10, <1>11, <1>12, <1>13 DEF WizardInv, PreviewInv

(* A pass that finds the right processes running, or rightly none.           *)
LEMMA KeepStep ==
  ASSUME WizardInv, ~MustStop, ShouldRunPreview => runtime # Stopped, place' = "sync",
         ~config_changed',
         UNCHANGED <<config, mirror, pairings, step, identify, exit_kind, astray, runtime, driver,
                     mode_events, active_identify_target>>
  PROVE  WizardInv'
<1>1. ProjectInv' /\ ScreenInv'
  BY SessionStays DEF WizardInv
<1>2. runtime # Stopped => ShouldRunPreview /\ ~config_changed /\ runtime.target = DesiredTarget
  BY DEF MustStop
<1>3. ProcessesOK'
  BY DEF WizardInv, PreviewInv, ProcessesOK
<1>4. Shown'
  BY <1>2 DEF WizardInv, PreviewInv, Shown, Identified
<1>5. StartedModes'
  <2>1. CASE runtime = Stopped
    BY <2>1 DEF StartedModes, Stopped
  <2>2. CASE runtime # Stopped
    BY <1>2, <2>2 DEF WizardInv, PreviewInv, StartedModes
  <2> QED
    BY <2>1, <2>2
<1>6. DriverModes'
  <2>1. CASE runtime = Stopped
    <3>1. \A r \in Row : ~(driver[r].up # "off")
      BY <2>1 DEF WizardInv, PreviewInv, ProcessesOK, Stopped
    <3> QED
      BY <3>1 DEF DriverModes
  <2>2. CASE runtime # Stopped
    BY <1>2, <2>2 DEF WizardInv, PreviewInv, DriverModes
  <2> QED
    BY <2>1, <2>2
<1>7. Settled'
  <2>1. DesiredTarget' = DesiredTarget /\ ShouldRunPreview' = ShouldRunPreview
    BY DEF DesiredTarget, ShouldRunPreview, InStep
  <2>2. BuildPreview' = BuildPreview
    BY DEF BuildPreview, InStep
  <2>3. ASSUME ~astray, Validate(config, pairings), ShouldRunPreview
        PROVE  runtime.config = BuildPreview.config /\ runtime.pairings = BuildPreview.pairings
    <3>1. runtime # Stopped /\ ~config_changed /\ runtime.target = DesiredTarget
      BY <1>2, <2>3
    <3>2. IF DesiredTarget = NoRow THEN runtime.config = config /\ runtime.pairings = pairings
          ELSE runtime.config = Identified(DesiredTarget) /\ runtime.pairings = <<>>
      BY <2>3, <3>1 DEF WizardInv, PreviewInv, Shown
    <3>3. /\ DesiredTarget = NoRow => BuildPreview.config = config /\ BuildPreview.pairings = pairings
          /\ DesiredTarget # NoRow => /\ BuildPreview.config = Identified(DesiredTarget)
                                      /\ BuildPreview.pairings = <<>>
      BY <2>3, BuildFacts DEF WizardInv
    <3> QED
      BY <3>2, <3>3
  <2> QED
    BY <1>2, <2>1, <2>2, <2>3 DEF Settled
<1> QED
  BY <1>1, <1>3, <1>4, <1>5, <1>6, <1>7 DEF WizardInv, PreviewInv

(* The end of a pass.                                                        *)
LEMMA ReconcileStep ==
  ASSUME WizardInv, Reconcile
  PROVE  WizardInv'
<1>1. /\ config_changed' = FALSE /\ place' = "sync"
      /\ UNCHANGED <<config, mirror, pairings, step, identify, exit_kind, astray,
                     active_identify_target>>
  BY DEF Reconcile
<1>2. CASE ~ShouldRunPreview /\ StopRuntime
  <2>1. /\ runtime' = Stopped
        /\ driver' = [r \in Row |-> Off] /\ mode_events' = [r \in Row |-> "none"]
    BY <1>2 DEF StopRuntime
  <2>2. ProjectInv' /\ ScreenInv'
    BY <1>1, SessionStays DEF WizardInv
  <2>3. active_identify_target' \in Row \cup {NoRow}
    BY <1>1 DEF WizardInv, PreviewInv, ProcessesOK
  <2>4. ProcessesOK'
    BY <1>1, <2>1, <2>3 DEF ProcessesOK, Stopped, Off, RobotMode
  <2>5. ShouldRunPreview' = ShouldRunPreview
    BY <1>1 DEF ShouldRunPreview, InStep
  <2>6. Shown' /\ Settled'
    BY <1>2, <2>1, <2>5 DEF Shown, Settled
  <2>7. StartedModes'
    BY <2>1 DEF StartedModes, Stopped
  <2>8. DriverModes'
    BY <2>1 DEF DriverModes, Off
  <2> QED
    BY <2>2, <2>4, <2>6, <2>7, <2>8 DEF WizardInv, PreviewInv
<1>3. CASE ShouldRunPreview /\ Start(BuildPreview)
  BY <1>1, <1>3, StartStep
<1>4. CASE ~MustStop /\ (ShouldRunPreview => runtime # Stopped) /\ UNCHANGED processVars
  BY <1>1, <1>4, KeepStep DEF processVars
<1> QED
  BY <1>2, <1>3, <1>4 DEF Reconcile

(* The loop ends, or goes on without the preview.                            *)
LEMMA LeaveStep ==
  ASSUME WizardInv, End \/ RecoverPreview
  PROVE  WizardInv'
<1>1. /\ UNCHANGED <<config, mirror, pairings, step, astray, active_identify_target>>
      /\ identify' \in {identify, NoRow} /\ StopRuntime /\ place' \in {"poll", "ended"}
  BY DEF End, RecoverPreview, sessionVars, identifyVars
<1>2. ProjectInv'
  BY <1>1 DEF WizardInv, ProjectInv
<1>3. ScreenInv'
  BY <1>1 DEF WizardInv, ScreenInv
<1>4. active_identify_target' \in Row \cup {NoRow}
  BY <1>1 DEF WizardInv, PreviewInv, ProcessesOK
<1> QED
  BY <1>1, <1>2, <1>3, <1>4, StopStep

(* Only commands touch what ValidStays is about.                             *)
LEMMA OnlyCommandsEdit ==
  ASSUME WizardNext, ~Drain
  PROVE  UNCHANGED <<config, pairings, failed>>
<1>1. CASE \E r \in Row : DriverSubscribes(r) \/ DriverTakesMode(r)
  BY <1>1 DEF DriverSubscribes, DriverTakesMode, sessionVars
<1>2. CASE LeaveLoop \/ Abort \/ PreviewSpawnFails \/ Exit
  BY <1>2 DEF LeaveLoop, Abort, PreviewSpawnFails, Exit, End, sessionVars
<1>3. CASE RecoverPreview \/ Reconcile
  BY <1>3 DEF RecoverPreview, Reconcile
<1>4. CASE Sync \/ Ended
  BY <1>4 DEF Sync, Ended, wizardVars, sessionVars
<1> QED
  BY <1>1, <1>2, <1>3, <1>4 DEF WizardNext

(* Every step of the wizard keeps the invariant.                             *)
LEMMA WizardStep == WizardInv /\ [WizardNext]_wizardVars => WizardInv'
<1> SUFFICES ASSUME WizardInv, [WizardNext]_wizardVars PROVE WizardInv'
  OBVIOUS
<1>1. CASE \E r \in Row : DriverSubscribes(r) \/ DriverTakesMode(r)
  BY <1>1, DriverStep
<1>2. CASE LeaveLoop \/ RecoverPreview \/ Abort \/ PreviewSpawnFails \/ Exit
  <2>1. End \/ RecoverPreview
    BY <1>2 DEF LeaveLoop, Abort, PreviewSpawnFails, Exit
  <2> QED
    BY <2>1, LeaveStep
<1>3. CASE Drain
  BY <1>3, DrainStep
<1>4. CASE Reconcile
  BY <1>4, ReconcileStep
<1>5. CASE Sync
  BY <1>5, SyncStep
<1>6. CASE Ended \/ UNCHANGED wizardVars
  <2>1. UNCHANGED <<config, mirror, pairings, step, identify, exit_kind, config_changed, astray,
                    place, runtime, driver, mode_events, active_identify_target>>
    BY <1>6 DEF Ended, wizardVars, sessionVars, processVars, identifyVars
  <2>2. ProjectInv' /\ ScreenInv'
    BY <2>1, SessionStays DEF WizardInv
  <2>3. ProcessesOK' /\ StartedModes' /\ DriverModes'
    BY <2>1 DEF WizardInv, PreviewInv, ProcessesOK, StartedModes, DriverModes
  <2>4. Shown'
    BY <2>1 DEF WizardInv, PreviewInv, Shown, Identified
  <2>5. Settled'
    <3>1. DesiredTarget' = DesiredTarget /\ ShouldRunPreview' = ShouldRunPreview
      BY <2>1 DEF DesiredTarget, ShouldRunPreview, InStep
    <3>2. BuildPreview' = BuildPreview
      BY <2>1 DEF BuildPreview, InStep
    <3> QED
      BY <2>1, <3>1, <3>2 DEF WizardInv, PreviewInv, Settled
  <2> QED
    BY <2>2, <2>3, <2>4, <2>5 DEF WizardInv, PreviewInv
<1> QED
  BY <1>1, <1>2, <1>3, <1>4, <1>5, <1>6 DEF WizardNext

(* The inductive invariant holds initially and is kept.                      *)
LEMMA WizardInvariance == WizardSpec => []WizardInv
<1> QED
  BY WizardStarts, WizardStep, PTL DEF WizardSpec

(* Whatever the commands, the step exists, what is identified is selected    *)
(* and the pairings fit: each joins two selected arms, and no arm follows    *)
(* two leaders.                                                              *)
THEOREM SessionStaysSound == WizardSpec => []SessionSound
<1>1. WizardInv => SessionSound
  <2> SUFFICES ASSUME WizardInv PROVE SessionSound
    OBVIOUS
  <2>1. /\ IsProject(config) /\ pairings \in Seq(Pair) /\ Sound(config, pairings)
        /\ mirror \in [Row -> Channel] /\ ScreenInv /\ ProcessesOK
    BY DEF WizardInv, PreviewInv, ProjectInv
  <2>2. DOMAIN pairings = 1 .. Len(pairings)
    BY <2>1, LenProperties
  <2>3. PairingsSound
    BY <2>1, <2>2 DEF PairingsSound, Sound
  <2>4. DOMAIN config \subseteq Row /\ \A r \in DOMAIN config : config[r] \in Channel
    BY <2>1 DEF IsProject
  <2>5. step \in DOMAIN Steps /\ identify \in DOMAIN config \cup {NoRow}
    BY <2>1, SessionValues DEF ScreenInv
  <2>6. SessionTypeOK
    BY <2>1, <2>4, <2>5 DEF SessionTypeOK, ProcessesOK
  <2> QED
    BY <2>3, <2>6 DEF SessionSound
<1> QED
  BY <1>1, WizardInvariance, PTL

(* After a pass the preview children run exactly when the step asks for them *)
(* and were started from the configuration on the screen.                    *)
THEOREM PreviewStaysCurrent == WizardSpec => []PreviewIsCurrent
<1>1. WizardInv => PreviewIsCurrent
  BY DEF WizardInv, PreviewInv, Settled, PreviewIsCurrent
<1> QED
  BY <1>1, WizardInvariance, PTL

(* After a pass a driver that has taken its mode events identifies itself or *)
(* runs in the mode of the project, unless its row has another mode.         *)
THEOREM ModesStayAsChosen == WizardSpec => []ModesAsChosen
<1>1. WizardInv => ModesAsChosen
  <2> SUFFICES ASSUME WizardInv, place = "settled", ~astray, NEW r \in Row,
                      driver[r].up # "off", mode_events[r] = "none"
               PROVE  \/ driver[r].mode = IF r = DesiredTarget THEN "Identifying" ELSE config[r].mode
                      \/ r # DesiredTarget /\ mirror[r].mode # config[r].mode
    BY DEF ModesAsChosen
  <2>1. r \in DOMAIN runtime.config /\ runtime # Stopped
    BY DEF WizardInv, PreviewInv, ProcessesOK, Stopped
  <2>2. runtime.target = DesiredTarget /\ ~config_changed
    BY <2>1 DEF WizardInv, PreviewInv, Settled
  <2>3. CASE runtime.target # NoRow
    BY <2>2, <2>3 DEF WizardInv, PreviewInv, DriverModes
  <2>4. CASE runtime.target = NoRow
    <3>1. r # DesiredTarget
      BY <2>2, <2>4, SetupAssumption DEF Row
    <3>2. driver[r].mode \in {runtime.config[r].mode, mirror[r].mode}
      BY <2>2, <2>4 DEF WizardInv, PreviewInv, DriverModes
    <3>3. /\ runtime.config[r].mode \in {mirror[r].mode, "CommandFollowing"}
          /\ config[r].mode \in {runtime.config[r].mode, "CommandFollowing"}
      BY <2>1, <2>2, <2>4 DEF WizardInv, PreviewInv, StartedModes
    <3> QED
      BY <3>1, <3>2, <3>3
  <2> QED
    BY <2>3, <2>4
<1> QED
  BY <1>1, WizardInvariance, PTL

(* What the operator may do with a valid project neither makes it invalid    *)
(* nor ends the wizard in an error, unless no device or no state of a device *)
(* is left, the file cannot be written, or the mode of a robot is cycled.    *)
THEOREM ValidProjectStays == WizardSpec => ValidStays
<1>1. WizardInv /\ [WizardNext]_wizardVars => [ValidStep]_wizardVars
  <2> SUFFICES ASSUME WizardInv, WizardNext PROVE ValidStep
    BY DEF wizardVars
  <2>1. CASE Drain
    BY <2>1, DrainStep
  <2>2. CASE ~Drain
    BY <2>2, OnlyCommandsEdit DEF ValidStep
  <2> QED
    BY <2>1, <2>2
<1>2. ValidStays <=> [][ValidStep]_wizardVars
  BY PTL DEF ValidStays, ValidStep
<1> QED
  BY <1>1, <1>2, WizardInvariance, PTL DEF WizardSpec
=============================================================================
