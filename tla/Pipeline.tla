----------------------------- MODULE Pipeline -----------------------------
(***************************************************************************)
(* The episode pipeline of a session: the controller, the assembler and    *)
(* the storage process, each with its own loop and worker thread,          *)
(* connected by the bus and by the staging directories on disk.            *)
(*                                                                         *)
(* The encoders appear only through what their packets do to a stream      *)
(* (OnPacket).  A user command takes effect in the phase "commands" and no *)
(* one else reads it, so letting it arrive only just before that phase     *)
(* loses no behaviour; nor does leaving out commands that do not fit the   *)
(* lifecycle's state, which the controller refuses without effect          *)
(* (ControllerEnv has them all).  One command per tick is a bound.         *)
(***************************************************************************)
EXTENDS Controller, Assembler, Storage

vars == <<ring, controllerVars, assemblerVars, storageVars>>

Init == BusInit /\ ControllerInit /\ AssemblerInit /\ StorageInit

Fits(c) ==
  \/ c = "Start" /\ state = "Idle" /\ next_episode_index < MaxEpisodes
  \/ c = "Stop" /\ state = "Recording"
  \/ c \in {"Keep", "Discard"} /\ state = "Pending"

UserCommand(c) ==
  /\ phase = "dropped"
  /\ ~Waiting("controller.command")
  /\ Fits(c)
  /\ ring' = Publish(ring, {"controller.command"}, Msg(c, 0))
  /\ UNCHANGED <<controllerVars, assemblerVars, storageVars>>

(* poll_children_once sees a process that has exited. *)
ChildExited == assemblerPhase = "exited" \/ storagePhase = "exited"

ControllerStep ==
  /\ Tick(ChildExited)
  /\ UNCHANGED <<assemblerVars, storageVars>>

Halt == PollHalt /\ UNCHANGED <<assemblerVars, storageVars>>

AssemblerStep == AssemblerLoop /\ UNCHANGED <<controllerVars, storageVars>>

StagerStep == StagerNext /\ UNCHANGED <<controllerVars, storageVars>>

StorageStep == StorageLoop /\ UNCHANGED <<controllerVars, assemblerVars>>

(* The storage worker reads and finally removes the staging directory. *)
StorerStep ==
  \/ /\ EndStore(storing \in staging)
     /\ \E left \in Leftover(storing) : staging' = (staging \ {storing}) \cup left
     /\ UNCHANGED <<controllerVars, manager, in_flight, shutdown_requested,
                    assemblerPhase, stageQ, stageEventQ, stager, dropped>>
  \/ /\ StorerStarts \/ BeginStore \/ FailStore(storing \in staging) \/ StorerShutdown
     /\ UNCHANGED <<controllerVars, assemblerVars>>

(* terminate_children: once the shutdown timeout has passed a process that   *)
(* is still alive gets SIGTERM and, if need be, SIGKILL; when all are gone   *)
(* the controller returns.                                                   *)
KillAssembler ==
  phase = "terminating" /\ AssemblerKilled /\ UNCHANGED <<controllerVars, storageVars>>

KillStorage ==
  phase = "terminating" /\ StorageKilled /\ UNCHANGED <<controllerVars, assemblerVars>>

AllGone ==
  /\ phase = "terminating"
  /\ assemblerPhase = "exited" /\ storagePhase = "exited"
  /\ phase' = "done"
  /\ UNCHANGED <<ring, lifecycle, start_blocked, status_changed, status, sent,
                 assemblerVars, storageVars>>

Finished == phase = "done" /\ UNCHANGED vars

Next ==
  \/ \E c \in EpisodeCommand : UserCommand(c)
  \/ ControllerStep \/ Halt
  \/ AssemblerStep \/ StagerStep
  \/ StorageStep \/ StorerStep
  \/ KillAssembler \/ KillStorage \/ AllGone \/ Finished

Spec == Init /\ [][Next]_vars

-----------------------------------------------------------------------------
(* Fairness.  Each loop and each worker thread keeps running, so it takes a  *)
(* step whenever it has one to take (weak fairness); a child's exit is seen  *)
(* by the next poll.  The two deadlines of the assembler lie at fixed clock  *)
(* times and are compared on every iteration, so an episode that stays in    *)
(* the waiting state is dropped, and a slot that stays taken is swept,       *)
(* although the phases in between disable these steps (strong fairness).     *)
(* Nothing is assumed of the user, of packets, of signals or of kills.       *)
Fairness ==
  /\ WF_vars(ControllerStep)
  /\ WF_vars(ChildExited /\ Halt)
  /\ WF_vars(AssemblerStep)
  /\ WF_vars(StagerStep)
  /\ WF_vars(StorageStep)
  /\ WF_vars(StorerStep)
  /\ \A e \in Episode :
       /\ SF_vars(DropTimedOut(e) /\ UNCHANGED <<controllerVars, storageVars>>)
       /\ SF_vars(SweepStaleSlot(e) /\ UNCHANGED <<controllerVars, storageVars>>)

FairSpec == Spec /\ Fairness

-----------------------------------------------------------------------------
(* Vocabulary of the properties. *)

Did(t, e) == Msg(t, e) \in sent
Sent(t) == {e \in Episode : Did(t, e)}
Kept == Sent("EpisodeKeep")
Discarded == Sent("EpisodeDiscard")

(* The episodes named by the messages of type t in a queue. *)
Named(q, t) == {q[i].episode_index : i \in {j \in DOMAIN q : q[j].type = t}}

(* Where a dispatched episode is until the storage worker has stored it. *)
ToStage == Named(stageQ, "Stage")
Staged == Named(stageEventQ, "Staged")
Announced == Named(ring["storage.ready"], "EpisodeReady")
ToStore == Named(storeQ, "Store")
BeingStored == IF storer = "storing" THEN {storing} ELSE {}

Underway == ToStage \cup Staged \cup Announced \cup ToStore \cup BeingStored

Ended == phase \in {"terminating", "done"}

(* How often episode e is named by the messages of type t in a queue. *)
Mentions(q, t, e) ==
  Cardinality({i \in DOMAIN q : q[i].type = t /\ q[i].episode_index = e})

Member(e, S) == IF e \in S THEN 1 ELSE 0

-----------------------------------------------------------------------------
(* Type invariant of the composed state. *)
TypeOK ==
  /\ \A p \in Port : Len(ring[p]) <= BufferSize
  /\ state \in EpisodeState /\ phase \in Phase
  /\ next_episode_index \in ResumeIndex .. MaxEpisodes
  /\ active_episode_index \in Episode \cup {None}
  /\ episodes \subseteq Episode
  /\ stopped \subseteq episodes /\ keep_requested \subseteq episodes
  /\ stream \in [Episode -> [Camera -> StreamStatus]]
  /\ in_flight \subseteq Episode /\ Cardinality(in_flight) <= StagingSlots
  /\ assemblerPhase \in AssemblerPhase /\ stager \in {"running", "exited"}
  /\ staging \subseteq Episode /\ dropped \subseteq Episode
  /\ storagePhase \in StoragePhase /\ storer \in Storer
  /\ storing \in Episode /\ output \subseteq Episode

(* An episode the user did not keep never gets past the assembler: nothing   *)
(* of it is staged, announced, stored or counted, even when control events   *)
(* were overwritten on the bus and the assembler saw only some of them.      *)
OnlyKeptLeavesAssembler ==
  Underway \cup staging \cup output \cup stored_episode_indices \subseteq Kept

(* Custody: an episode is in one place of the pipeline at a time and passes  *)
(* through it once.  A second pass would make storage/local delete the       *)
(* stored directory before it fails on the missing staging directory, and    *)
(* local-lerobot fail and end the session.                                   *)
SingleCustody ==
  \A e \in Episode :
    1 >= Member(e, episodes) + Mentions(stageQ, "Stage", e)
         + Mentions(stageEventQ, "Staged", e)
         + Mentions(ring["storage.ready"], "EpisodeReady", e)
         + Mentions(storeQ, "Store", e) + Member(e, BeingStored) + Member(e, output)

(* Only what was kept, and only once.                                        *)
CustodySound == OnlyKeptLeavesAssembler /\ SingleCustody

(* The hand-over of the staging directory: from the moment the assembler     *)
(* reports an episode staged until storage has moved it, the directory is    *)
(* there; no cleanup on the drop and discard paths takes it away.            *)
StagingDirPresent == Staged \cup Announced \cup ToStore \cup BeingStored \subseteq staging

(* EpisodeStored is published "after an episode has been durably persisted": *)
(* every notice on its way and every episode the controller counts is in the *)
(* output tree.                                                              *)
StoredMeansOutput ==
  stored_episode_indices \cup Named(ring["controller.stored"], "EpisodeStored")
    \cup Named(ring["assembler.stored"], "EpisodeStored") \subseteq output

(* The directories: staged ones are there until they are moved, and what is  *)
(* reported stored has been.                                                 *)
DirectoriesSound == StagingDirPresent /\ StoredMeansOutput

(* Slot accounting: while the assembler lives, an episode that is staged or  *)
(* stored but not done yet holds a slot, unless its slot was swept (and the  *)
(* episode declared dropped).                                                *)
SlotCoversWork ==
  assemblerPhase # "exited" => Underway \subseteq in_flight \cup dropped

(* The slots bound the work: never more than staging_slots are taken, and    *)
(* what is being staged and stored is within them.                           *)
SlotsAccounted == TypeOK /\ SlotCoversWork

(* What has become of an episode: the controller's next_episode_index and    *)
(* state tell how far it is, the published control event how it was decided. *)
Fate ==
  [e \in ResumeIndex .. MaxEpisodes - 1 |->
     IF e < next_episode_index
     THEN IF Did("EpisodeKeep", e) THEN "kept" ELSE "discarded"
     ELSE IF e = next_episode_index /\ state # "Idle"
          THEN IF state = "Recording" THEN "recording" ELSE "pending"
          ELSE "none"]

Promise == INSTANCE EpisodeSpec
             WITH First <- ResumeIndex, Last <- MaxEpisodes - 1,
                  fate <- Fate, persisted <- output

(* The detailed pipeline implements the promise of EpisodeSpec. *)
EpisodesAsPromised == Promise!Spec

(* Every kept episode is eventually stored or reported dropped, or the       *)
(* session ends: through lost EndOfStreams, staging errors and stalled       *)
(* storage (checked where no ring overflows).                                *)
KeptIsResolved == \A e \in Episode : e \in Kept ~> (e \in output \cup dropped \/ Ended)

(* On Shutdown an assembler that holds no episode and the storage process    *)
(* leave on their own; no signal is needed.                                  *)
QuietShutdown ==
  (Ended /\ episodes = {} /\ in_flight = {} /\ Sent("RecordingStart") \subseteq Kept \cup Discarded)
    ~> (assemblerPhase = "exited" /\ storagePhase = "exited")

============================================================================
