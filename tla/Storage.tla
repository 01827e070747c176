------------------------------ MODULE Storage ------------------------------
(***************************************************************************)
(* A storage process: the main loop and the worker thread that moves       *)
(* staged episodes into the output tree.  storage/local (for mcap          *)
(* episodes), storage/local-lerobot (for LeRobot episodes) and             *)
(* storage/dataloop (which uploads) run the same loop and worker around a  *)
(* store of their own.                                                     *)
(*                                                                         *)
(* A store takes two steps of the worker, because the process can be       *)
(* killed in between: it begins (storage/local clears the episode's output *)
(* directory first, local-lerobot merges into the dataset, dataloop        *)
(* creates a remote episode) and ends with every entry moved and the       *)
(* staging directory removed.  Dataset has the file operations in between. *)
(***************************************************************************)
EXTENDS Bus

CONSTANT Backend    \* which storage process: "local", "local-lerobot" or "dataloop"

ASSUME BackendAssumption == Backend \in {"local", "local-lerobot", "dataloop"}

VARIABLES
  storagePhase,       \* place in the main loop
  shutdown_sent, shutdown_complete,
  storeQ,             \* WorkerCommand channel, unbounded
  storeEventQ,        \* WorkerEvent channel, unbounded
  storer,             \* the worker thread, see Storer
  storing,            \* the episode being moved while storer = "storing"
  output              \* disk: episodes whose files are all in the output tree

storageVars == <<storagePhase, shutdown_sent, shutdown_complete,
                 storeQ, storeEventQ, storer, storing, output>>

StoragePhase == {"events", "ready", "exited"}
Storer == {"starting", "idle", "storing", "exited"}

StorageInit ==
  /\ storagePhase = "events"
  /\ shutdown_sent = FALSE /\ shutdown_complete = FALSE
  /\ storeQ = <<>> /\ storeEventQ = <<>>
  /\ storer = IF Backend = "dataloop" THEN "starting" ELSE "idle"
  /\ storing = 0
  /\ output = {}

-----------------------------------------------------------------------------
(* The worker's events. *)

TakeStoreEvent(type) ==
  /\ storagePhase = "events"
  /\ storeEventQ # <<>>
  /\ Head(storeEventQ).type = type
  /\ storeEventQ' = Tail(storeEventQ)
  /\ UNCHANGED <<shutdown_sent, storeQ, storer, storing, output>>

OnStored ==
  /\ TakeStoreEvent("Stored")
  /\ ring' = Publish(ring, StoredPort,
                     Msg("EpisodeStored", Head(storeEventQ).episode_index))
  /\ UNCHANGED <<storagePhase, shutdown_complete>>

(* The first store error ends the process: run_with_config returns Err. *)
OnStoreError ==
  /\ TakeStoreEvent("Error")
  /\ storagePhase' = "exited"
  /\ ring' = Forget(ring, StoragePort)
  /\ UNCHANGED shutdown_complete

OnStoreShutdown ==
  /\ TakeStoreEvent("ShutdownComplete")
  /\ shutdown_complete' = TRUE
  /\ UNCHANGED <<storagePhase, ring>>

AdvanceStorage(from, to) ==
  /\ storagePhase = from
  /\ storagePhase' = to
  /\ UNCHANGED <<shutdown_sent, shutdown_complete, storeQ, storeEventQ, storer, storing,
                 output, ring>>

StoreEventsDrained == storeEventQ = <<>> /\ AdvanceStorage("events", "ready")

-----------------------------------------------------------------------------
(* Control events, then EpisodeReady; as a Shutdown may come in between, the *)
(* order of the two is left open.  Sending to a worker that has returned     *)
(* fails, and `?` ends the process.                                          *)

SendToWorker(type, e) ==
  IF storer = "exited"
  THEN storagePhase' = "exited" /\ UNCHANGED storeQ
  ELSE storeQ' = Append(storeQ, Msg(type, e)) /\ UNCHANGED storagePhase

OnStorageControl ==
  /\ storagePhase = "ready"
  /\ Waiting("storage.control")
  /\ IF Head(ring["storage.control"]) = Shutdown /\ ~shutdown_sent
     THEN SendToWorker("Shutdown", 0) /\ shutdown_sent' = TRUE
     ELSE UNCHANGED <<storagePhase, storeQ, shutdown_sent>>
  /\ ring' = Receive(ring, "storage.control")
  /\ UNCHANGED <<shutdown_complete, storeEventQ, storer, storing, output>>

OnEpisodeReady ==
  /\ storagePhase = "ready"
  /\ Waiting("storage.ready")
  /\ SendToWorker("Store", Head(ring["storage.ready"]).episode_index)
  /\ ring' = Receive(ring, "storage.ready")
  /\ UNCHANGED <<shutdown_sent, shutdown_complete, storeEventQ, storer, storing, output>>

(* End of an iteration: the loop runs until shutdown_complete. *)
ReadyDrained ==
  /\ ~Waiting("storage.ready") /\ ~Waiting("storage.control")
  /\ AdvanceStorage("ready", IF shutdown_complete THEN "exited" ELSE "events")

-----------------------------------------------------------------------------
(* The worker thread: worker_main and store_episode_local. *)

Emit(type, e) == storeEventQ' = Append(storeEventQ, Msg(type, e))

(* The dataloop worker creates its client before it takes a command; without *)
(* a server address, token or project it returns with an error.              *)
StorerStarts ==
  /\ storer = "starting"
  /\ \/ storer' = "idle" /\ UNCHANGED storeEventQ
     \/ storer' = "exited" /\ Emit("Error", 0)
  /\ UNCHANGED <<storagePhase, shutdown_sent, shutdown_complete, storeQ, storing, output, ring>>

(* storage/local removes an output directory of the episode that exists. *)
Cleared(e) == IF Backend = "local" THEN {e} ELSE {}

(* Mutant: the episode is reported stored before its files are moved. *)
BeginStoreReports ==
  /\ storer = "idle"
  /\ storeQ # <<>>
  /\ Head(storeQ).type = "Store"
  /\ storer' = "storing"
  /\ storing' = Head(storeQ).episode_index
  /\ storeQ' = Tail(storeQ)
  /\ output' = output \ Cleared(Head(storeQ).episode_index)
  /\ Emit("Stored", Head(storeQ).episode_index)
  /\ UNCHANGED <<storagePhase, shutdown_sent, shutdown_complete, ring>>

BeginStore ==
  /\ storer = "idle"
  /\ storeQ # <<>>
  /\ Head(storeQ).type = "Store"
  /\ storer' = "storing"
  /\ storing' = Head(storeQ).episode_index
  /\ storeQ' = Tail(storeQ)
  /\ output' = output \ Cleared(Head(storeQ).episode_index)
  /\ UNCHANGED <<storagePhase, shutdown_sent, shutdown_complete, storeEventQ, ring>>

(* What a store leaves in the staging directory: local and local-lerobot     *)
(* have moved the files away; dataloop ignores an error of removing them.    *)
Leftover(e) == IF Backend = "dataloop" THEN {{}, {e}} ELSE {{}}

(* `staged` is the staging directory's presence: without it reading it fails. *)
EndStore(staged) ==
  /\ storer = "storing"
  /\ staged
  /\ storer' = "idle"
  /\ storing' = 0
  /\ output' = output \cup {storing}
  /\ Emit("Stored", storing)
  /\ UNCHANGED <<storagePhase, shutdown_sent, shutdown_complete, storeQ, ring>>

(* What may have reached the output when a store fails: the error may be the *)
(* one of removing the staging directory, or of the answer to an upload.     *)
Arrived(e) == IF Backend = "local" THEN {{}} ELSE {{}, {e}}

(* An I/O error: the worker reports it and returns, whatever is queued. *)
FailStore(staged) ==
  /\ storer = "storing"
  /\ storer' = "exited"
  /\ storing' = 0
  /\ \E files \in IF staged THEN Arrived(storing) ELSE {{}} : output' = output \cup files
  /\ Emit("Error", storing)
  /\ UNCHANGED <<storagePhase, shutdown_sent, shutdown_complete, storeQ, ring>>

StorerShutdown ==
  /\ storer = "idle"
  /\ storeQ # <<>>
  /\ Head(storeQ).type = "Shutdown"
  /\ storeQ' = Tail(storeQ)
  /\ storer' = "exited"
  /\ Emit("ShutdownComplete", 0)
  /\ UNCHANGED <<storagePhase, shutdown_sent, shutdown_complete, storing, output, ring>>

-----------------------------------------------------------------------------
StorageLoop ==
  \/ OnStored \/ OnStoreError \/ OnStoreShutdown \/ StoreEventsDrained
  \/ OnStorageControl
  \/ OnEpisodeReady \/ ReadyDrained

(* SIGTERM or SIGKILL from the controller: a store under way is cut short. *)
StorageKilled ==
  /\ storagePhase # "exited"
  /\ storagePhase' = "exited"
  /\ storer' = "exited"
  /\ storing' = 0
  /\ storeQ' = <<>> /\ storeEventQ' = <<>>
  /\ ring' = Forget(ring, StoragePort)
  /\ UNCHANGED <<shutdown_sent, shutdown_complete, output>>
============================================================================
