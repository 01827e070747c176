# TLA+ models of rollio-ng

rollio-ng records demonstrations for robot learning. A session runs many
processes: a controller, device drivers for arms and cameras, one recording
encoder per camera, a teleop router per arm pair, an episode assembler, a
storage process and the user-facing servers. They share nothing but an
iceoryx2 bus, a staging directory and a dataset on disk. This directory models
the part of that system that decides what ends up in the dataset, what the
follower arm is told to do, what an operator gets to see and how a project is
set up, checks it with TLC on small instances and proves part of it with TLAPS
for every size.

`PROJECT.json` is the machine-readable side of this document: the components,
the runs, for every definition the source lines it translates, for every
checked property the mutated definitions that break it, the hazards of the code
with the properties aimed at them, and the theorems.

## Inventory

| component | state it keeps | operations | talks to | hard part | correct when |
|---|---|---|---|---|---|
| controller, episode lifecycle (`controller/src/episode.rs`, `collect.rs`) | lifecycle state, next index, stored indices and count, `start_blocked` | user commands; stored, dropped and backpressure notices; status publication | control events out; four services in | four services drained in a fixed order, each sample arriving at any time | each index is started, stopped and decided once; the count is exact; the shown status is current |
| controller, supervision (`controller/src/process.rs`, `collect.rs`) | child handles, shutdown flag | spawn, poll, Shutdown, SIGTERM, SIGKILL, reap | all children | partial spawn, children that hang, exit between poll and kill | no child survives; no foreign process is signalled; a session ends |
| controller, resume (`controller/src/dataset_resume.rs`) | none (reads the dataset) | `probe_resume` | dataset | it reads what a crashed session left | nothing is overwritten, no two configurations are mixed |
| bus (`rollio-bus`, `rollio-types/src/messages.rs`) | one ring per subscriber | publish, receive | all | rings of depth 2 overwrite silently | (a medium; it promises nothing) |
| recording encoder (`encoder/src/recording_runtime.rs`) | two threads, three channels, an open session | control events, frames, session open/close | control events and frames in, packets out | relayed control and frames reordered between threads; bounded queue; codec errors | one gapless stream per episode, only its own frames, closed by one EndOfStream |
| assembler (`episode-lerobot`, `episode-mcap`) | episodes under assembly, packet buffers, in-flight slots, staging thread | control events, packets, dispatch, drop, sweep, staging | control events, packets and stored notices in; ready, dropped, backpressure out; staging directory | two unordered inputs, two timeouts, a slot limit, a directory owned by three parties in turn | only kept episodes leave it, each once, and every kept one is stored or reported dropped |
| storage (`storage/local`, `storage/local-lerobot`, `storage/dataloop`) | main loop, worker thread, queue | store, report, shut down | ready and control events in, stored notices out; staging directory, dataset | death between two file operations | stored means on disk; metadata lists only complete episodes |
| teleop router (`teleop-router/src/lib.rs`) | ramp anchor, closeness window, last forwarded stamp | forward, hold, ramp | leader and follower states in, commands out | two unsynchronised sample streams and a clock | the first command is near the follower; targets do not jump; pass-through is earned |
| setup wizard (`controller/src/setup/`) | edited project, the rows shown in Devices, step, identified row, preview children | wizard commands; stop, start and recovery of the preview; mode events | control server, drivers | two copies of a channel; restarts racing commands, failing children and drivers that subscribe late | a valid project stays valid, the preview is the project on the screen, robots are in the chosen mode |
| control server (`control-server/`) | latest snapshot, broadcast channel, client tasks | republish commands, broadcast states and backpressure, greet and serve clients | controller or wizard over the bus, UIs over WebSocket | clients that subscribe, lag and leave while states change | a client that has read everything shows the newest state; commands arrive once and in order |
| visualizer (`visualizer/`) | preview size (two atomics), client count, resize queue, keyframe gate | connect, set size, leave; forward resizes; forward packets | browsers, preview encoders | client tasks interleave between any two accesses; lossy rings | what is forwarded is whole and valid; no delta is sent without its keyframe |
| preview encoder (`encoder/src/preview_runtime.rs`) | size, session, group of pictures | drain sizes, resize, encode, end | visualizer, camera | a request that is overtaken, refused or equal to the present size | the last request reaches the screen (one case is lost, see Divergences) |
| web gateway, UIs | none that matters here | proxying, rendering | browsers | | not modelled |
| robot drivers (`robots/airbot_play_rust`, `robots/nero`) | mode, waiting commands, ramp, goal and last target of a channel; a stop flag and, for the AIRBOT, an LED gate between the channel threads | mode requests, commands, ticks, homing, the end | wizard, controller, teleop router, hardware | two threads, late ticks, state that outlives a mode, a thread that fails alone | the hardware is as the mode says; targets do not jump; the arm is parked when the process ends |
| pseudo driver, cameras (`robots/pseudo`, `cameras/`) | device mode, capture state | simulated motion, capture | hardware | vendor interfaces | environments of the models |

How an episode travels: the user's *start* makes the controller publish
`RecordingStart(e)`; encoders open a stream of packets for `e`, the assembler
an entry. *Stop* publishes `RecordingStop(e)`, on which encoders close the
stream with EndOfStream. *Keep* or *discard* decides; the controller counts up.
The assembler hands a kept episode with all EndOfStreams to its staging thread
if a slot is free (otherwise it drops it and reports backpressure) and
announces the finished directory with `EpisodeReady`. Storage moves it into the
dataset and publishes `EpisodeStored`, which frees the slot and raises the
controller's count. Backpressure blocks the next start until something was
stored or dropped.

Around a session: UIs talk to the control server, which bridges WebSocket
clients to the controller (or, before a session, to the setup wizard), and to
the visualizer, which forwards the preview encoders' packets to browsers and
the browsers' size to the encoders. The setup wizard edits the project and, in
two of its steps, runs drivers and encoders of its own to show it.

The hazards are listed, each at its line, under `hazards` in `PROJECT.json`.

## Modules

| module | models | extends |
|---|---|---|
| `Messages`, `Bus` | messages, subscriber rings with overwriting, the ports of the episode services | |
| `Controller` | lifecycle and collect loop, one action per branch of a tick | `Bus` |
| `ControllerEnv` | the controller against an environment that sends anything | `Controller` |
| `Assembler` | `EpisodeManager`, main loop, staging thread | `Bus` |
| `Storage` | loop and worker of a storage process (`Backend` says which of the three) | `Bus` |
| `Pipeline` | controller, assembler and storage composed; refines `EpisodeSpec` | the three above |
| `EpisodeSpec` | what a session promises of its episodes | |
| `Encoder` | main loop and worker thread of a recording encoder | `Messages` |
| `Recording` | a session, a camera and the encoder; refines `StreamSpec` | `Encoder` |
| `StreamSpec` | what an encoder promises on its packet topic | |
| `PacketStream` | the assemblers' packet buffers, as pure operators | |
| `Intake` | an assembler reading control events and packets, the encoder being `StreamSpec` | `Messages`, `PacketStream` |
| `TeleopRouter`, `MCTeleop` | the forwarding loop, the mapping and both ramps; function-valued constants | |
| `Dataset` | the dataset on disk over several sessions and crashes, one file operation per step | |
| `Supervisor` | spawning and ending children | |
| `Ring` | a subscriber ring as an operator | |
| `ControlServer` | poll loop, broadcast channel, client tasks, for either role | `Ring` |
| `PreviewSizes` | clamping in the visualizer and validation in the encoder, as pure operators | |
| `PreviewTopics` | the two topics between visualizer and preview encoder | `Ring`, `PreviewSizes` |
| `Visualizer` | client tasks, size control, keyframe gate | `PreviewTopics` |
| `PreviewEncoder` | the loop of a preview encoder | `PreviewTopics` |
| `Preview`, `MCPreview` | browsers, visualizer, encoder and the end of the session composed; requests for checking | the two above |
| `SetupSession` | the wizard's commands on the project | |
| `SetupWizard`, `MCSetup` | the wizard's loop, its preview children and the drivers' modes; two arms | `SetupSession` |
| `DriverThreads` | what the robot drivers share: threads, stop flag, mode and command topics | |
| `Airbot` | channel threads of the AIRBOT Play driver, states of its motors, the LED gate | `DriverThreads` |
| `Nero` | arm thread (modes, ramp, clamp, homing) and gripper thread of the Nero driver | `DriverThreads` |
| `Drivers`, `MCDrivers` | a process that is one of the two; the configurations that are checked | the two above |
| `ControllerProofs`, `ServerProofs`, `PipelineProofs`, `RecordingProofs`, `IntakeProofs`, `DatasetProofs`, `TeleopProofs`, `DriversProofs` | theorems | the model they are about (`ControllerProofs`: `ControllerEnv`, `Supervisor` and `SetupWizard`, the three roles of the controller; `ServerProofs`: `ControlServer` and `Preview`) |

The models meet at stated interfaces. `ControllerProofs` proves that the
controller publishes a well-formed control stream, and `Recording` and `Intake`
take such a stream as their session; `RecordingProofs` proves that the encoder
implements `StreamSpec`, and `Intake` takes `StreamSpec` as its encoder;
`Dataset` refines the two-step store of `Storage` into file operations (not by
a checked mapping: the two are separate views of the same function).

### Correspondence, and what is abstracted

Variables have the names of the fields they model; a Rust `Option` is a value
plus a flag or a value outside the range; a map of structs is the set of its
keys and one variable per field. Variables marked *history* in their comment
exist for properties only. A definition marked *Mutant* is an error to be
caught and appears in no specification.

* **Controller.** `phase` is the place in `run_collect_loop`. A drain receives
  one sample per step, so a sample arriving between two drains is read in this
  tick or the next depending on its service. The elapsed time in the status is
  left out.
* **Assembler.** Of a camera's buffer the manager only sees "open", "eos" or
  "failed"; `PacketStream` and `Intake` have the buffer. The contents of
  Parquet, MCAP and video files are left out. The MCAP manager and loop are the
  same code as the LeRobot ones.
* **Clocks.** Deadlines (`missing_eos_timeout_ms`, `stale_after`, shutdown
  timeouts) may pass at any moment their wait is under way: a larger set of
  behaviours than any setting of the durations. In `TeleopRouter` the clock is
  a number because the length of a window is the subject.
* **Encoder.** Time is the number of recordings started; a frame carries it as
  its timestamp. Pixels and codecs are left out, except for which packets are
  keyframes and which frames are too old. A codec that delays packets emits
  them in the same order, so one packet per frame is enough.
* **TeleopRouter.** Positions are integers. A pose is clamped along the line to
  the leader, so translation and rotation are one coordinate each; quaternion
  arithmetic is left out. Joints are reordered and scaled as configured.
* **Dataset.** A file is identified by the take it came from. Appending a line
  to `episodes.jsonl` is atomic; `info.json` is truncated and then written.
* **ControlServer.** A state is its number, a command its number and role. The
  broadcast channel keeps what was sent (`outbound`) and a cursor per client; a
  client further back than `Capacity` lags, as with tokio's channel.
* **Visualizer, PreviewEncoder.** A client's task takes one step per access to
  shared state (each atomic swap, the stream bounds, the queue), so two tasks
  interleave anywhere. Sizes keep their numbers: clamping and alignment are the
  subject. A packet is its kind, its size and its group of pictures, which is a
  keyframe with the deltas that depend on it; pixels and codecs are left out. A
  session of the encoder may be open without a packet (the codec failed or holds
  it back), and finishing it may fail before its EndOfStream is sent. Histories
  record which groups lost their keyframe (`keyLost`), which began without an
  EndOfStream that arrived (`unannounced`), and that the encoder skipped the
  size it read last for one before it (`takenBack`).
* **SetupSession, SetupWizard.** A row is a six-joint arm of its own; its
  channel is mode, published and recorded states. The project's copy (`config`)
  and the row's copy (`mirror`) are kept apart, because commands update one,
  the other or both. Commands that are refused are no steps. A driver is the
  mode it runs in and whether it has subscribed to mode events.
* **DriverThreads, Airbot, Nero.** A tick is two steps, the mode and the rest,
  because requests and commands arrive in between; the calls of the AIRBOT's
  LED gate, which has no lock, are one step per access. A topic is drained to
  its newest sample, so a waiting request is one mode, and a command topic is
  empty or holds a command that remembers the mode of the last tick that left
  it there. The Nero's joints are clamped and ramped one by one, so there is
  one; its time is counted in control periods and a tick may be late; inverse
  kinematics is the choice of a goal. Commands have at least one value. Gains,
  gravity torques and the gripper's pattern are left out.
* **Supervisor.** An exited child is a zombie until it is reaped; only then may
  its process id be reused.

## Runs

Deadlock is checked everywhere except for `Dataset`, where a dataset whose
`info.json` was left torn really admits no further session, and for
`ControlServer`, where a server whose controller has nothing more to publish
may rest.

| run | result | what it asks |
|---|---|---|
| `controller` | holds | whatever arrives: control stream well-formed (`ControlStream`), count exact (`CountIsStored`), status current between ticks (`StatusFresh`) |
| `pipeline` | holds | two episodes with ring overflow, stream failures, both timeouts, staging and store errors and kills: nothing undecided leaves the assembler, and an episode is in one place and passes once (`CustodySound`); the staging directory survives its hand-over, and a stored notice means output on disk (`DirectoriesSound`); slots bound and cover the work (`SlotsAccounted`), and all of it implements `EpisodeSpec` (`EpisodesAsPromised`) |
| `pipeline_live` | holds | every kept episode is stored or reported dropped unless the session ends (`KeptIsResolved`); an idle session ends without signals (`QuietShutdown`); with the dataloop storage, whose worker may fail to start |
| `recording` | holds | the encoder implements `StreamSpec` (`StreamsAsPromised`): gapless streams in order and, for a libav session, opened by a keyframe, without a frame of before the start; it closes an open stream after its stop even if the stop event was overwritten (`StopEndsOpenStream`), and ends on Shutdown (`ShutdownEndsEncoder`) |
| `intake` | holds | for both formats: joining a stream late is never mistaken for a sequence error (`NoFalseFailure`), a complete buffer has no hole (`CompleteIsGapless`) |
| `teleop` | holds | no command before feedback and the first one near the follower (`FirstCommandNear`), no unexplained jump (`TargetContinuous`), every ramped joint near the follower (`JointRampNearFollower`), an uninterrupted window before pass-through (`PassThroughEarned`) |
| `dataset` | holds | over three sessions with a crash possible between any two file operations: no LeRobot file is replaced (`LeRobotNotOverwritten`), a listed episode is complete and listed once, counts are bracketed, and a dataset has one configuration (`DatasetSound`), a stored episode stays whole (`StoredIsWhole`) |
| `supervisor` | holds | no child left (`NoChildLeft`), no signal to a reaped id (`SignalsOwnChild`), a trigger ends the session (`TriggerEndsSession`) |
| `control_server` | holds | whatever order a client subscribes, reads the snapshot, lags and leaves in: it shows the newest state once it has read everything, and commands arrive once, in order, at the right role (`BridgeSound`); a client that stays gets there (`NewestReachesClients`) |
| `preview` | holds | clients that set the size, leave and reset it: sizes stay whole and valid, clients are counted exactly (`SizesSound`); no delta is sent but after the keyframe of its group, unless the ring lost that keyframe and nothing announced it (`DecodableOrLost`); the last of several sizes reaches the screen unless it is taken back within one drain or a keyframe was lost (`ResizeTakesEffect`) |
| `setup` | holds | any four commands on a project of two arms: steps, identification and pairings stay sound (`SessionSound`), a valid project stays valid and does not end the wizard (`ValidStays`), the preview children run what is on the screen (`PreviewIsCurrent`), robots are in the chosen mode (`ModesAsChosen`), and the preview is not restarted for ever (`RestartsSettle`) |
| `drivers` | holds | either driver under mode requests, commands, failures and signals: the hardware is in the state the modes ask for, and the Nero is parked before its thread ends (`DriverSound`); a command that a mode throws away is not obeyed later (`CommandsDiscarded`); no target jumps, across modes, ramps and homing (`NoSnap`); a clamped goal is reached (`GoalIsReached`); a signal, Shutdown or the failure of one thread ends the process (`StopEndsDriver`) |

A property whose name ends in "Sound" or "Accounted" is a conjunction of named
parts that stand before it, in most modules with the type invariant; the parts
have mutants of their own. The type invariants of `ControllerEnv`,
`TeleopRouter` and `Supervisor` are not checked by a run, because they are
proved, and so is `PublishedOnce`.

### Bounds, and why they are enough

* `BufferSize` is 2 as in the running system (the library's default), so that
  overwriting happens; the liveness run of `Pipeline` uses 3 with one
  episode, where no ring overflows, because a lost keep event really is lost
  for ever (see hazards).
* `MaxEpisodes = 2`: the interactions are between one episode and the next (a
  second start while the first is staged, a slot taken by the other). One
  staging slot makes the second episode meet the limit. One camera suffices in
  `Pipeline`, because cameras only meet in the conjunction `AllCamerasEos`.
* `Recording`: a worker queue of 1, a frame ring of 2 and two frames make
  dropped, old and late frames happen; the run uses the libav session, the one
  with an age check and forced keyframes (RVL and passthrough are branches of
  the same definitions).
* `Intake`: five packets give two streams, each with late joins and any
  keyframe pattern.
* `TeleopRouter`: positions {0, 3, 5} with step 1 and threshold 2 give gaps
  inside and outside the threshold and ramps of several steps; `Hold = 2` needs
  a streak of ticks. One axis, a joint mounted the other way round or a
  coordinate of a pose; the kind of ramp (joint, cartesian, none) is chosen in
  the initial state. Several joints, reordered and not all of them reported,
  are the theorems' part, which remove these bounds.
* `Dataset`: three sessions are a crash, a resume that builds on it and a
  resume of that; four takes let indices be reused.
* `ControlServer`: one client, which may come and go; clients meet only in the
  channel, which none of them can block. Two states, two pressure events and
  two commands through rings of 1 and a channel of 2 make overwriting, lagging
  and burying happen.
* `Preview`: `MaxLoad = 3` bounds the requests so far and the clients there
  together: two clients with one request or one client with two. Two clients
  make a request, the reset by the last one to leave and a new client race each
  other; two requests, one larger than the maximum and off the alignment, the
  other the size there was at first, make the second overtake the first, find
  it in effect, or take it back. Requests of two clients at once are in the
  theorems only. A packet ring of 1 instead of 8 loses keyframes and ends of
  sessions as often as can be; `MaxGroups = 2` lets a group begin within a
  session, so that a lost keyframe need not be a session's first.
* `Setup`: two arms, discovered as a pair, and four commands, in any order and
  in any number of passes: enough to change a pairing, come back to Devices,
  cycle a mode and go on to the preview. Failures of children are not bounded.
* `Drivers`: the two threads of the AIRBOT run together without commands,
  because they share the LED; for the rest a driver's threads share only
  `stop`, which a signal sets as well, and run alone with commands. Two mode
  requests leave a mode and come back to it. Angles {0, 6} with a clamp of 2
  make a goal three ticks away; a ramp of 3 periods, ticks up to 2 periods late
  and a settling time of 2 let a ramp be cut short by the end of the session.
  `MaxDelay` may not exceed `Settle`: a tick later than the settling time
  (one second) could miss the parking pose altogether.
* `Supervisor`: three children are one before, at and after any position.

The theorems hold for every value of these bounds, so for the safety properties
the runs are a check of the models; for the liveness properties they are all
there is.

### Fairness

Only liveness properties use it (`RestartsSettle` needs none: it excludes an
endless loop).

* `Pipeline`: weak fairness for each loop and each worker thread, which run
  whenever they have a step to take; the next poll sees a child's exit. The two
  deadlines of the assembler have strong fairness: they lie at a fixed clock
  time and are compared in every iteration, while the phases in between disable
  the step. Nothing is assumed of the user, of packets, of signals or of kills.
* `Recording`: weak fairness of the encoder's two threads; nothing of the
  camera, the user or codec errors.
* `Supervisor`: weak fairness of the controller, and of its two waiting loops
  being left, which are bounded by deadlines. Nothing is assumed of children.
* `ControlServer`: weak fairness of the poll loop and of the clients' tasks;
  nothing of clients coming or leaving, of signals or of failures.
* `Preview`: weak fairness of both loops and of the clients' tasks. Encoding a
  packet has strong fairness: the camera goes on delivering frames and the
  codec does not fail for ever, though a resize may disable the step now and
  then. That a group of pictures ends is not assumed: a camera that codes by
  itself may never begin another one.
* `Drivers`: weak fairness of each channel thread; nothing of requests,
  commands, feedback, failures or signals.

## Proofs

Assumptions are the named `ASSUME`s of the models: ring depths, bounds and slot
counts are (positive) naturals, the resume index is within the bound, there is
a camera, codec and backend are among those there are, mappings are functions, a
pose is reported as a whole, a tick of the Nero is not later than its settling
time, the rows of the wizard are distinct. TLC evaluates each of them in the runs.

* **`ControllerProofs`**, its episodes (`ControllerEnv`): `Typing`, `StreamIsWellFormed`, `CountIsExact`,
  `StatusIsFresh`, `NoEventTwice`, for every ring depth, number of episodes and
  resume point, hence for resumed sessions too. `ControlStream` is inductive
  together with `TypeOK`. `StatusFresh` is not: in the middle of a tick the
  status may be stale, and `StatusTracked` says that then `status_changed` is
  set or the lifecycle is recording. `PublishedOnce` rests on `ControlStream`
  (an event about to be published is not in `sent`) and on `ShutdownOnce`
  (nothing is published after Shutdown). `CountIsStored` uses the library's
  theorems on cardinality.
* **`ControllerProofs`**, its children (`Supervisor`): `SupervisorTyping`,
  `NoneIsLeft`, `OnlyOwnChildren`, for any number of children. `SupervisorInv`
  adds that in the killing loop all children before the current one are gone
  (`KilledSoFar`), that the child about to be signalled has not been reaped
  (`SignalTarget`), and that from the waiting phase on Shutdown was published
  (`ShutdownPublished`).
* **`ControllerProofs`**, its setup wizard (`SetupSession`, `SetupWizard`):
  `SessionStaysSound` (`SessionSound`), `PreviewStaysCurrent`
  (`PreviewIsCurrent`), `ModesStayAsChosen` (`ModesAsChosen`) and the action
  property `ValidProjectStays` (`ValidStays`), for any rows and any number of
  commands in any number of passes. One lemma per command shows what it does to
  the project: nothing, an edit that is marked in `config_changed`, or half of
  a pairing that did not validate (`EditKind`). The last is the reason why the
  preview can be current although an edit is unmarked: `HalfTakenBack` leaves
  the project invalid. `ProjectInv` needs the rows besides the project (each is
  a valid channel, since a failed command does not reach its row), or a
  reselected row would break a valid project. `Shown` says that an unmarked
  preview is of the project as it is, which makes a pass that leaves it running
  right; `StartedModes` and `DriverModes` that the mode of the project, of its
  row and of the driver differ only by a promotion to CommandFollowing.
  `prune_invalid_pairings` is a recursive function, and what it retains is
  proved along the pairings (`RetainExists`, `RetainTakes`).
* **`ServerProofs`**, the control server: `BridgeStaysSound` (`BridgeSound`),
  for any number of clients, states, events and commands, any channel capacity
  and ring depth, and either role. `FreshInv` follows the newest state from the
  ring through the loop into `latest_snapshot` and the channel: a client that
  is greeting (`GreetingFresh`) or serving (`ServingFresh`) shows it already or
  still has it in front of its cursor, or it was buried under backpressure
  events. `QueueInv` keeps the commands on their way numbered and in order
  (`InOrder`) and says that one of this role is somewhere on the way, taken or
  overwritten (`NoneLost`).
* **`ServerProofs`**, the preview: `SizesStaySound` (`SizesSound`) and
  `GateStaysDecodable` (`DecodableOrLost`), for any clients and requests, every
  ring depth and any number of groups. `SizeTypeOK` says that everything on its
  way is a size that was clamped from a request or is the default (`Asked`),
  which the encoder's validation accepts (`ClampValid`, by arithmetic, for every
  integer); `CountInv` that the counter is the number of tasks between their two
  accesses to it. `StreamInv` is about the packet ring: a packet in it is
  followed by one of its group, or by the end or the beginning of the next
  (`GroupsFollow`), its newest packet is of the group that is open
  (`NewestIsOpen`), and its oldest one is what the keyframe gate may be shown
  next (`GateFits`), unless its keyframe is in `keyLost` and its group in
  `unannounced`.
* **`TeleopProofs`**: `Typing`, `JointRampIsNear`, `PassThroughIsEarned`,
  `TargetIsContinuous`, `FirstCommandIsNear`, for all integer positions, axes,
  mappings and limits. The inductive invariant `RampInv` adds to the properties
  that the anchor is the last command while the cartesian ramp runs
  (`AnchorIsCommand`; without it the target could jump from a forgotten
  anchor), that nothing is set before the first command
  (`NothingBeforeCommand`), and that a closeness streak began after the gap was
  last too wide (`StreakAfterFar`; it turns a streak of length `Hold` into
  "no wide gap for `Hold`").
* **`PipelineProofs`**: `Typing`, `OneCustodian` (`CustodySound`),
  `DirectoriesAreSound`, `SlotsBoundWork` and the refinement
  `ImplementsPromise` (`EpisodesAsPromised`), for every ring depth, number of
  episodes, resume point, set of cameras, number of slots and backend. The
  episode's way is the sequence of eight places `Place`, from the RecordingStart
  that waits for the assembler to the output tree. `Custody` says that the
  places are disjoint, that no queue names an episode twice (`QueuedOnce`; else
  taking one message would leave the episode behind in the place it came from),
  and that everything in them was started. The first place is not part of
  `CustodySound` and is what makes it inductive: an episode enters the manager
  once because its start is published once (`Streamed`, the controller's side)
  and is not waiting any more when it is inside. `KeptOnly` adds that a keep
  request on record stands for a published EpisodeKeep, `Directories` that the
  worker's events already tell the truth before the loop turns them into
  notices. Refinement is by three lemmas: which steps move `Fate`, which move
  `output`, and that no other step moves either.
* **`RecordingProofs`**: `KeepsStreamPromise` (`StreamsAsPromised`), for every
  codec, ring depth, queue size, number of episodes and frames. `Chain` says
  that the starts under way, in the worker's queue and then in the ring, rise
  and are later than anything the worker has begun, so that the next stream is
  always of a later episode, however many starts were overwritten; `Aligned`
  that the session is where its stream is: its episode may be carried, its next
  number is the topic's, and it still owes the keyframe while that number is 0
  (a session may be open without a packet, when the frame that opened it was
  too old).
* **`IntakeProofs`**: `NeverFailsFalsely` (`NoFalseFailure`) and
  `CompleteHasNoGap` (`CompleteIsGapless`), for any number of episodes and
  packets and both formats. `Ordered` is what `StreamSpec` means for positions
  on the topic: packets of an episode stand together, numbered one by one.
  `UpToDate` says that the number a buffer expects is the one after the last
  packet it accepted, which no packet of the episode was read after; it turns
  "the next packet is the next number" into a fact about two neighbours.
* **`DatasetProofs`**: `DatasetStaysSound` (`DatasetSound`), `StoredStaysWhole`
  (`StoredIsWhole`) and the action property `NeverOverwritten`
  (`LeRobotNotOverwritten`), for any number of sessions, takes, episodes and
  configurations. `Progress` says, file by file, how far the store at work has
  come; `Untouched` that an index still to come has no file (a new session
  counts from behind every line and every parquet file, so a half-stored
  episode of a killed session is never met again), `Configured` that all there
  is comes from the last session's configuration, and `Accounted` that an
  episode is listed, counted and reported in this order, which brackets the
  count in `info.json` between reports and lines.
* **`DriversProofs`**: `Typing`, `DiscardedStaysDiscarded`
  (`CommandsDiscarded`), `HardwareFollows` (`DriverSound`) and the action
  property `NeverSnaps` (`NoSnap`), for every set of integer angles, every clamp
  and ramp duration and every lateness up to the settling time. For the AIRBOT,
  `MotorsFollow` and `FlagFollows` give the state asked of motors and LED at
  every place of a thread, and `GateSound` that a gate whose calls do not
  overlap remembers what the lamp shows. For the Nero, `HomingSound` says that
  the time left for homing covers the rest of the ramp, and `TrackingSound`
  that the last target in Disabled is a point of the ramp at most `MaxDelay`
  back; from it the distance to the next point follows by arithmetic on the
  ramp (`Desired`), which is stated as lemmas of its own.

Every proof of an invariant has the same form: the initial states satisfy the
inductive invariant, a lemma per action or group of actions shows that a step
keeps it, and the theorem combines them. What the models' operators do to
queues (append, take the head, overwrite the oldest) is proved once per module
as lemmas about the messages a queue holds.

Every safety invariant, every action property and both refinements that a run
checks are proved. Only model-checked are the liveness properties
(`KeptIsResolved`, `QuietShutdown`, `StopEndsOpenStream`, `ShutdownEndsEncoder`,
`TriggerEndsSession`, `NewestReachesClients`, `ResizeTakesEffect`,
`RestartsSettle`, `StopEndsDriver`, `GoalIsReached`):
liveness under fairness and `ENABLED` are out of the prover's reach. So is what
a recursive operator computes, and the library's induction theorems, which take
operators as parameters. The models therefore have no `RECURSIVE` operator, and
the one induction over data (`RetainExists`, `RetainTakes`) is taken from the well-foundedness
of the naturals (`AllNumbers`). The theorems are about the specifications
without fairness, so they hold of the fair ones too.

## Divergences

Where the code does something else than a document or comment says. The models
follow the code. The first three were established by TLC as counterexamples to
the quoted sentence, stated over these models; the others were met while
modelling.

* **A start can stay blocked.** Backpressure is drained before the notices of
  the same tick (`controller/src/collect.rs:189`). If a `BackpressureEvent`
  arrives after its drain and its `EpisodeDropped` before that one's, the flag
  is set one tick after the only notice that would have cleared it, and every
  later start is refused. `design/components.md:104` says the start is blocked
  "until the queue drains".
* **EndOfStream before the stop.** The encoder forwards RecordingStart at once
  and RecordingStop at the end of the iteration
  (`encoder/src/recording_runtime.rs:184`). If one drain reads the stop of an
  episode and the start of the next, the stop ends the new one; the module
  comment says EndOfStream is emitted on RecordingStop.
* **mcap datasets are overwritten.** `probe_resume` returns nothing for mcap
  (`controller/src/dataset_resume.rs:68`), so a second session starts at index
  0 and `storage/local` removes the directories of the first (a line on stderr
  says that mcap has no resume probe; no episode is refused or named). The
  module comment names avoiding "silent overwrites starting at 0" as its
  purpose.

In the episode pipeline:

* After the stale sweep an episode declared dropped can still be stored
  (`episode-lerobot/src/runtime.rs:568`); `rollio-types/src/messages.rs:948`
  says that no `EpisodeStored` will follow. For the same reason more than
  `staging_slots` directories can exist (`runtime.rs:196`,
  `rollio-types/src/config.rs:190`).
* Backpressure during a recording only blocks the next start
  (`controller/src/collect.rs:225`); `design/components.md:103` says the current
  episode is discarded immediately.
* A recording without a frame opens no session and gets no EndOfStream
  (`encoder/src/recording_runtime.rs:341`; its module comment says one is
  emitted on RecordingStop). The assembler times it out.
* A first packet that overtakes its RecordingStart is dropped
  (`episode-lerobot/src/runtime.rs:306`), although the comment below considers
  only late packets. The stream is joined at its next keyframe; `Intake` shows
  that this is safe.
* A leader that moves back near the follower while the ramp lags behind makes
  the target move by more than `SYNC_MAX_STEP_M` in one cycle
  (`teleop-router/src/lib.rs:416`, against the comment at 143).
  `TargetContinuous` states what does hold.
* A leader sample held for lack of follower feedback is consumed and not looked
  at again (`teleop-router/src/lib.rs:711`, against the comment at 730).
* When `probe_resume` refuses a dataset or the collect loop meets an IPC error,
  `run_with_config` returns without ending the children it spawned
  (`controller/src/collect.rs:108`, `118`); `design/sprint-2-plan.md:70` wants no
  orphaned children. `NoChildLeft` excepts these returns.

In the control server and the preview:

* "Lagging clients ... will always receive the latest" snapshot
  (`design/frontend-backend-interface.md:354`): not if as many backpressure
  events as the channel holds follow it (`control-server/src/ipc.rs:203`).
  `Buried` is that case.
* When the bus thread of the control server fails, the server goes on greeting
  clients with its last snapshot until it is signalled
  (`control-server/src/lib.rs:76`).
* The advertised size need not be the produced one
  (`design/websocket-protocol.md:226` says they match): the reset by the last
  client to leave changes the former and tells no encoder
  (`visualizer/src/websocket.rs:195`), and the visualizer starts from 320x240
  whatever the encoders are configured for (`visualizer/src/main.rs:94`).
* `rollio-types/src/messages.rs:580` says the visualizer publishes
  `RequestKeyframe` when a client connects, "so a freshly attached browser sees
  a decodable picture within one camera period"; nobody does. Nor does anything
  fill the "cached encoded configs" a new client is sent
  (`visualizer/src/websocket.rs:83`). A late client waits for the next group of
  pictures, which a camera that codes by itself may not begin at all; no
  property claims that it comes.
* A size that is taken back is lost when the encoder reads it together with the
  one before. Waiting sizes are compared with `current_dims`, and one that
  equals it is skipped without clearing `new_dims`
  (`encoder/src/preview_runtime.rs:158`): with D in effect and A, D waiting the
  encoder ends at A, while `active_preview_width` and `_height` say D. According
  to `rollio-types/src/messages.rs:577` a `SetSize` rebuilds the session "at the
  new dims". `takenBack` is this case; without it TLC finds `ResizeTakesEffect`
  violated.
* The keyframe gate is shut by EndOfStream only
  (`visualizer/src/main.rs:271`). When the packet ring overwrites the keyframe
  of a later group of a session, or an EndOfStream and the keyframe after it,
  the deltas that follow are sent without the picture they depend on;
  `design/encoder-au-framing-plan.md:112` gives the rule that is implemented and
  does not consider loss. `DecodableOrLost` names the case.

In the setup wizard:

* `setup_save` does not validate (`controller/src/setup/dispatch.rs:380`), while
  `controller/src/setup/runtime.rs:174` says that it does "so an invalid state
  can't be silently persisted". Cycling a robot's mode can make a project
  invalid.
* `cycle_robot_mode` overwrites the channel of the project with the row's copy
  (`controller/src/setup/devices.rs:176`): a state a pairing opted into is gone,
  a promoted follower is back in FreeDrive. The promotion itself never reaches
  the row's copy (`pairings.rs:534`). `ValidStays` and `ModesAsChosen` name the
  case.
* `setup_toggle_identify` is accepted outside Devices (`dispatch.rs:156`), and
  then the preview is stopped and started in every pass (`astray`).
* `create_pairing` takes back only the pairing when validation fails
  (`pairings.rs:365`).
* Edits in the 300 ms between saving and leaving are applied and lost
  (`state.rs:383`).

In the robot drivers (`device.rs` is the AIRBOT's, the Python files the Nero's):

* The two channel threads of the AIRBOT switch the LED by check and act without
  a lock (`device.rs:235`): if one begins to identify while the other ends, the
  LED can stay off, or on after both are gone; the comment at 198 says it stays
  on while either identifies. Without the exception `crossed`, TLC finds the
  interleaving.
* The Nero's arm polls commands only in CommandFollowing, and only up to the
  first kind that waits (`arm.py:516`). A command published before the stay, or
  behind one of a higher priority, is obeyed later, though the comment at 450
  wants no stale target on entering. The clamp still bounds the step.
* The Nero's gripper does not poll commands while it identifies
  (`gripper.py:179`); the comment at 208 gives draining as the way to keep old
  commands from piling up.
* The comment on the clamp (`arm.py:95`) bounds the distance between target and
  measured position; the code bounds the distance to the target sent before
  (`arm.py:511`), so a blocked arm can fall behind by any amount. `NoSnap` is
  stated over what the code bounds.
* Entering Disabled before the first feedback starts the ramp at zero
  (`arm.py:443`), and the first target sent may be far from the arm (`blind`).
* The signal handler announces homing "to all-zero positions"
  (`device.py:58`); `DISABLED_HOLD_Q` bends two joints, and the comment above it
  names only one of them (`arm.py:77`).
* The pseudo driver's comment promises a cleanup on signals
  (`robots/pseudo/src/bin/device.rs:389`); its loop has none.

## Not modelled

* Data conversion: LeRobot and MCAP file contents, FlatBuffers, Annex B, colour
  and depth conversion, message formatting. There is no state between calls.
  Nearly half of the repository's lines of Rust are four generated FlatBuffers
  files (`fbs_foxglove.rs` and `fbs_discover.rs`, each twice).
* Foreign interfaces: libav, NVIDIA, VAAPI and X5 backends, V4L2, RealSense,
  CAN, the dataloop upload library, iceoryx2 itself (a ring from how it is used).
* Configuration types and their defaults (validation of channels and pairings
  is in `SetupSession`); discovery and command-line planning, which run once
  before a session.
* In the wizard: free-text settings, camera profiles, adding a device by hand.
  They edit fields nothing else here depends on.
* Control laws, inverse kinematics and vendor protocols of the robot drivers,
  the simulated motion of the pseudo driver, capture loops of the cameras.
* User interfaces, the web gateway and test tools. The monitor is an empty
  `main`.

## Plan

The number of runs stays at a dozen: a new component adds one run, or a run
takes over a weaker one's question.

1. A checked mapping from `Dataset` to the two-step store of `Storage`, so that
   `PipelineProofs` and `DatasetProofs` are about one store.
2. Closing the loop between `TeleopRouter` and the drivers: a command of the
   router, the follower's clamp, and the position the router reads back.
3. The wizard's remaining commands (free-text settings, camera profiles, adding
   a device) once they touch fields another component reads.
