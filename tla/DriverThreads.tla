--------------------------- MODULE DriverThreads ---------------------------
(***************************************************************************)
(* What the robot drivers share: a process with one thread for the arm and *)
(* one for the end effector.  A thread's tick looks for the end, drains    *)
(* the mode topic, drains the command topics and acts.  A thread that      *)
(* fails sets the flag `stop` that both of them, and the signal handlers,  *)
(* share (robots/airbot_play_rust/src/bin/device.rs, robots/nero/src).     *)
(*                                                                         *)
(* A topic is drained to its newest sample, so a waiting mode request is   *)
(* that sample, and a command topic is empty or not.  For the properties   *)
(* a waiting command remembers the mode of the last tick that left it.     *)
(***************************************************************************)
EXTENDS Integers

CONSTANTS
  MaxRequests,   \* bound: mode requests
  MaxCommands    \* bound: commands

ASSUME CountAssumption == MaxRequests \in Nat /\ MaxCommands \in Nat

VARIABLES
  pc,            \* where each thread is
  stop,          \* set by signals and failing threads
  shutdown,      \* ControlEvent::Shutdown was published
  mode,          \* current_mode of each channel
  requested,     \* the mode request waiting for it
  queue,         \* the commands waiting for it
  outdated,      \* history: modes that commands applied in its last tick had waited in
  requests, commands,  \* counters for the bounds
  fed            \* channels somebody sends commands to (never changes)

threads == <<pc, stop, shutdown>>
traffic == <<requested, queue, requests, commands, fed>>
driverVars == <<threads, mode, traffic, outdated>>

Channel == {"arm", "eef"}
Mode == {"FreeDrive", "CommandFollowing", "Identifying", "Disabled"}
Topic(ch) ==
  IF ch = "arm" THEN {"end_pose", "joint_mit", "joint_position"}
                ELSE {"parallel_mit", "parallel_position"}

None == "none"
Label == Mode \cup {None, "fresh"}
Empty(ch) == [t \in Topic(ch) |-> None]
Waiting(ch) == {t \in Topic(ch) : queue[ch][t] # None}

Ended(ch) == pc[ch] \in {"absent", "done", "failed"}

(* The configuration gives a channel its mode; one without has no thread. *)
ThreadsInit(boot, start) ==
  /\ pc = [ch \in Channel |-> IF ch \in DOMAIN boot THEN start ELSE "absent"]
  /\ stop = FALSE /\ shutdown = FALSE
  /\ mode = [ch \in Channel |-> IF ch \in DOMAIN boot THEN boot[ch] ELSE "Disabled"]
  /\ requested = [ch \in Channel |-> None]
  /\ queue = [ch \in Channel |-> Empty(ch)]
  /\ outdated = [ch \in Channel |-> {}]
  /\ requests = 0 /\ commands = 0

-----------------------------------------------------------------------------
(* The rest of the system.  What is published for a thread that has ended *)
(* and a second reason to stop change nothing, and are left out.           *)

RequestMode(ch) ==
  /\ ~Ended(ch) /\ requests < MaxRequests
  /\ \E m \in Mode : requested' = [requested EXCEPT ![ch] = m]
  /\ requests' = requests + 1
  /\ UNCHANGED <<threads, mode, queue, commands, fed, outdated>>

PublishCommand(ch) ==
  /\ ~Ended(ch) /\ ch \in fed /\ commands < MaxCommands
  /\ \E t \in Topic(ch) : queue' = [queue EXCEPT ![ch][t] = "fresh"]
  /\ commands' = commands + 1
  /\ UNCHANGED <<threads, mode, requested, requests, fed, outdated>>

PublishShutdown ==
  /\ ~shutdown /\ ~stop /\ shutdown' = TRUE
  /\ UNCHANGED <<pc, stop, mode, traffic, outdated>>

Signal ==
  /\ ~stop /\ ~shutdown /\ stop' = TRUE
  /\ UNCHANGED <<pc, shutdown, mode, traffic, outdated>>

Outside ==
  \/ \E ch \in Channel : RequestMode(ch) \/ PublishCommand(ch)
  \/ PublishShutdown
  \/ Signal

-----------------------------------------------------------------------------
(* Steps of a thread. *)

Goto(ch, place) == pc' = [pc EXCEPT ![ch] = place]

(* The condition of the loop, looked at with the mode topic. *)
Loops(ch) == pc[ch] = "check" /\ ~stop /\ ~shutdown
Leaves(ch) == pc[ch] = "check" /\ (stop \/ shutdown)

(* The newest request, if there is one. *)
NextMode(ch) == IF requested[ch] = None THEN mode[ch] ELSE requested[ch]
TakeRequest(ch) == requested' = [requested EXCEPT ![ch] = None]

(* The tick drains the command topics except `left`, and applies `now`. *)
DrainCommands(ch, left, now) ==
  /\ queue' = [queue EXCEPT ![ch] =
       [t \in Topic(ch) |-> IF t \in left \cap Waiting(ch) THEN mode[ch] ELSE None]]
  /\ outdated' = [outdated EXCEPT ![ch] = {queue[ch][t] : t \in now} \ {"fresh"}]

(* Mutant: the flag is not set. *)
FailAlone(ch) ==
  /\ ~Ended(ch)
  /\ Goto(ch, "failed")
  /\ UNCHANGED <<stop, shutdown, mode, traffic, outdated>>

(* An error or exception leaves the thread and stops the other one. *)
Fail(ch) ==
  /\ ~Ended(ch)
  /\ Goto(ch, "failed")
  /\ stop' = TRUE
  /\ UNCHANGED <<shutdown, mode, traffic, outdated>>

DriverOK ==
  /\ stop \in BOOLEAN /\ shutdown \in BOOLEAN
  /\ mode \in [Channel -> Mode]
  /\ requested \in [Channel -> Mode \cup {None}]
  /\ \A ch \in Channel : queue[ch] \in [Topic(ch) -> Label]
  /\ outdated \in [Channel -> SUBSET Mode]
  /\ fed \subseteq Channel
  /\ requests \in 0 .. MaxRequests /\ commands \in 0 .. MaxCommands

=============================================================================
