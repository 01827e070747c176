---------------------------- MODULE Supervisor ----------------------------
(***************************************************************************)
(* The controller as the parent of the other processes: run_with_config    *)
(* and spawn_collect_children of controller/src/collect.rs, and            *)
(* controller/src/process.rs.  Children are started in order, watched      *)
(* while the collect loop runs, and brought to an end by the Shutdown      *)
(* event, then SIGTERM, then SIGKILL.                                      *)
(*                                                                         *)
(* A child that has exited stays a zombie, and keeps its process id, until *)
(* try_wait or wait reaps it; afterwards the id may belong to a process of *)
(* someone else.  Clocks are abstracted: a deadline may pass at any time.  *)
(***************************************************************************)
EXTENDS Naturals

CONSTANT N     \* number of child specs

ASSUME NAssumption == N \in Nat \ {0}

VARIABLES
  child,               \* the state of each child process
  shutdown_requested,  \* the flag SIGINT and SIGTERM set
  stage,               \* place in run_with_config
  next,                \* the spec or child the current for loop is at
  shutdown_sent,       \* history: ControlEvent::Shutdown was published
  early,               \* history: run_with_config returned through a `?`
  terminated           \* history: children that were sent SIGTERM

supervisorVars == <<child, shutdown_requested, stage, next, shutdown_sent, early, terminated>>
history == <<early, terminated>>

Child == 1 .. N
Alive == {c \in Child : child[c] = "running"}
Zombie == {c \in Child : child[c] = "zombie"}

SupervisorInit ==
  /\ child = [c \in Child |-> "unborn"]
  /\ shutdown_requested = FALSE
  /\ stage = "spawning" /\ next = 1
  /\ shutdown_sent = FALSE
  /\ early = FALSE /\ terminated = {}

-----------------------------------------------------------------------------
(* Starting the children. *)

SpawnChild ==
  /\ stage = "spawning" /\ next \in Child
  /\ child' = [child EXCEPT ![next] = "running"]
  /\ next' = next + 1
  /\ UNCHANGED <<shutdown_requested, stage, shutdown_sent, history>>

(* Mutant: the error is returned without cleaning up. *)
SpawnFailsAtOnce ==
  /\ stage = "spawning" /\ next \in Child
  /\ stage' = "returned"
  /\ UNCHANGED <<child, shutdown_requested, next, shutdown_sent, history>>

SpawnFails ==
  /\ stage = "spawning" /\ next \in Child
  /\ shutdown_sent' = TRUE
  /\ stage' = "waiting"
  /\ UNCHANGED <<child, shutdown_requested, next, history>>

AllSpawned ==
  /\ stage = "spawning" /\ next \notin Child
  /\ stage' = "probing"
  /\ UNCHANGED <<child, shutdown_requested, next, shutdown_sent, history>>

(* probe_resume accepts the dataset. *)
ProbeAccepts ==
  /\ stage = "probing"
  /\ stage' = "collecting"
  /\ UNCHANGED <<child, shutdown_requested, next, shutdown_sent, history>>

(* The `?` on probe_resume, on the status, and on the collect loop's IPC. *)
ReturnEarly ==
  /\ stage \in {"probing", "collecting"}
  /\ stage' = "returned" /\ early' = TRUE
  /\ UNCHANGED <<child, shutdown_requested, next, shutdown_sent, terminated>>

-----------------------------------------------------------------------------
(* The collect loop's first two checks, and send_shutdown behind it. *)

SignalSeen ==
  /\ stage = "collecting" /\ shutdown_requested
  /\ stage' = "waiting" /\ shutdown_sent' = TRUE
  /\ UNCHANGED <<child, shutdown_requested, next, history>>

(* Mutant: only the first child is polled. *)
PollsFirstChild ==
  /\ stage = "collecting"
  /\ child[1] = "zombie"
  /\ child' = [child EXCEPT ![1] = "reaped"]
  /\ stage' = "waiting" /\ shutdown_sent' = TRUE
  /\ UNCHANGED <<shutdown_requested, next, history>>

(* poll_children_once stops at the first child that has exited. *)
ExitSeen ==
  /\ stage = "collecting"
  /\ \E c \in Zombie :
       /\ \A d \in Zombie : c <= d
       /\ child' = [child EXCEPT ![c] = "reaped"]
  /\ stage' = "waiting" /\ shutdown_sent' = TRUE
  /\ UNCHANGED <<shutdown_requested, next, history>>

-----------------------------------------------------------------------------
(* terminate_children *)

Reaped == [c \in Child |-> IF child[c] = "zombie" THEN "reaped" ELSE child[c]]

(* One pass of a waiting loop, in the stage `wait`: every child is polled;   *)
(* the loop ends with the last child or, past the deadline, goes on to `to`. *)
WaitPass(wait, to) ==
  /\ stage = wait
  /\ child' = Reaped
  /\ stage' \in IF Alive = {} THEN {"returned"} ELSE {wait, to}
  /\ next' = 1
  /\ UNCHANGED <<shutdown_requested, shutdown_sent, history>>

WaitForExit == WaitPass("waiting", "requesting")
WaitForGrace == WaitPass("grace", "killing")

(* Mutant: every child is signalled, whether it has been reaped or not. *)
CheckNothing ==
  /\ stage = "requesting" /\ next \in Child
  /\ stage' = "signalling"
  /\ UNCHANGED <<child, next, shutdown_requested, shutdown_sent, history>>

(* request_terminate polls a child and, some time later, signals it. *)
CheckBeforeTerminate ==
  /\ stage = "requesting" /\ next \in Child
  /\ IF next \in Alive
     THEN stage' = "signalling" /\ UNCHANGED <<child, next>>
     ELSE child' = [child EXCEPT ![next] = Reaped[next]] /\ next' = next + 1 /\ UNCHANGED stage
  /\ UNCHANGED <<shutdown_requested, shutdown_sent, history>>

SendTerminate ==
  /\ stage = "signalling"
  /\ terminated' = terminated \cup {next}
  /\ stage' = "requesting" /\ next' = next + 1
  /\ UNCHANGED <<child, shutdown_requested, shutdown_sent, early>>

AllRequested ==
  /\ stage = "requesting" /\ next \notin Child
  /\ stage' = "grace"
  /\ UNCHANGED <<child, shutdown_requested, next, shutdown_sent, history>>

(* The last loop: a child still there is killed and waited for. *)
KillChild ==
  /\ stage = "killing" /\ next \in Child
  /\ child' = [child EXCEPT ![next] = IF @ \in {"running", "zombie"} THEN "reaped" ELSE @]
  /\ next' = next + 1
  /\ UNCHANGED <<shutdown_requested, stage, shutdown_sent, history>>

AllKilled ==
  /\ stage = "killing" /\ next \notin Child
  /\ stage' = "returned"
  /\ UNCHANGED <<child, shutdown_requested, next, shutdown_sent, history>>

-----------------------------------------------------------------------------
(* A child exits: told to, signalled, or of its own accord. *)
ChildExits(c) ==
  /\ c \in Alive
  /\ child' = [child EXCEPT ![c] = "zombie"]
  /\ UNCHANGED <<shutdown_requested, stage, next, shutdown_sent, history>>

(* SIGINT or SIGTERM reaches the controller. *)
SignalArrives ==
  /\ ~shutdown_requested
  /\ stage # "returned"
  /\ shutdown_requested' = TRUE
  /\ UNCHANGED <<child, stage, next, shutdown_sent, history>>

Returned == stage = "returned" /\ UNCHANGED supervisorVars

Supervise ==
  \/ SpawnChild \/ SpawnFails \/ AllSpawned \/ ProbeAccepts
  \/ SignalSeen \/ ExitSeen
  \/ WaitForExit \/ CheckBeforeTerminate \/ SendTerminate \/ AllRequested
  \/ WaitForGrace \/ KillChild \/ AllKilled

SupervisorNext ==
  \/ Supervise \/ ReturnEarly
  \/ (\E c \in Child : ChildExits(c)) \/ SignalArrives \/ Returned

SupervisorSpec == SupervisorInit /\ [][SupervisorNext]_supervisorVars

(* Fairness: the controller keeps running, and its two deadlines lie at      *)
(* fixed times, so a waiting loop is left.  Nothing is assumed of children,  *)
(* signals and errors.                                                       *)
Fairness ==
  /\ WF_supervisorVars(Supervise)
  /\ WF_supervisorVars(WaitForExit /\ stage' # "waiting")
  /\ WF_supervisorVars(WaitForGrace /\ stage' # "grace")

FairSpec == SupervisorSpec /\ Fairness

-----------------------------------------------------------------------------
ValuesOK ==
  /\ child \in [Child -> {"unborn", "running", "zombie", "reaped"}]
  /\ stage \in {"spawning", "probing", "collecting", "waiting", "requesting", "signalling",
                "grace", "killing", "returned"}
  /\ next \in 1 .. N + 1
  /\ terminated \subseteq Child
  /\ stage = "signalling" => next \in Child

FlagsOK == shutdown_requested \in BOOLEAN /\ shutdown_sent \in BOOLEAN /\ early \in BOOLEAN

(* Every variable has its type, and a signal has a child to go to. *)
SupervisorTypeOK == ValuesOK /\ FlagsOK

(* When a session or a failed start returns in the regular way, every child  *)
(* that was spawned is gone and reaped, however it behaved: wherever         *)
(* spawning stopped, and whether or not it obeys events and signals.         *)
NoChildLeft ==
  stage = "returned" /\ ~early => \A c \in Child : child[c] \in {"unborn", "reaped"}

(* SIGTERM goes to process ids the controller still owns, never to a child   *)
(* that was reaped and whose id may be someone else's by now, and only after *)
(* the Shutdown event was published.                                         *)
SignalsOwnChild ==
  [][\A c \in terminated' \ terminated :
       shutdown_sent /\ child[c] \in {"running", "zombie"}]_supervisorVars

(* A signal, or the exit of any child while episodes are collected, ends the *)
(* session, even if the other children never react.                          *)
TriggerEndsSession ==
  (stage = "collecting" /\ (shutdown_requested \/ Zombie # {})) ~> stage = "returned"
============================================================================
