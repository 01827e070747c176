--------------------------- MODULE ControlServer ---------------------------
(***************************************************************************)
(* The control server (control-server/src): the process between the user   *)
(* interfaces and the bus.  One thread, run_poll_loop, republishes the     *)
(* interfaces' commands and takes the controller's state messages; one     *)
(* task per WebSocket client, handle_client, sends what the thread         *)
(* broadcasts.  They share the mutex latest_snapshot, an unbounded command *)
(* channel and a broadcast channel that keeps the last Capacity messages:  *)
(* a client that falls further behind skips to the oldest one kept.        *)
(*                                                                         *)
(* In role "Setup" the state is the wizard's SetupStateMessage, in role    *)
(* "Collect" the EpisodeStatus, beside which backpressure events are       *)
(* broadcast that the snapshot does not keep.  A state is represented by   *)
(* its number in the order of publication, a command likewise.             *)
(***************************************************************************)
EXTENDS Ring, FiniteSets, Functions

CONSTANTS
  UiClient,
  Capacity,       \* of the broadcast channel (64)
  RingDepth,      \* of a subscriber's ring (iceoryx2 default: 2)
  MaxStates,      \* bound: states the controller publishes
  MaxPressure,    \* bound: backpressure events
  MaxCommands     \* bound: commands the clients send

ASSUME ControlServerAssumption ==
  /\ Capacity \in Nat \ {0} /\ RingDepth \in Nat \ {0}
  /\ MaxStates \in Nat /\ MaxPressure \in Nat /\ MaxCommands \in Nat

VARIABLES
  role,
  published,                         \* the number of states published
  pressed,                           \* the number of backpressure events published
  stateRing, pressureRing,           \* the server's rings
  commandRing,                       \* the controller's ring of commands
  command_rx,                        \* the channel of UiCommands
  pc,                                \* place in run_poll_loop
  latest,                            \* poll_once's local, 0 for None
  latest_snapshot,
  outbound,                          \* everything ever broadcast, oldest first
  shutdown,
  task,                              \* place of each client's task
  cursor,                            \* how many broadcasts its receiver has passed
  initial,                           \* its initial_snapshot
  shown,                             \* the state it was sent last, 0 for none
  issued, taken, overwritten         \* history: commands sent, received, lost in the ring

environment == <<role, published, pressed>>
bus == <<stateRing, pressureRing, commandRing>>
loop == <<pc, latest, latest_snapshot, outbound>>
tasks == <<task, cursor, initial, shown>>
history == <<issued, taken, overwritten>>
serverVars == <<environment, bus, command_rx, loop, shutdown, tasks, history>>

Pressure == 0              \* a backpressure event in the broadcast: no state

(* The role a command is meant for: UiCommand::Setup or UiCommand::Episode. *)
Role == {"Setup", "Collect"}
Command == [number : 1 .. MaxCommands, kind : Role]

Place == {"commands", "receive", "snapshot", "broadcast", "pressure", "ended",
          "exited"}
Alive == pc \notin {"ended", "exited"}

ServerInit ==
  /\ role \in Role
  /\ published = 0 /\ pressed = 0
  /\ stateRing = <<>> /\ pressureRing = <<>> /\ commandRing = <<>>
  /\ command_rx = <<>>
  /\ pc = "commands" /\ latest = 0 /\ latest_snapshot = 0 /\ outbound = <<>>
  /\ shutdown = FALSE
  /\ task = [c \in UiClient |-> "away"]
  /\ cursor = [c \in UiClient |-> 0]
  /\ initial = [c \in UiClient |-> 0]
  /\ shown = [c \in UiClient |-> 0]
  /\ issued = <<>> /\ taken = <<>> /\ overwritten = {}

-----------------------------------------------------------------------------
(* The other end of the bus. *)

PublishState ==
  /\ published < MaxStates
  /\ published' = published + 1
  /\ stateRing' = RingSend(stateRing, published + 1, RingDepth)
  /\ UNCHANGED <<role, pressed, pressureRing, commandRing, command_rx, loop, shutdown, tasks,
                 history>>

PublishPressure ==
  /\ role = "Collect"
  /\ pressed < MaxPressure
  /\ pressed' = pressed + 1
  /\ pressureRing' = RingSend(pressureRing, Pressure, RingDepth)
  /\ UNCHANGED <<role, published, stateRing, commandRing, command_rx, loop, shutdown, tasks,
                 history>>

TakeCommand ==
  /\ commandRing # <<>>
  /\ taken' = Append(taken, Head(commandRing))
  /\ commandRing' = Tail(commandRing)
  /\ UNCHANGED <<environment, stateRing, pressureRing, command_rx, loop, shutdown, tasks,
                 issued, overwritten>>

SignalArrives ==
  /\ ~shutdown
  /\ shutdown' = TRUE
  /\ UNCHANGED <<environment, bus, command_rx, loop, tasks, history>>

-----------------------------------------------------------------------------
(* run_poll_loop: commands out, states in, backpressure in. *)

(* Mutant: of the commands that wait only the last is published, as with states. *)
RepublishLast ==
  /\ pc = "commands" /\ command_rx # <<>>
  /\ LET c == command_rx[Len(command_rx)]
     IN  commandRing' = IF c.kind = role THEN RingSend(commandRing, c, RingDepth) ELSE commandRing
  /\ command_rx' = <<>>
  /\ UNCHANGED <<environment, stateRing, pressureRing, loop, shutdown, tasks, history>>

(* publish_command: a command of the other role is dropped. *)
Republish ==
  /\ pc = "commands" /\ command_rx # <<>>
  /\ LET c == Head(command_rx)
     IN  IF c.kind = role
         THEN /\ commandRing' = RingSend(commandRing, c, RingDepth)
              /\ overwritten' = IF Len(commandRing) < RingDepth THEN overwritten
                                ELSE overwritten \cup {Head(commandRing)}
         ELSE UNCHANGED <<commandRing, overwritten>>
  /\ command_rx' = Tail(command_rx)
  /\ UNCHANGED <<environment, stateRing, pressureRing, loop, shutdown, tasks, issued, taken>>

CommandsDone ==
  /\ pc = "commands" /\ command_rx = <<>>
  /\ pc' = "receive"
  /\ UNCHANGED <<environment, bus, command_rx, latest, latest_snapshot, outbound, shutdown,
                 tasks, history>>

(* Only the newest of the states that wait is kept. *)
ReceiveState ==
  /\ pc = "receive" /\ stateRing # <<>>
  /\ latest' = Head(stateRing)
  /\ stateRing' = Tail(stateRing)
  /\ UNCHANGED <<environment, pressureRing, commandRing, command_rx, pc, latest_snapshot,
                 outbound, shutdown, tasks, history>>

StatesDone ==
  /\ pc = "receive" /\ stateRing = <<>>
  /\ pc' = IF latest = 0 THEN "pressure" ELSE "snapshot"
  /\ UNCHANGED <<environment, bus, command_rx, latest, latest_snapshot, outbound, shutdown,
                 tasks, history>>

(* Mutant: the state is kept for new clients only. *)
KeepSnapshotOnly ==
  /\ pc = "snapshot"
  /\ latest_snapshot' = latest
  /\ latest' = 0
  /\ pc' = "pressure"
  /\ UNCHANGED <<environment, bus, command_rx, outbound, shutdown, tasks, history>>

KeepSnapshot ==
  /\ pc = "snapshot"
  /\ latest_snapshot' = latest
  /\ pc' = "broadcast"
  /\ UNCHANGED <<environment, bus, command_rx, latest, outbound, shutdown, tasks, history>>

BroadcastState ==
  /\ pc = "broadcast"
  /\ outbound' = Append(outbound, latest)
  /\ latest' = 0                                  \* the end of its scope
  /\ pc' = "pressure"
  /\ UNCHANGED <<environment, bus, command_rx, latest_snapshot, shutdown, tasks, history>>

BroadcastPressure ==
  /\ pc = "pressure" /\ pressureRing # <<>>
  /\ outbound' = Append(outbound, Head(pressureRing))
  /\ pressureRing' = Tail(pressureRing)
  /\ UNCHANGED <<environment, stateRing, commandRing, command_rx, pc, latest, latest_snapshot,
                 shutdown, tasks, history>>

(* The wait at the end of a pass, and the loop's condition: an ended loop    *)
(* drops its end of the command channel.                                     *)
PassDone ==
  /\ pc = "pressure" /\ pressureRing = <<>>
  /\ pc' = IF shutdown THEN "ended" ELSE "commands"
  /\ command_rx' = IF shutdown THEN <<>> ELSE command_rx
  /\ UNCHANGED <<environment, bus, latest, latest_snapshot, outbound, shutdown, tasks, history>>

(* Any send or receive of the loop may return an error, which `?` passes on: *)
(* the thread ends and drops its end of the command channel; the process     *)
(* and its clients stay.                                                     *)
LoopFails ==
  /\ pc \in {"commands", "receive", "pressure"}
  /\ pc' = "ended"
  /\ command_rx' = <<>> /\ latest' = 0
  /\ UNCHANGED <<environment, bus, latest_snapshot, outbound, shutdown, tasks, history>>

(* run joins the thread after the signal and returns; the clients' tasks end *)
(* with the runtime.                                                         *)
ProcessExits ==
  /\ pc = "ended" /\ shutdown
  /\ pc' = "exited"
  /\ task' = [c \in UiClient |-> "away"]
  /\ UNCHANGED <<environment, bus, command_rx, latest, latest_snapshot, outbound, shutdown,
                 cursor, initial, shown, history>>

LoopStep ==
  \/ Republish \/ CommandsDone \/ ReceiveState \/ StatesDone
  \/ KeepSnapshot \/ BroadcastState \/ BroadcastPressure \/ PassDone \/ ProcessExits

-----------------------------------------------------------------------------
(* handle_client, one task per connection. *)

others == <<environment, bus, loop, shutdown, taken, overwritten>>

(* run_server subscribes the client before its task runs. *)
Accept(c) ==
  /\ task[c] = "away" /\ pc # "exited"
  /\ task' = [task EXCEPT ![c] = "handshake"]
  /\ cursor' = [cursor EXCEPT ![c] = Len(outbound)]
  /\ UNCHANGED <<others, command_rx, issued, initial, shown>>

(* accept_async succeeded: the snapshot is read under its mutex. *)
ReadSnapshot(c) ==
  /\ task[c] = "handshake"
  /\ task' = [task EXCEPT ![c] = "greeting"]
  /\ initial' = [initial EXCEPT ![c] = latest_snapshot]
  /\ UNCHANGED <<others, command_rx, issued, cursor, shown>>

(* Mutant: the client subscribes only now that it has its snapshot. *)
GreetThenSubscribe(c) ==
  /\ task[c] = "greeting"
  /\ task' = [task EXCEPT ![c] = "serving"]
  /\ shown' = [shown EXCEPT ![c] = initial[c]]
  /\ cursor' = [cursor EXCEPT ![c] = Len(outbound)]
  /\ UNCHANGED <<others, command_rx, issued, initial>>

Greet(c) ==
  /\ task[c] = "greeting"
  /\ task' = [task EXCEPT ![c] = "serving"]
  /\ shown' = [shown EXCEPT ![c] = initial[c]]
  /\ UNCHANGED <<others, command_rx, issued, cursor, initial>>

Lagged(c) == Len(outbound) - cursor[c] > Capacity

(* Mutant: as many messages are skipped as were ever sent. *)
LagSkipsAll(c) ==
  /\ task[c] = "serving" /\ Lagged(c)
  /\ cursor' = [cursor EXCEPT ![c] = @ + Len(outbound)]
  /\ UNCHANGED <<others, command_rx, issued, task, initial, shown>>

(* RecvError::Lagged: the receiver goes on at the oldest message kept. *)
Lag(c) ==
  /\ task[c] = "serving" /\ Lagged(c)
  /\ cursor' = [cursor EXCEPT ![c] = Len(outbound) - Capacity]
  /\ UNCHANGED <<others, command_rx, issued, task, initial, shown>>

Deliver(c) ==
  /\ task[c] = "serving" /\ cursor[c] < Len(outbound) /\ ~Lagged(c)
  /\ LET m == outbound[cursor[c] + 1]
     IN  shown' = [shown EXCEPT ![c] = IF m = Pressure THEN @ ELSE m]
  /\ cursor' = [cursor EXCEPT ![c] = @ + 1]
  /\ UNCHANGED <<others, command_rx, issued, task, initial>>

(* A supported command goes to the loop; an unsupported one changes nothing. *)
SendCommand(c) ==
  /\ task[c] = "serving" /\ Alive
  /\ Len(issued) < MaxCommands
  /\ \E k \in Role :
       LET cmd == [number |-> Len(issued) + 1, kind |-> k]
       IN  /\ command_rx' = Append(command_rx, cmd)
           /\ issued' = Append(issued, cmd)
  /\ UNCHANGED <<others, tasks>>

(* The connection ends: a failed handshake or write, the client's close, or  *)
(* a command that the ended loop can no longer take.                         *)
Disconnect(c) ==
  /\ task[c] # "away"
  /\ task' = [task EXCEPT ![c] = "away"]
  /\ cursor' = [cursor EXCEPT ![c] = 0]
  /\ initial' = [initial EXCEPT ![c] = 0]
  /\ shown' = [shown EXCEPT ![c] = 0]
  /\ UNCHANGED <<others, command_rx, issued>>

Serve(c) == ReadSnapshot(c) \/ Greet(c) \/ Lag(c) \/ Deliver(c)

ServerNext ==
  \/ PublishState \/ PublishPressure \/ TakeCommand \/ SignalArrives
  \/ LoopStep \/ LoopFails
  \/ \E c \in UiClient : Accept(c) \/ Serve(c) \/ SendCommand(c) \/ Disconnect(c)

ServerSpec == ServerInit /\ [][ServerNext]_serverVars

(* The thread runs and a client's socket takes what is written to it; the    *)
(* clients, the controller and the signal are free.                          *)
FairServerSpec ==
  /\ ServerSpec
  /\ WF_serverVars(LoopStep) /\ \A c \in UiClient : WF_serverVars(Serve(c))

-----------------------------------------------------------------------------
ServerTypeOK ==
  /\ role \in Role /\ published \in 0 .. MaxStates /\ pressed \in 0 .. MaxPressure
  /\ stateRing \in Seq(1 .. published) /\ Len(stateRing) <= RingDepth
  /\ pressureRing \in Seq({Pressure}) /\ Len(pressureRing) <= RingDepth
  /\ commandRing \in Seq(Command) /\ Len(commandRing) <= RingDepth
  /\ command_rx \in Seq(Command)
  /\ pc \in Place /\ latest \in 0 .. published /\ latest_snapshot \in 0 .. published
  /\ outbound \in Seq(0 .. published)
  /\ shutdown \in BOOLEAN
  /\ task \in [UiClient -> {"away", "handshake", "greeting", "serving"}]
  /\ cursor \in [UiClient -> Nat] /\ \A c \in UiClient : cursor[c] <= Len(outbound)
  /\ initial \in [UiClient -> 0 .. published] /\ shown \in [UiClient -> 0 .. published]

(* The newest state has been pushed out of the channel by Capacity           *)
(* backpressure events.                                                      *)
Buried ==
  /\ Len(outbound) >= Capacity
  /\ \A i \in Len(outbound) - Capacity + 1 .. Len(outbound) : outbound[i] = Pressure

(* "Lagging clients may skip intermediate state snapshots but will always    *)
(* receive the latest": a client that has read all it was sent shows the     *)
(* newest state the controller published, whatever the order in which it     *)
(* subscribed, read latest_snapshot and lagged.  The exception is a burst of *)
(* backpressure events as long as the channel, which no snapshot follows.    *)
ShowsNewest ==
  \A c \in UiClient :
    /\ task[c] = "serving" /\ cursor[c] = Len(outbound)
    /\ stateRing = <<>> /\ pc \in {"commands", "pressure"}
    => shown[c] = published \/ Buried

(* Commands reach the controller in the order the interfaces sent them, none *)
(* twice, and of those of its role none is lost but those overwritten in the *)
(* controller's ring.                                                        *)
CommandsAccounted ==
  Alive =>
    LET flow == taken \o commandRing \o command_rx
    IN  /\ \A i, j \in DOMAIN flow : i < j => flow[i].number < flow[j].number
        /\ {m \in Range(issued) : m.kind = role} =
             Range(taken) \cup Range(commandRing)
               \cup {m \in Range(command_rx) : m.kind = role} \cup overwritten

(* The bridge is sound in both directions: states out, commands in, and a    *)
(* receiver never ahead of the channel.                                      *)
BridgeSound == ServerTypeOK /\ ShowsNewest /\ CommandsAccounted

(* A client that stays comes to show the newest state, however far it lags   *)
(* and whenever it connected (the controller publishes finitely often here). *)
NewestReachesClients ==
  \A c \in UiClient :
    task[c] = "serving"
    ~> shown[c] = published \/ task[c] # "serving" \/ ~Alive \/ shutdown \/ Buried

============================================================================
