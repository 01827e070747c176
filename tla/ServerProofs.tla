---------------------------- MODULE ServerProofs ----------------------------
(***************************************************************************)
(* Theorems about the two servers the browsers and terminals connect to.   *)
(*                                                                         *)
(* The control server, for any number of clients, states, events and       *)
(* commands and every capacity of its channel and its rings: a client that *)
(* has read everything shows the newest state, and no command is lost,     *)
(* repeated or overtaken but those its ring overwrites.                    *)
(*                                                                         *)
(* The visualizer and the preview encoders behind it, for any number of    *)
(* browsers, any requests, cameras and rings: every size on the way is     *)
(* valid, and nothing undecodable passes the keyframe gate.                *)
(***************************************************************************)
EXTENDS ControlServer, Preview, FiniteSetTheorems, SequenceTheorems, TLAPS

-----------------------------------------------------------------------------
(* Rings and sequences *)

(* A publication keeps a ring a sequence within its depth, with the sample   *)
(* last and otherwise only samples it held before.                           *)
LEMMA RingSendType ==
  ASSUME NEW S, NEW q \in Seq(S), NEW m \in S, NEW d \in Nat \ {0}, Len(q) <= d
  PROVE  /\ RingSend(q, m, d) \in Seq(S)
         /\ Len(RingSend(q, m, d)) \in 1 .. d
         /\ RingSend(q, m, d)[Len(RingSend(q, m, d))] = m
<1>1. CASE Len(q) < d
  BY <1>1 DEF RingSend
<1>2. CASE ~(Len(q) < d)
  <2>1. q # <<>> /\ Tail(q) \in Seq(S) /\ Len(Tail(q)) = Len(q) - 1
    BY <1>2
  <2>2. RingSend(q, m, d) = Append(Tail(q), m)
    BY <1>2 DEF RingSend
  <2> QED
    BY <1>2, <2>1, <2>2
<1> QED
  BY <1>1, <1>2

-----------------------------------------------------------------------------
(* The control server's types *)

(* The variables of the bus and the poll loop. *)
LoopTypeOK ==
  /\ role \in Role /\ published \in 0 .. MaxStates /\ pressed \in 0 .. MaxPressure
  /\ stateRing \in Seq(1 .. published) /\ Len(stateRing) <= RingDepth
  /\ pressureRing \in Seq({Pressure}) /\ Len(pressureRing) <= RingDepth
  /\ pc \in Place /\ latest \in 0 .. published /\ latest_snapshot \in 0 .. published
  /\ outbound \in Seq(0 .. published)
  /\ shutdown \in BOOLEAN

CommandTypeOK ==
  /\ commandRing \in Seq(Command) /\ Len(commandRing) <= RingDepth
  /\ command_rx \in Seq(Command)

TaskTypeOK ==
  /\ task \in [UiClient -> {"away", "handshake", "greeting", "serving"}]
  /\ cursor \in [UiClient -> Nat] /\ \A c \in UiClient : cursor[c] <= Len(outbound)
  /\ initial \in [UiClient -> 0 .. published] /\ shown \in [UiClient -> 0 .. published]

HistoryTypeOK ==
  /\ issued \in Seq(Command) /\ taken \in Seq(Command) /\ overwritten \subseteq Command

(* Types of the loop when a state is published. *)
LEMMA PublishStateTypes ==
  LoopTypeOK /\ TaskTypeOK /\ PublishState => LoopTypeOK' /\ TaskTypeOK'
<1> SUFFICES ASSUME LoopTypeOK, TaskTypeOK, PublishState PROVE LoopTypeOK' /\ TaskTypeOK'
  OBVIOUS
<1> USE ControlServerAssumption
<1>1. published' = published + 1 /\ published' \in 0 .. MaxStates /\ published \in Nat
  BY DEF PublishState, LoopTypeOK
<1>2. 1 .. published \subseteq 1 .. published' /\ 0 .. published \subseteq 0 .. published'
  BY <1>1
<1>3. /\ stateRing \in Seq(1 .. published') /\ published' \in 1 .. published'
      /\ Len(stateRing) <= RingDepth /\ RingDepth \in Nat \ {0}
      /\ stateRing' = RingSend(stateRing, published', RingDepth)
  BY <1>1, <1>2 DEF LoopTypeOK, PublishState
<1>4. stateRing' \in Seq(1 .. published') /\ Len(stateRing') \in 1 .. RingDepth
  BY <1>3, RingSendType
<1>5. outbound' = outbound /\ outbound \in Seq(0 .. published')
  BY <1>2 DEF PublishState, LoopTypeOK, loop
<1>6. LoopTypeOK'
  BY <1>1, <1>2, <1>4, <1>5 DEF LoopTypeOK, PublishState, loop
<1>7. TaskTypeOK'
  BY <1>2, <1>5 DEF TaskTypeOK, PublishState, tasks
<1> QED
  BY <1>6, <1>7

(* Types of the loop and of the bus it reads, in every other step. *)
LEMMA LoopTypes ==
  LoopTypeOK /\ [ServerNext]_serverVars /\ ~PublishState => LoopTypeOK' /\ published' = published
<1> SUFFICES ASSUME LoopTypeOK, [ServerNext]_serverVars, ~PublishState
             PROVE  LoopTypeOK' /\ published' = published
  OBVIOUS
<1> USE ControlServerAssumption DEF LoopTypeOK
<1>1. CASE PublishPressure
  <2>1. pressureRing' \in Seq({Pressure}) /\ Len(pressureRing') \in 1 .. RingDepth
    BY <1>1, RingSendType DEF PublishPressure
  <2> QED
    BY <1>1, <2>1 DEF PublishPressure, loop
<1>2. CASE ReceiveState
  <2>1. Head(stateRing) \in 1 .. published /\ Tail(stateRing) \in Seq(1 .. published)
        /\ Len(Tail(stateRing)) <= RingDepth
    BY <1>2 DEF ReceiveState
  <2> QED
    BY <1>2, <2>1 DEF ReceiveState, environment
<1>3. CASE BroadcastPressure
  <2>1. /\ Head(pressureRing) \in 0 .. published /\ Tail(pressureRing) \in Seq({Pressure})
        /\ Len(Tail(pressureRing)) <= RingDepth
    BY <1>3 DEF BroadcastPressure, Pressure
  <2> QED
    BY <1>3, <2>1 DEF BroadcastPressure, environment
<1>4. CASE CommandsDone \/ StatesDone \/ KeepSnapshot \/ PassDone
  BY <1>4 DEF CommandsDone, StatesDone, KeepSnapshot, PassDone, environment, bus, Place
<1>9. CASE LoopFails \/ ProcessExits
  BY <1>9 DEF LoopFails, ProcessExits, environment, bus, Place
<1>10. CASE BroadcastState
  <2>1. outbound' \in Seq(0 .. published) /\ 0 \in 0 .. published
    BY <1>10 DEF BroadcastState
  <2> QED
    BY <1>10, <2>1 DEF BroadcastState, environment, bus, Place
<1>5. CASE SignalArrives
  BY <1>5 DEF SignalArrives, environment, bus, loop
<1>6. CASE TakeCommand \/ Republish
  BY <1>6 DEF TakeCommand, Republish, environment, loop
<1>7. ASSUME NEW c \in UiClient, Accept(c) \/ Serve(c) \/ SendCommand(c) \/ Disconnect(c)
      PROVE  LoopTypeOK' /\ published' = published
  BY <1>7 DEF Accept, Serve, ReadSnapshot, Greet, Lag, Deliver, SendCommand, Disconnect, others,
     environment, bus, loop
<1>8. CASE UNCHANGED serverVars
  BY <1>8 DEF serverVars, environment, bus, loop
<1> QED
  BY <1>1, <1>2, <1>3, <1>4, <1>5, <1>6, <1>7, <1>8, <1>9, <1>10 DEF ServerNext, LoopStep

(* The broadcasts only grow, and no step takes one back. *)
LEMMA OutboundGrows ==
  LoopTypeOK /\ [ServerNext]_serverVars =>
    /\ Len(outbound') >= Len(outbound)
    /\ \A i \in 1 .. Len(outbound) : outbound'[i] = outbound[i]
<1> SUFFICES ASSUME LoopTypeOK, [ServerNext]_serverVars
             PROVE  /\ Len(outbound') >= Len(outbound)
                    /\ \A i \in 1 .. Len(outbound) : outbound'[i] = outbound[i]
  OBVIOUS
<1>1. outbound \in Seq(0 .. published)
  BY DEF LoopTypeOK
<1>2. outbound' = outbound \/ \E x : outbound' = Append(outbound, x)
  <2>1. CASE BroadcastState \/ BroadcastPressure
    BY <2>1 DEF BroadcastState, BroadcastPressure
  <2>2. ASSUME NEW c \in UiClient, Accept(c) \/ Serve(c) \/ SendCommand(c) \/ Disconnect(c)
        PROVE  outbound' = outbound
    BY <2>2 DEF Accept, Serve, ReadSnapshot, Greet, Lag, Deliver, SendCommand, Disconnect,
       others, loop
  <2> QED
    BY <2>1, <2>2 DEF ServerNext, LoopStep, PublishState, PublishPressure, TakeCommand,
       SignalArrives, Republish, CommandsDone, ReceiveState, StatesDone, KeepSnapshot, PassDone,
       ProcessExits, LoopFails, loop, serverVars
<1> QED
  BY <1>1, <1>2

(* The clients' tasks stay within their types, their receivers within the    *)
(* channel.                                                                  *)
LEMMA TaskTypes ==
  /\ LoopTypeOK /\ LoopTypeOK' /\ TaskTypeOK /\ [ServerNext]_serverVars /\ ~PublishState
  /\ published' = published
  => TaskTypeOK'
<1> SUFFICES ASSUME LoopTypeOK, LoopTypeOK', TaskTypeOK, [ServerNext]_serverVars, ~PublishState,
                    published' = published
             PROVE  TaskTypeOK'
  OBVIOUS
<1>0. /\ Len(outbound) \in Nat /\ Len(outbound') \in Nat /\ Len(outbound') >= Len(outbound)
      /\ outbound \in Seq(0 .. published)
  BY OutboundGrows DEF LoopTypeOK
<1>1. CASE UNCHANGED tasks
  BY <1>0, <1>1 DEF TaskTypeOK, tasks
<1>2. CASE ProcessExits
  BY <1>0, <1>2 DEF ProcessExits, TaskTypeOK
<1>3. ASSUME NEW c \in UiClient, Accept(c) \/ Serve(c) \/ SendCommand(c) \/ Disconnect(c)
      PROVE  TaskTypeOK'
  <2>0. outbound' = outbound
    BY <1>3 DEF Accept, Serve, ReadSnapshot, Greet, Lag, Deliver, SendCommand, Disconnect,
       others, loop
  <2>1. CASE Accept(c)
    BY <1>0, <2>0, <2>1 DEF Accept, TaskTypeOK
  <2>5. CASE ReadSnapshot(c)
    BY <1>0, <2>0, <2>5 DEF ReadSnapshot, TaskTypeOK, LoopTypeOK
  <2>6. CASE Greet(c)
    BY <1>0, <2>0, <2>6 DEF Greet, TaskTypeOK
  <2>7. CASE Disconnect(c)
    <3>1. 0 \in 0 .. published
      BY DEF LoopTypeOK
    <3>2. task' \in [UiClient -> {"away", "handshake", "greeting", "serving"}]
      BY <2>7 DEF Disconnect, TaskTypeOK
    <3>3. initial' \in [UiClient -> 0 .. published] /\ shown' \in [UiClient -> 0 .. published]
      BY <2>7, <3>1 DEF Disconnect, TaskTypeOK
    <3>4. cursor' \in [UiClient -> Nat] /\ \A x \in UiClient : cursor'[x] <= Len(outbound)
      BY <1>0, <2>7 DEF Disconnect, TaskTypeOK
    <3> QED
      BY <2>0, <3>2, <3>3, <3>4 DEF TaskTypeOK
  <2>2. CASE Lag(c)
    <3>1. Capacity \in Nat \ {0} /\ Len(outbound) - Capacity \in Nat
      BY <1>0, <2>2, ControlServerAssumption DEF Lag, Lagged, TaskTypeOK
    <3> QED
      BY <1>0, <2>0, <2>2, <3>1 DEF Lag, TaskTypeOK
  <2>3. CASE Deliver(c)
    <3>1. cursor[c] \in Nat /\ cursor[c] + 1 \in 1 .. Len(outbound)
      BY <1>0, <2>3 DEF Deliver, TaskTypeOK
    <3>2. outbound[cursor[c] + 1] \in 0 .. published
      BY <1>0, <3>1, ElementOfSeq
    <3>3. shown' \in [UiClient -> 0 .. published]
      BY <2>3, <3>2 DEF Deliver, TaskTypeOK
    <3> QED
      BY <1>0, <2>0, <2>3, <3>1, <3>3 DEF Deliver, TaskTypeOK
  <2>4. CASE SendCommand(c)
    BY <1>1, <2>4 DEF SendCommand
  <2> QED
    BY <1>3, <2>1, <2>2, <2>3, <2>4, <2>5, <2>6, <2>7 DEF Serve
<1> QED
  BY <1>1, <1>2, <1>3 DEF ServerNext, LoopStep, PublishPressure, TakeCommand,
     SignalArrives, Republish, CommandsDone, ReceiveState, StatesDone, KeepSnapshot,
     BroadcastState, BroadcastPressure, PassDone, LoopFails, serverVars

-----------------------------------------------------------------------------
(* ShowsNewest *)

(* No state is left in what the receiver of c has not passed. *)
Quiet(c) == \A i \in cursor[c] + 1 .. Len(outbound) : outbound[i] = Pressure

(* Between the snapshot and its broadcast the loop holds one and the same    *)
(* state; before a pass and after its broadcast it holds none.               *)
HeldState ==
  /\ pc \in {"snapshot", "broadcast"} => latest # 0
  /\ pc = "broadcast" => latest = latest_snapshot
  /\ pc \in {"commands", "pressure"} => latest = 0

(* The newest state the controller published is in the ring, or in the       *)
(* loop's hand, or it is the snapshot.                                       *)
NewestHeld ==
  Alive =>
    IF stateRing # <<>> THEN stateRing[Len(stateRing)] = published
    ELSE published = IF latest # 0 THEN latest ELSE latest_snapshot

(* The last state broadcast is the snapshot, but for the moment between the  *)
(* two.                                                                      *)
SnapshotIsLast ==
  \A i \in 1 .. Len(outbound) :
    outbound[i] # Pressure /\ (\A j \in i + 1 .. Len(outbound) : outbound[j] = Pressure)
      => outbound[i] = latest_snapshot \/ pc = "broadcast"

(* A client before which no state lies shows the snapshot or is about to, in *)
(* whatever order it subscribed, read the snapshot and lagged.               *)
GreetingFresh ==
  \A c \in UiClient :
    task[c] = "greeting" /\ Quiet(c) => initial[c] = latest_snapshot \/ pc = "broadcast"
ServingFresh ==
  \A c \in UiClient :
    task[c] = "serving" /\ Quiet(c) => shown[c] = latest_snapshot \/ pc = "broadcast" \/ Buried

FreshInv == HeldState /\ NewestHeld /\ SnapshotIsLast /\ GreetingFresh /\ ServingFresh

(* The inductive invariant implies what a client shows. *)
LEMMA FreshImplies ==
  LoopTypeOK /\ TaskTypeOK /\ FreshInv => ShowsNewest
<1> SUFFICES ASSUME LoopTypeOK, TaskTypeOK, FreshInv,
                    NEW c \in UiClient, task[c] = "serving", cursor[c] = Len(outbound),
                    stateRing = <<>>, pc \in {"commands", "pressure"}
             PROVE  shown[c] = published \/ Buried
  BY DEF ShowsNewest
<1>1. Quiet(c)
  BY DEF Quiet, LoopTypeOK
<1>2. shown[c] = latest_snapshot \/ Buried
  BY <1>1 DEF FreshInv, ServingFresh
<1>3. latest = 0
  BY DEF FreshInv, HeldState
<1>4. published = latest_snapshot
  BY <1>3 DEF FreshInv, NewestHeld, Alive
<1> QED
  BY <1>2, <1>4

(* HeldState is kept: only a received state is held, and only one pass. *)
LEMMA HeldStep ==
  LoopTypeOK /\ HeldState /\ [ServerNext]_serverVars => HeldState'
<1> SUFFICES ASSUME LoopTypeOK, HeldState, [ServerNext]_serverVars PROVE HeldState'
  OBVIOUS
<1> USE DEF HeldState
<1>1. CASE UNCHANGED <<pc, latest, latest_snapshot>>
  BY <1>1
<1>2. CASE CommandsDone \/ StatesDone \/ KeepSnapshot
  BY <1>2 DEF CommandsDone, StatesDone, KeepSnapshot
<1>3. CASE BroadcastState \/ PassDone \/ LoopFails \/ ProcessExits
  BY <1>3 DEF BroadcastState, PassDone, LoopFails, ProcessExits
<1>4. CASE ReceiveState
  BY <1>4 DEF ReceiveState
<1>5. ASSUME NEW c \in UiClient, Accept(c) \/ Serve(c) \/ SendCommand(c) \/ Disconnect(c)
      PROVE  HeldState'
  BY <1>5 DEF Accept, Serve, ReadSnapshot, Greet, Lag, Deliver, SendCommand, Disconnect, others,
     loop
<1> QED
  BY <1>1, <1>2, <1>3, <1>4, <1>5 DEF ServerNext, LoopStep, PublishState, PublishPressure,
     TakeCommand, SignalArrives, Republish, BroadcastPressure, serverVars, loop

(* NewestHeld is kept: the ring loses only what a newer state replaces. *)
LEMMA NewestStep ==
  /\ LoopTypeOK /\ HeldState /\ NewestHeld /\ [ServerNext]_serverVars
  => NewestHeld'
<1> SUFFICES ASSUME LoopTypeOK, HeldState, NewestHeld, [ServerNext]_serverVars PROVE NewestHeld'
  OBVIOUS
<1>1. CASE UNCHANGED <<published, stateRing, pc, latest, latest_snapshot>>
  BY <1>1 DEF Alive, NewestHeld
<1>2. CASE PublishState
  <2>1. /\ published \in Nat /\ published' = published + 1
        /\ stateRing \in Seq(1 .. published') /\ published' \in 1 .. published'
        /\ Len(stateRing) <= RingDepth /\ RingDepth \in Nat \ {0}
        /\ stateRing' = RingSend(stateRing, published', RingDepth)
    BY <1>2, ControlServerAssumption DEF PublishState, LoopTypeOK
  <2> DEFINE R == RingSend(stateRing, published', RingDepth)
             S == 1 .. published'
  <2>4. stateRing \in Seq(S) /\ published' \in S
    BY <2>1
  <2> HIDE DEF S
  <2>5. R \in Seq(S) /\ Len(R) \in 1 .. RingDepth /\ R[Len(R)] = published'
    BY <2>1, <2>4, RingSendType
  <2>2. R \in Seq(1 .. published') /\ Len(R) \in 1 .. RingDepth /\ R[Len(R)] = published'
    BY <2>5 DEF S
  <2>3. stateRing' = R /\ R # <<>>
    BY <2>1, <2>2
  <2> QED
    BY <2>2, <2>3 DEF NewestHeld
<1>3. CASE ReceiveState
  <2>1. /\ published \in Nat /\ published' = published
        /\ stateRing \in Seq(1 .. published) /\ stateRing # <<>>
        /\ Alive /\ stateRing' = Tail(stateRing) /\ latest' = Head(stateRing)
    BY <1>3 DEF ReceiveState, LoopTypeOK, environment, Alive
  <2>2. stateRing[Len(stateRing)] = published
    BY <2>1 DEF NewestHeld
  <2>5. latest' # 0
    <3>1. Head(stateRing) \in 1 .. published
      BY <2>1
    <3> QED
      BY <2>1, <3>1
  <2>3. stateRing' # <<>> => stateRing'[Len(stateRing')] = published
    BY <2>1, <2>2
  <2>4. stateRing' = <<>> => latest' = published
    <3>1. Len(Tail(stateRing)) = Len(stateRing) - 1 /\ Len(stateRing) \in Nat
          /\ Head(stateRing) = stateRing[1]
      BY <2>1
    <3>2. Len(<<>>) = 0 /\ Len(stateRing') = Len(stateRing) - 1
      BY <2>1, <3>1, EmptySeq
    <3> DEFINE n == Len(stateRing)
    <3>4. Len(stateRing') = n - 1 /\ n \in Nat
      BY <3>1, <3>2
    <3> HIDE DEF n
    <3>5. stateRing' = <<>> => n = 1
      BY <3>2, <3>4
    <3>3. stateRing' = <<>> => Len(stateRing) = 1
      BY <3>5 DEF n
    <3> QED
      BY <2>1, <2>2, <3>1, <3>3
  <2> QED
    BY <2>1, <2>3, <2>4, <2>5 DEF NewestHeld
<1>4. CASE CommandsDone \/ StatesDone \/ KeepSnapshot \/ BroadcastState
  BY <1>4 DEF CommandsDone, StatesDone, KeepSnapshot, BroadcastState, HeldState, Alive,
     environment, bus, NewestHeld
<1>5. CASE PassDone \/ LoopFails \/ ProcessExits
  BY <1>5 DEF PassDone, LoopFails, ProcessExits, Alive, environment, bus, NewestHeld
<1>6. ASSUME NEW c \in UiClient, Accept(c) \/ Serve(c) \/ SendCommand(c) \/ Disconnect(c)
      PROVE  NewestHeld'
  BY <1>1, <1>6 DEF Accept, Serve, ReadSnapshot, Greet, Lag, Deliver, SendCommand, Disconnect,
     others, loop, environment, bus
<1> QED
  BY <1>1, <1>2, <1>3, <1>4, <1>5, <1>6 DEF ServerNext, LoopStep, PublishPressure,
     TakeCommand, SignalArrives, Republish, BroadcastPressure, serverVars, loop, environment, bus

(* The outcome of a step for the channel: nothing, a state or an event. *)
LEMMA BroadcastStep ==
  LoopTypeOK /\ [ServerNext]_serverVars =>
    \/ /\ UNCHANGED <<outbound, latest_snapshot>>
       /\ pc = "broadcast" <=> pc' = "broadcast"
    \/ KeepSnapshot \/ BroadcastState \/ BroadcastPressure
<1> SUFFICES ASSUME LoopTypeOK, [ServerNext]_serverVars,
                    ~KeepSnapshot, ~BroadcastState, ~BroadcastPressure
             PROVE  /\ UNCHANGED <<outbound, latest_snapshot>>
                    /\ pc = "broadcast" <=> pc' = "broadcast"
  OBVIOUS
<1>1. CASE CommandsDone \/ StatesDone \/ PassDone \/ LoopFails \/ ProcessExits
  BY <1>1 DEF CommandsDone, StatesDone, PassDone, LoopFails, ProcessExits
<1>2. ASSUME NEW c \in UiClient, Accept(c) \/ Serve(c) \/ SendCommand(c) \/ Disconnect(c)
      PROVE  UNCHANGED <<outbound, latest_snapshot, pc>>
  BY <1>2 DEF Accept, Serve, ReadSnapshot, Greet, Lag, Deliver, SendCommand, Disconnect, others,
     loop
<1> QED
  BY <1>1, <1>2 DEF ServerNext, LoopStep, PublishState, PublishPressure, TakeCommand,
     SignalArrives, Republish, ReceiveState, serverVars, loop

(* SnapshotIsLast is kept. *)
LEMMA SnapshotStep ==
  LoopTypeOK /\ HeldState /\ SnapshotIsLast /\ [ServerNext]_serverVars => SnapshotIsLast'
<1> SUFFICES ASSUME LoopTypeOK, HeldState, SnapshotIsLast, [ServerNext]_serverVars
             PROVE  SnapshotIsLast'
  OBVIOUS
<1>0. outbound \in Seq(0 .. published) /\ Len(outbound) \in Nat
  BY DEF LoopTypeOK
<1>1. CASE UNCHANGED <<outbound, latest_snapshot>> /\ (pc = "broadcast" <=> pc' = "broadcast")
  BY <1>1 DEF SnapshotIsLast
<1>2. CASE KeepSnapshot
  BY <1>2 DEF KeepSnapshot, SnapshotIsLast
<1>3. CASE BroadcastState
  <2>1. /\ outbound' = Append(outbound, latest) /\ latest # 0
        /\ latest = latest_snapshot /\ latest_snapshot' = latest_snapshot
    BY <1>3 DEF BroadcastState, HeldState
  <2>2. /\ Len(outbound') = Len(outbound) + 1 /\ outbound'[Len(outbound) + 1] = latest
    BY <1>0, <2>1
  <2> SUFFICES ASSUME NEW i \in 1 .. Len(outbound'),
                      \A j \in i + 1 .. Len(outbound') : outbound'[j] = Pressure
               PROVE  outbound'[i] = latest_snapshot'
    BY DEF SnapshotIsLast
  <2>3. i = Len(outbound) + 1
    BY <1>0, <2>1, <2>2 DEF Pressure
  <2> QED
    BY <2>1, <2>2, <2>3
<1>4. CASE BroadcastPressure
  <2>1. /\ outbound' = Append(outbound, Pressure) /\ latest_snapshot' = latest_snapshot
        /\ pc' = pc
    BY <1>4, ElementOfSeq DEF BroadcastPressure, LoopTypeOK
  <2>2. /\ Len(outbound') = Len(outbound) + 1 /\ outbound'[Len(outbound) + 1] = Pressure
        /\ \A i \in 1 .. Len(outbound) : outbound'[i] = outbound[i]
    BY <1>0, <2>1
  <2> SUFFICES ASSUME NEW i \in 1 .. Len(outbound'), outbound'[i] # Pressure,
                      \A j \in i + 1 .. Len(outbound') : outbound'[j] = Pressure
               PROVE  outbound'[i] = latest_snapshot' \/ pc' = "broadcast"
    BY DEF SnapshotIsLast
  <2>3. i \in 1 .. Len(outbound)
    BY <1>0, <2>2
  <2>4. \A j \in i + 1 .. Len(outbound) : outbound[j] = Pressure
    BY <1>0, <2>2, <2>3
  <2> QED
    BY <2>1, <2>2, <2>3, <2>4 DEF SnapshotIsLast
<1> QED
  BY <1>1, <1>2, <1>3, <1>4, BroadcastStep

(* A step that adds to the channel leaves no receiver quiet that was not,    *)
(* and none when it adds a state.                                            *)
LEMMA QuietStep ==
  LoopTypeOK /\ TaskTypeOK /\ [ServerNext]_serverVars =>
    \A c \in UiClient : cursor'[c] = cursor[c] /\ Quiet(c)' =>
      /\ Quiet(c)
      /\ BroadcastState => latest = Pressure
<1> SUFFICES ASSUME LoopTypeOK, TaskTypeOK, [ServerNext]_serverVars,
                    NEW c \in UiClient, cursor'[c] = cursor[c], Quiet(c)'
             PROVE  Quiet(c) /\ (BroadcastState => latest = Pressure)
  OBVIOUS
<1>1. /\ cursor[c] \in Nat /\ cursor[c] <= Len(outbound) /\ Len(outbound) \in Nat
      /\ outbound \in Seq(0 .. published)
  BY DEF LoopTypeOK, TaskTypeOK
<1>2. \A i \in cursor[c] + 1 .. Len(outbound') : outbound'[i] = Pressure
  BY DEF Quiet
<1>3. Len(outbound') >= Len(outbound) /\ \A i \in 1 .. Len(outbound) : outbound'[i] = outbound[i]
  BY OutboundGrows
<1>4. Len(outbound') \in Nat
  <2>1. outbound' = outbound \/ \E x : outbound' = Append(outbound, x)
    BY BroadcastStep DEF KeepSnapshot, BroadcastState, BroadcastPressure
  <2> QED
    BY <1>1, <2>1
<1>5. Quiet(c)
  BY <1>1, <1>2, <1>3, <1>4 DEF Quiet
<1>6. ASSUME BroadcastState PROVE latest = Pressure
  <2>1. Len(outbound') = Len(outbound) + 1 /\ outbound'[Len(outbound) + 1] = latest
    BY <1>1, <1>6 DEF BroadcastState
  <2> QED
    BY <1>1, <1>2, <2>1
<1> QED
  BY <1>5, <1>6

(* Once buried, the newest state stays so until the next one is broadcast. *)
LEMMA BuriedStep ==
  LoopTypeOK /\ [ServerNext]_serverVars /\ Buried => Buried' \/ BroadcastState
<1> SUFFICES ASSUME LoopTypeOK, [ServerNext]_serverVars, Buried, ~BroadcastState
             PROVE  Buried'
  OBVIOUS
<1>0. outbound \in Seq(0 .. published) /\ Len(outbound) \in Nat /\ Capacity \in Nat \ {0}
  BY ControlServerAssumption DEF LoopTypeOK
<1>1. CASE outbound' = outbound
  BY <1>1 DEF Buried
<1>2. CASE BroadcastPressure
  <2>1. outbound' = Append(outbound, Pressure)
    BY <1>2, ElementOfSeq DEF BroadcastPressure, LoopTypeOK
  <2>2. /\ Len(outbound') = Len(outbound) + 1 /\ outbound'[Len(outbound) + 1] = Pressure
        /\ \A i \in 1 .. Len(outbound) : outbound'[i] = outbound[i]
    BY <1>0, <2>1
  <2>3. Len(outbound) >= Capacity
    BY DEF Buried
  <2>4. ASSUME NEW i \in Len(outbound') - Capacity + 1 .. Len(outbound')
        PROVE  outbound'[i] = Pressure
    <3>1. i = Len(outbound) + 1 \/ i \in Len(outbound) - Capacity + 1 .. Len(outbound)
      BY <1>0, <2>2
    <3>2. i # Len(outbound) + 1 => outbound[i] = Pressure /\ i \in 1 .. Len(outbound)
      BY <1>0, <2>3, <3>1 DEF Buried
    <3> QED
      BY <2>2, <3>2
  <2> QED
    BY <1>0, <2>2, <2>3, <2>4 DEF Buried
<1> QED
  BY <1>1, <1>2, BroadcastStep DEF KeepSnapshot

(* The steps that touch the task of one client. *)
LEMMA MoveOf ==
  ASSUME NEW c \in UiClient
  PROVE  TaskTypeOK /\ [ServerNext]_serverVars =>
           \/ /\ task'[c] = task[c] /\ cursor'[c] = cursor[c]
              /\ initial'[c] = initial[c] /\ shown'[c] = shown[c]
           \/ task'[c] \in {"away", "handshake"}
           \/ Serve(c)
<1> SUFFICES ASSUME TaskTypeOK, [ServerNext]_serverVars, ~Serve(c),
                    task'[c] \notin {"away", "handshake"}
             PROVE  /\ task'[c] = task[c] /\ cursor'[c] = cursor[c]
                    /\ initial'[c] = initial[c] /\ shown'[c] = shown[c]
  OBVIOUS
<1>1. CASE UNCHANGED tasks
  BY <1>1 DEF tasks
<1>2. CASE ProcessExits
  BY <1>2 DEF ProcessExits
<1>3. ASSUME NEW d \in UiClient, Accept(d) \/ Serve(d) \/ SendCommand(d) \/ Disconnect(d)
      PROVE  /\ task'[c] = task[c] /\ cursor'[c] = cursor[c]
             /\ initial'[c] = initial[c] /\ shown'[c] = shown[c]
  <2>1. CASE Serve(d)
    <3>1. d # c
      BY <2>1
    <3> QED
      BY <2>1, <3>1 DEF Serve, ReadSnapshot, Greet, Lag, Deliver, TaskTypeOK
  <2>2. CASE Accept(d) \/ Disconnect(d)
    <3>1. d # c
      BY <2>2 DEF Accept, Disconnect, TaskTypeOK
    <3> QED
      BY <2>2, <3>1 DEF Accept, Disconnect, TaskTypeOK
  <2>3. CASE SendCommand(d)
    BY <2>3 DEF SendCommand, tasks
  <2> QED
    BY <1>3, <2>1, <2>2, <2>3
<1> QED
  BY <1>1, <1>2, <1>3 DEF ServerNext, LoopStep, PublishState, PublishPressure, TakeCommand,
     SignalArrives, Republish, CommandsDone, ReceiveState, StatesDone, KeepSnapshot,
     BroadcastState, BroadcastPressure, PassDone, LoopFails, serverVars

(* While the receiver of c stays where it is, what held of the snapshot      *)
(* still does.                                                               *)
LEMMA StaysFresh ==
  ASSUME NEW c \in UiClient, NEW x,
         LoopTypeOK, TaskTypeOK, HeldState, [ServerNext]_serverVars,
         cursor'[c] = cursor[c], Quiet(c)', x = latest_snapshot \/ pc = "broadcast"
  PROVE  x = latest_snapshot' \/ pc' = "broadcast"
<1>1. CASE UNCHANGED <<outbound, latest_snapshot>> /\ (pc = "broadcast" <=> pc' = "broadcast")
  BY <1>1
<1>2. CASE KeepSnapshot
  BY <1>2 DEF KeepSnapshot
<1>3. CASE BroadcastState
  BY <1>3, QuietStep DEF HeldState, BroadcastState, Pressure
<1>4. CASE BroadcastPressure
  BY <1>4 DEF BroadcastPressure
<1> QED
  BY <1>1, <1>2, <1>3, <1>4, BroadcastStep

(* GreetingFresh is kept. *)
LEMMA GreetingStep ==
  LoopTypeOK /\ TaskTypeOK /\ HeldState /\ GreetingFresh /\ [ServerNext]_serverVars
    => GreetingFresh'
<1> SUFFICES ASSUME LoopTypeOK, TaskTypeOK, HeldState, GreetingFresh, [ServerNext]_serverVars,
                    NEW c \in UiClient, task'[c] = "greeting", Quiet(c)'
             PROVE  initial'[c] = latest_snapshot' \/ pc' = "broadcast"
  BY DEF GreetingFresh, Quiet
<1>1. CASE ReadSnapshot(c)
  BY <1>1 DEF ReadSnapshot, others, loop, TaskTypeOK
<1>2. CASE task'[c] = task[c] /\ cursor'[c] = cursor[c] /\ initial'[c] = initial[c]
  <2>1. initial[c] = latest_snapshot \/ pc = "broadcast"
    BY <1>2, QuietStep DEF GreetingFresh
  <2> QED
    BY <1>2, <2>1, StaysFresh
<1>3. CASE Greet(c) \/ Lag(c) \/ Deliver(c)
  BY <1>3 DEF Greet, Lag, Deliver, TaskTypeOK
<1> QED
  BY <1>1, <1>2, <1>3, MoveOf DEF Serve

(* ServingFresh is kept, by a delivery and by a lag too. *)
LEMMA ServingStep ==
  /\ LoopTypeOK /\ TaskTypeOK /\ HeldState /\ SnapshotIsLast
  /\ GreetingFresh /\ ServingFresh /\ [ServerNext]_serverVars
  => ServingFresh'
<1> SUFFICES ASSUME LoopTypeOK, TaskTypeOK, HeldState, SnapshotIsLast, GreetingFresh,
                    ServingFresh, [ServerNext]_serverVars,
                    NEW c \in UiClient, task'[c] = "serving", Quiet(c)', ~Buried'
             PROVE  shown'[c] = latest_snapshot' \/ pc' = "broadcast"
  BY DEF ServingFresh, Quiet
<1>0. /\ cursor[c] \in Nat /\ cursor[c] <= Len(outbound) /\ Len(outbound) \in Nat
      /\ outbound \in Seq(0 .. published) /\ Capacity \in Nat \ {0}
  BY ControlServerAssumption DEF TaskTypeOK, LoopTypeOK
<1>1. CASE task'[c] = task[c] /\ cursor'[c] = cursor[c] /\ shown'[c] = shown[c]
  <2>1. ~BroadcastState
    BY <1>1, QuietStep DEF HeldState, BroadcastState, Pressure
  <2>2. ~Buried
    BY <2>1, BuriedStep
  <2>3. shown[c] = latest_snapshot \/ pc = "broadcast"
    BY <1>1, <2>2, QuietStep DEF ServingFresh
  <2> QED
    BY <1>1, <2>3, StaysFresh
<1>2. CASE ReadSnapshot(c)
  BY <1>2 DEF ReadSnapshot, TaskTypeOK
<1>3. CASE Greet(c)
  <2>1. /\ shown'[c] = initial[c] /\ task[c] = "greeting" /\ cursor' = cursor
        /\ latest_snapshot' = latest_snapshot /\ pc' = pc /\ outbound' = outbound
    BY <1>3 DEF Greet, others, loop, TaskTypeOK
  <2> QED
    BY <2>1 DEF GreetingFresh, Quiet
<1>4. CASE Lag(c)
  <2>1. outbound' = outbound /\ cursor'[c] = Len(outbound) - Capacity
    BY <1>4 DEF Lag, others, loop, TaskTypeOK
  <2>2. Len(outbound) >= Capacity
    BY <1>0, <1>4 DEF Lag, Lagged
  <2> QED
    BY <2>1, <2>2 DEF Quiet, Buried
<1>5. CASE Deliver(c)
  <2> DEFINE k == cursor[c] + 1
  <2>1. /\ outbound' = outbound /\ pc' = pc /\ latest_snapshot' = latest_snapshot
        /\ cursor'[c] = k /\ task[c] = "serving"
        /\ shown'[c] = IF outbound[k] = Pressure THEN shown[c] ELSE outbound[k]
    BY <1>5 DEF Deliver, others, loop, TaskTypeOK
  <2>2. k \in 1 .. Len(outbound)
    BY <1>0, <1>5 DEF Deliver
  <2>3. \A j \in k + 1 .. Len(outbound) : outbound[j] = Pressure
    BY <2>1 DEF Quiet
  <2>4. CASE outbound[k] # Pressure
    BY <2>1, <2>2, <2>3, <2>4 DEF SnapshotIsLast
  <2>5. CASE outbound[k] = Pressure
    <3>1. Quiet(c)
      BY <1>0, <2>2, <2>3, <2>5 DEF Quiet
    <3>2. ~Buried
      BY <2>1 DEF Buried
    <3> QED
      BY <2>1, <2>5, <3>1, <3>2 DEF ServingFresh
  <2> QED
    BY <2>4, <2>5
<1> QED
  BY <1>1, <1>2, <1>3, <1>4, <1>5, MoveOf DEF Serve

-----------------------------------------------------------------------------
(* CommandsAccounted *)

(* Commands are in the order in which they were sent: within a queue, and    *)
(* from one queue to the one behind it.                                      *)
Rising(q) == \A i, j \in DOMAIN q : i < j => q[i].number < q[j].number
Before(p, q) == \A i \in DOMAIN p, j \in DOMAIN q : p[i].number < q[j].number

(* The three queues together hold the commands in order. *)
InOrder ==
  Alive =>
    /\ Rising(taken) /\ Rising(commandRing) /\ Rising(command_rx)
    /\ Before(taken, commandRing) /\ Before(taken, command_rx)
    /\ Before(commandRing, command_rx)

(* What the loop has yet to publish is for its role or will be dropped. *)
ForRole(S) == {m \in S : m.kind = role}
NoneLost ==
  Alive => ForRole(Range(issued)) =
             Range(taken) \cup Range(commandRing) \cup ForRole(Range(command_rx))
               \cup overwritten

(* Commands are numbered as they are sent. *)
UpTo(q, n) == \A i \in DOMAIN q : q[i].number <= n
Numbered ==
  /\ UpTo(issued, Len(issued))
  /\ UpTo(taken, Len(issued)) /\ UpTo(commandRing, Len(issued)) /\ UpTo(command_rx, Len(issued))

QueueTypeOK == CommandTypeOK /\ HistoryTypeOK
QueueInv == Numbered /\ InOrder /\ NoneLost

(* The elements of a queue without its head. *)
LEMMA TailElements ==
  ASSUME NEW S, NEW q \in Seq(S), q # <<>>
  PROVE  /\ Tail(q) \in Seq(S) /\ DOMAIN Tail(q) = 1 .. Len(q) - 1
         /\ \A i \in DOMAIN Tail(q) : i + 1 \in DOMAIN q /\ Tail(q)[i] = q[i + 1]
         /\ 1 \in DOMAIN q /\ Head(q) = q[1] /\ Head(q) \in S
         /\ \A j \in DOMAIN q : j = 1 \/ (j - 1 \in DOMAIN Tail(q) /\ q[j] = Tail(q)[j - 1])
<1>1. Len(q) \in Nat \ {0} /\ DOMAIN q = 1 .. Len(q)
  BY EmptySeq, LenProperties
<1>2. Head(q) = q[1] /\ q[1] \in S /\ 1 \in DOMAIN q
  BY <1>1, ElementOfSeq
<1>3. /\ Tail(q) \in Seq(S) /\ Len(Tail(q)) = Len(q) - 1
      /\ \A i \in 1 .. Len(Tail(q)) : Tail(q)[i] = q[i + 1]
  BY <1>1, HeadTailProperties
<1>4. DOMAIN Tail(q) = 1 .. Len(q) - 1
  BY <1>3, LenProperties
<1>5. \A i \in DOMAIN Tail(q) : i + 1 \in DOMAIN q /\ Tail(q)[i] = q[i + 1]
  BY <1>1, <1>3, <1>4
<1>6. \A j \in DOMAIN q : j = 1 \/ (j - 1 \in DOMAIN Tail(q) /\ q[j] = Tail(q)[j - 1])
  <2> TAKE j \in DOMAIN q
  <2>1. ASSUME j # 1 PROVE j - 1 \in DOMAIN Tail(q) /\ q[j] = Tail(q)[j - 1]
    <3> DEFINE i == j - 1
    <3>1. i \in DOMAIN Tail(q) /\ i + 1 = j
      BY <1>1, <1>4, <2>1
    <3> HIDE DEF i
    <3>2. i \in DOMAIN Tail(q) /\ Tail(q)[i] = q[j]
      BY <1>5, <3>1
    <3> QED
      BY <3>2 DEF i
  <2> QED
    BY <2>1
<1> QED
  BY <1>2, <1>3, <1>4, <1>5, <1>6

(* The elements of a queue with one more behind it. *)
LEMMA AppendElements ==
  ASSUME NEW S, NEW q \in Seq(S), NEW m \in S
  PROVE  /\ Append(q, m) \in Seq(S) /\ DOMAIN Append(q, m) = 1 .. Len(q) + 1
         /\ DOMAIN q = 1 .. Len(q)
         /\ \A i \in DOMAIN q : Append(q, m)[i] = q[i]
         /\ Append(q, m)[Len(q) + 1] = m
OBVIOUS

(* What a queue holds without its head. *)
LEMMA RangeTail ==
  ASSUME NEW S, NEW q \in Seq(S), q # <<>>
  PROVE  Range(q) = {Head(q)} \cup Range(Tail(q)) /\ Range(q) \subseteq S
<1>1. /\ \A i \in DOMAIN Tail(q) : i + 1 \in DOMAIN q /\ Tail(q)[i] = q[i + 1]
      /\ 1 \in DOMAIN q /\ Head(q) = q[1]
      /\ \A j \in DOMAIN q : j = 1 \/ (j - 1 \in DOMAIN Tail(q) /\ q[j] = Tail(q)[j - 1])
      /\ \A i \in DOMAIN q : q[i] \in S
  BY TailElements
<1>2. ASSUME NEW x \in Range(q) PROVE x = Head(q) \/ x \in Range(Tail(q))
  <2>1. PICK j \in DOMAIN q : x = q[j]
    BY <1>2 DEF Range
  <2> QED
    BY <1>1, <2>1 DEF Range
<1>3. Head(q) \in Range(q) /\ Range(q) \subseteq S
  BY <1>1 DEF Range
<1>4. ASSUME NEW x \in Range(Tail(q)) PROVE x \in Range(q)
  <2>1. PICK i \in DOMAIN Tail(q) : x = Tail(q)[i]
    BY <1>4 DEF Range
  <2> DEFINE j == i + 1
  <2>2. j \in DOMAIN q /\ x = q[j]
    BY <1>1, <2>1
  <2> QED
    BY <2>2 DEF Range
<1> QED
  BY <1>2, <1>3, <1>4

(* What a queue holds with one more element. *)
LEMMA RangeAppend ==
  ASSUME NEW S, NEW q \in Seq(S), NEW m \in S
  PROVE  Range(Append(q, m)) = Range(q) \cup {m}
<1>1. /\ DOMAIN Append(q, m) = DOMAIN q \cup {Len(q) + 1}
      /\ \A i \in DOMAIN q : Append(q, m)[i] = q[i]
      /\ Append(q, m)[Len(q) + 1] = m
  BY AppendElements
<1> QED
  BY <1>1 DEF Range

(* A queue without its head is in order, the head was before the rest. *)
LEMMA RisingTail ==
  ASSUME NEW S, NEW q \in Seq(S), q # <<>>, Rising(q)
  PROVE  /\ Rising(Tail(q))
         /\ \A i \in DOMAIN Tail(q) : Head(q).number < Tail(q)[i].number
<1>1. /\ DOMAIN Tail(q) = 1 .. Len(q) - 1
      /\ \A i \in DOMAIN Tail(q) : i + 1 \in DOMAIN q /\ Tail(q)[i] = q[i + 1]
      /\ 1 \in DOMAIN q /\ Head(q) = q[1] /\ Len(q) \in Nat
  BY TailElements
<1> QED
  BY <1>1 DEF Rising

(* A queue stays in order when a later command is put behind it. *)
LEMMA RisingAppend ==
  ASSUME NEW S, NEW q \in Seq(S), NEW m \in S, Rising(q),
         \A i \in DOMAIN q : q[i].number < m.number
  PROVE  Rising(Append(q, m))
<1>1. /\ DOMAIN Append(q, m) = 1 .. Len(q) + 1 /\ DOMAIN q = 1 .. Len(q)
      /\ \A i \in DOMAIN q : Append(q, m)[i] = q[i]
      /\ Append(q, m)[Len(q) + 1] = m /\ Len(q) \in Nat
  BY AppendElements
<1> QED
  BY <1>1 DEF Rising

(* Two queues in order, one behind the other, are in order as one. *)
LEMMA RisingConcat ==
  ASSUME NEW S, NEW p \in Seq(S), NEW q \in Seq(S), Rising(p), Rising(q), Before(p, q)
  PROVE  Rising(p \o q)
<1>1. /\ Len(p) \in Nat /\ Len(q) \in Nat /\ DOMAIN (p \o q) = 1 .. Len(p) + Len(q)
      /\ DOMAIN p = 1 .. Len(p) /\ DOMAIN q = 1 .. Len(q)
      /\ \A i \in 1 .. Len(p) : (p \o q)[i] = p[i]
      /\ \A i \in Len(p) + 1 .. Len(p) + Len(q) : (p \o q)[i] = q[i - Len(p)]
  BY ConcatProperties
<1> SUFFICES ASSUME NEW i \in DOMAIN (p \o q), NEW j \in DOMAIN (p \o q), i < j
             PROVE  (p \o q)[i].number < (p \o q)[j].number
  BY DEF Rising
<1>2. CASE j <= Len(p)
  BY <1>1, <1>2 DEF Rising
<1>3. CASE i <= Len(p) /\ Len(p) < j
  <2>1. i \in DOMAIN p /\ j - Len(p) \in DOMAIN q
    BY <1>1, <1>3
  <2> QED
    BY <1>1, <1>3, <2>1 DEF Before
<1>4. CASE Len(p) < i
  <2>1. i - Len(p) \in DOMAIN q /\ j - Len(p) \in DOMAIN q /\ i - Len(p) < j - Len(p)
    BY <1>1, <1>4
  <2> QED
    BY <1>1, <1>4, <2>1 DEF Rising
<1> QED
  BY <1>1, <1>2, <1>3, <1>4

(* A queue without its head keeps its place between the others. *)
LEMMA BeforeTail ==
  ASSUME NEW S, NEW q \in Seq(S), q # <<>>, NEW z
  PROVE  /\ Before(q, z) => Before(Tail(q), z)
         /\ Before(z, q) => Before(z, Tail(q))
<1>1. \A i \in DOMAIN Tail(q) : i + 1 \in DOMAIN q /\ Tail(q)[i] = q[i + 1]
  BY TailElements
<1>2. ASSUME Before(q, z) PROVE Before(Tail(q), z)
  BY <1>1, <1>2 DEF Before
<1>3. ASSUME Before(z, q) PROVE Before(z, Tail(q))
  BY <1>1, <1>3 DEF Before
<1> QED
  BY <1>2, <1>3

(* So does a queue with one more element that has the same place. *)
LEMMA BeforeAppend ==
  ASSUME NEW S, NEW q \in Seq(S), NEW m \in S, NEW z
  PROVE  /\ Before(q, z) /\ (\A j \in DOMAIN z : m.number < z[j].number)
              => Before(Append(q, m), z)
         /\ Before(z, q) /\ (\A j \in DOMAIN z : z[j].number < m.number)
              => Before(z, Append(q, m))
<1>1. /\ \A i \in DOMAIN Append(q, m) : i \in DOMAIN q \/ i = Len(q) + 1
      /\ \A i \in DOMAIN q : Append(q, m)[i] = q[i]
      /\ Append(q, m)[Len(q) + 1] = m
  BY AppendElements
<1> QED
  BY <1>1 DEF Before

(* The head of a queue moves to the end of the queue before it. *)
LEMMA MoveHead ==
  ASSUME NEW S, NEW p \in Seq(S), NEW q \in Seq(S), q # <<>>,
         Rising(p), Rising(q), Before(p, q)
  PROVE  /\ Append(p, Head(q)) \in Seq(S) /\ Tail(q) \in Seq(S)
         /\ Rising(Append(p, Head(q))) /\ Rising(Tail(q))
         /\ Before(Append(p, Head(q)), Tail(q))
<1>1. /\ Tail(q) \in Seq(S) /\ Head(q) \in S /\ 1 \in DOMAIN q /\ Head(q) = q[1]
  BY TailElements
<1>2. \A i \in DOMAIN p : p[i].number < Head(q).number
  BY <1>1 DEF Before
<1>3. Rising(Tail(q)) /\ \A i \in DOMAIN Tail(q) : Head(q).number < Tail(q)[i].number
  BY RisingTail
<1>4. Append(p, Head(q)) \in Seq(S)
  BY <1>1, AppendElements
<1>5. Rising(Append(p, Head(q)))
  BY <1>1, <1>2, RisingAppend
<1>6. Before(p, Tail(q))
  BY BeforeTail
<1>7. Before(Append(p, Head(q)), Tail(q))
  BY <1>1, <1>3, <1>6, BeforeAppend
<1> QED
  BY <1>1, <1>3, <1>4, <1>5, <1>7

(* The head of a queue has the queue's place. *)
LEMMA HeadPlace ==
  ASSUME NEW S, NEW q \in Seq(S), q # <<>>, NEW z
  PROVE  /\ Before(q, z) => \A j \in DOMAIN z : Head(q).number < z[j].number
         /\ Before(z, q) => \A j \in DOMAIN z : z[j].number < Head(q).number
<1>1. 1 \in DOMAIN q /\ Head(q) = q[1]
  BY TailElements
<1> QED
  BY <1>1 DEF Before

(* The steps that touch the way of the commands. *)
LEMMA CommandStep ==
  [ServerNext]_serverVars =>
    /\ role' = role
    /\ \/ /\ UNCHANGED <<commandRing, command_rx, issued, taken, overwritten>>
          /\ Alive' => Alive
       \/ ~Alive' /\ command_rx' = <<>> /\ UNCHANGED <<commandRing, issued, taken, overwritten>>
       \/ TakeCommand \/ Republish
       \/ \E c \in UiClient : SendCommand(c)
<1> SUFFICES ASSUME [ServerNext]_serverVars, ~TakeCommand, ~Republish,
                    \A c \in UiClient : ~SendCommand(c)
             PROVE  /\ role' = role
                    /\ \/ /\ UNCHANGED <<commandRing, command_rx, issued, taken, overwritten>>
                          /\ Alive' => Alive
                       \/ /\ ~Alive' /\ command_rx' = <<>>
                          /\ UNCHANGED <<commandRing, issued, taken, overwritten>>
  BY DEF TakeCommand, Republish, SendCommand, environment, others
<1>1. CASE PassDone \/ LoopFails
  BY <1>1 DEF PassDone, LoopFails, environment, bus, history, Alive
<1>2. CASE CommandsDone \/ StatesDone \/ KeepSnapshot \/ BroadcastState \/ ProcessExits
  BY <1>2 DEF CommandsDone, StatesDone, KeepSnapshot, BroadcastState, ProcessExits,
     environment, bus, history, Alive
<1>3. CASE ReceiveState \/ BroadcastPressure
  BY <1>3 DEF ReceiveState, BroadcastPressure, environment, history, Alive
<1>4. CASE PublishState \/ PublishPressure \/ SignalArrives
  BY <1>4 DEF PublishState, PublishPressure, SignalArrives, environment, bus, loop, history,
     Alive
<1>5. ASSUME NEW c \in UiClient, Accept(c) \/ Serve(c) \/ Disconnect(c)
      PROVE  /\ UNCHANGED <<role, commandRing, command_rx, issued, taken, overwritten>>
             /\ Alive' => Alive
  BY <1>5 DEF Accept, Serve, ReadSnapshot, Greet, Lag, Deliver, Disconnect, others,
     environment, bus, loop, Alive
<1>6. CASE UNCHANGED serverVars
  BY <1>6 DEF serverVars, environment, bus, loop, history, Alive
<1> QED
  BY <1>1, <1>2, <1>3, <1>4, <1>5, <1>6 DEF ServerNext, LoopStep

(* The ring as the next publication finds it: with room for one. *)
RingRoom == IF Len(commandRing) < RingDepth THEN commandRing ELSE Tail(commandRing)

(* Making room keeps what holds of the ring, and what it lost is accounted.  *)
LEMMA MakesRoom ==
  ASSUME QueueTypeOK
  PROVE  /\ RingRoom \in Seq(Command) /\ Len(RingRoom) < RingDepth
         /\ Rising(commandRing) => Rising(RingRoom)
         /\ UpTo(commandRing, Len(issued)) => UpTo(RingRoom, Len(issued))
         /\ \A z : /\ Before(commandRing, z) => Before(RingRoom, z)
                   /\ Before(z, commandRing) => Before(z, RingRoom)
         /\ Range(commandRing) =
              Range(RingRoom) \cup (IF Len(commandRing) < RingDepth THEN {}
                                    ELSE {Head(commandRing)})
         /\ Len(commandRing) >= RingDepth => Head(commandRing) \in Command
         /\ \A m : RingSend(commandRing, m, RingDepth) = Append(RingRoom, m)
<1>0. /\ commandRing \in Seq(Command) /\ Len(commandRing) \in Nat
      /\ Len(commandRing) <= RingDepth /\ RingDepth \in Nat \ {0}
  BY ControlServerAssumption DEF QueueTypeOK, CommandTypeOK
<1>1. CASE Len(commandRing) < RingDepth
  BY <1>0, <1>1 DEF RingRoom, RingSend
<1>2. CASE ~(Len(commandRing) < RingDepth)
  <2>0. RingRoom = Tail(commandRing) /\ commandRing # <<>>
    BY <1>0, <1>2, EmptySeq DEF RingRoom
  <2>1. /\ Tail(commandRing) \in Seq(Command) /\ Head(commandRing) \in Command
        /\ \A i \in DOMAIN Tail(commandRing) :
             i + 1 \in DOMAIN commandRing /\ Tail(commandRing)[i] = commandRing[i + 1]
    BY <1>0, <2>0, TailElements
  <2>2. Rising(commandRing) => Rising(Tail(commandRing))
    BY <1>0, <2>0, RisingTail
  <2>3. UpTo(commandRing, Len(issued)) => UpTo(Tail(commandRing), Len(issued))
    BY <2>1 DEF UpTo
  <2>4. \A z : /\ Before(commandRing, z) => Before(Tail(commandRing), z)
               /\ Before(z, commandRing) => Before(z, Tail(commandRing))
    BY <1>0, <2>0, BeforeTail
  <2>5. Range(commandRing) = {Head(commandRing)} \cup Range(Tail(commandRing))
    BY <1>0, <2>0, RangeTail
  <2>6. Len(Tail(commandRing)) < RingDepth
    BY <1>0, <2>0, HeadTailProperties
  <2>7. \A m : RingSend(commandRing, m, RingDepth) = Append(Tail(commandRing), m)
    BY <1>2 DEF RingSend
  <2> QED
    BY <1>2, <2>0, <2>1, <2>2, <2>3, <2>4, <2>5, <2>6, <2>7
<1> QED
  BY <1>1, <1>2

(* What Republish does to the queues. *)
LEMMA RepublishEffect ==
  ASSUME QueueTypeOK, Republish
  PROVE  /\ command_rx # <<>> /\ Alive /\ command_rx' = Tail(command_rx)
         /\ taken' = taken /\ issued' = issued
         /\ \/ /\ Head(command_rx).kind = role
               /\ commandRing' = Append(RingRoom, Head(command_rx))
               /\ overwritten' = overwritten \cup (IF Len(commandRing) < RingDepth THEN {}
                                                   ELSE {Head(commandRing)})
            \/ Head(command_rx).kind # role /\ UNCHANGED <<commandRing, overwritten>>
<1>1. \A m : RingSend(commandRing, m, RingDepth) = Append(RingRoom, m)
  BY MakesRoom
<1> QED
  BY <1>1 DEF Republish, Alive

(* The queues stay sequences of commands. *)
LEMMA QueueTypes ==
  QueueTypeOK /\ [ServerNext]_serverVars => QueueTypeOK'
<1> SUFFICES ASSUME QueueTypeOK, [ServerNext]_serverVars PROVE QueueTypeOK'
  OBVIOUS
<1> USE DEF QueueTypeOK, CommandTypeOK, HistoryTypeOK
<1>1. CASE UNCHANGED <<commandRing, command_rx, issued, taken, overwritten>>
  BY <1>1
<1>2. CASE command_rx' = <<>> /\ UNCHANGED <<commandRing, issued, taken, overwritten>>
  BY <1>2
<1>3. CASE TakeCommand
  <2>1. /\ Head(commandRing) \in Command /\ Tail(commandRing) \in Seq(Command)
        /\ Len(Tail(commandRing)) <= RingDepth
    BY <1>3, ControlServerAssumption DEF TakeCommand
  <2>2. Append(taken, Head(commandRing)) \in Seq(Command)
    BY <2>1
  <2> QED
    BY <1>3, <2>1, <2>2 DEF TakeCommand
<1>4. CASE Republish
  <2> HIDE DEF QueueTypeOK
  <2>1. Head(command_rx) \in Command /\ Tail(command_rx) \in Seq(Command)
    BY <1>4, RepublishEffect, TailElements DEF QueueTypeOK
  <2>2. RingRoom \in Seq(Command) /\ Len(RingRoom) < RingDepth
        /\ (Len(commandRing) >= RingDepth => Head(commandRing) \in Command)
    BY MakesRoom
  <2>3. /\ Append(RingRoom, Head(command_rx)) \in Seq(Command)
        /\ Len(Append(RingRoom, Head(command_rx))) = Len(RingRoom) + 1
        /\ Len(RingRoom) \in Nat /\ RingDepth \in Nat /\ Len(commandRing) \in Nat
    BY <2>1, <2>2, AppendProperties, LenProperties, ControlServerAssumption DEF QueueTypeOK
  <2>6. commandRing' = Append(RingRoom, Head(command_rx)) \/ commandRing' = commandRing
    BY <1>4, RepublishEffect
  <2>7. commandRing \in Seq(Command) /\ Len(commandRing) <= RingDepth
    BY DEF QueueTypeOK
  <2> DEFINE R == Append(RingRoom, Head(command_rx))
  <2>8. R \in Seq(Command) /\ Len(R) <= RingDepth
    BY <2>2, <2>3
  <2> HIDE DEF R
  <2>4. commandRing' \in Seq(Command) /\ Len(commandRing') <= RingDepth
    BY <2>6, <2>7, <2>8 DEF R
  <2>5. overwritten' \subseteq Command
    BY <1>4, <2>2, <2>3, RepublishEffect DEF QueueTypeOK
  <2> QED
    BY <1>4, <2>1, <2>4, <2>5, RepublishEffect DEF QueueTypeOK
<1>5. ASSUME NEW c \in UiClient, SendCommand(c) PROVE QueueTypeOK'
  <2>1. PICK k \in Role :
          /\ command_rx' = Append(command_rx, [number |-> Len(issued) + 1, kind |-> k])
          /\ issued' = Append(issued, [number |-> Len(issued) + 1, kind |-> k])
    BY <1>5 DEF SendCommand
  <2>2. Len(issued) + 1 \in 1 .. MaxCommands
    BY <1>5, ControlServerAssumption DEF SendCommand
  <2>3. [number |-> Len(issued) + 1, kind |-> k] \in Command
    BY <2>2 DEF Command
  <2> QED
    BY <1>5, <2>1, <2>3, AppendProperties DEF SendCommand, others, bus
<1> QED
  BY <1>1, <1>2, <1>3, <1>4, <1>5, CommandStep

(* What a step of the server does to the numbers. *)
LEMMA NumberedStep ==
  QueueTypeOK /\ Numbered /\ [ServerNext]_serverVars => Numbered'
<1> SUFFICES ASSUME QueueTypeOK, Numbered, [ServerNext]_serverVars PROVE Numbered'
  OBVIOUS
<1> USE DEF Numbered
<1>0. /\ commandRing \in Seq(Command) /\ command_rx \in Seq(Command)
      /\ issued \in Seq(Command) /\ taken \in Seq(Command) /\ Len(issued) \in Nat
  BY DEF QueueTypeOK, CommandTypeOK, HistoryTypeOK
<1>1. CASE UNCHANGED <<commandRing, command_rx, issued, taken>>
  BY <1>1
<1>2. CASE command_rx' = <<>> /\ UNCHANGED <<commandRing, issued, taken>>
  BY <1>2 DEF UpTo
<1>a. ASSUME NEW q \in Seq(Command), q # <<>>, UpTo(q, Len(issued))
      PROVE  /\ UpTo(Tail(q), Len(issued)) /\ Head(q).number <= Len(issued)
             /\ Head(q) \in Command
  <2>1. /\ \A i \in DOMAIN Tail(q) : i + 1 \in DOMAIN q /\ Tail(q)[i] = q[i + 1]
        /\ 1 \in DOMAIN q /\ Head(q) = q[1] /\ Head(q) \in Command
    BY <1>a, TailElements
  <2> QED
    BY <1>a, <2>1 DEF UpTo
<1>b. ASSUME NEW q \in Seq(Command), NEW m \in Command, NEW n, UpTo(q, n), m.number <= n
      PROVE  UpTo(Append(q, m), n)
  <2>1. /\ \A i \in DOMAIN Append(q, m) : i \in DOMAIN q \/ i = Len(q) + 1
        /\ \A i \in DOMAIN q : Append(q, m)[i] = q[i]
        /\ Append(q, m)[Len(q) + 1] = m
    BY AppendElements
  <2> QED
    BY <1>b, <2>1 DEF UpTo
<1>3. CASE TakeCommand
  <2>1. UpTo(Tail(commandRing), Len(issued)) /\ Head(commandRing).number <= Len(issued)
        /\ Head(commandRing) \in Command
    BY <1>0, <1>3, <1>a DEF TakeCommand
  <2>2. UpTo(Append(taken, Head(commandRing)), Len(issued))
    BY <1>0, <1>b, <2>1
  <2> QED
    BY <1>3, <2>1, <2>2 DEF TakeCommand
<1>4. CASE Republish
  <2>1. UpTo(Tail(command_rx), Len(issued)) /\ Head(command_rx).number <= Len(issued)
        /\ Head(command_rx) \in Command
    BY <1>0, <1>4, <1>a, RepublishEffect
  <2>2. RingRoom \in Seq(Command) /\ UpTo(RingRoom, Len(issued))
    BY MakesRoom
  <2>3. UpTo(Append(RingRoom, Head(command_rx)), Len(issued))
    BY <1>b, <2>1, <2>2
  <2> QED
    BY <1>4, <2>1, <2>3, RepublishEffect
<1>5. ASSUME NEW c \in UiClient, SendCommand(c) PROVE Numbered'
  <2>1. PICK m \in Command :
          /\ m.number = Len(issued) + 1
          /\ command_rx' = Append(command_rx, m) /\ issued' = Append(issued, m)
    <3>1. PICK k \in Role :
            /\ command_rx' = Append(command_rx, [number |-> Len(issued) + 1, kind |-> k])
            /\ issued' = Append(issued, [number |-> Len(issued) + 1, kind |-> k])
      BY <1>5 DEF SendCommand
    <3>2. Len(issued) + 1 \in 1 .. MaxCommands
      BY <1>0, <1>5, ControlServerAssumption DEF SendCommand
    <3>3. [number |-> Len(issued) + 1, kind |-> k] \in Command
      BY <3>2 DEF Command
    <3> QED
      BY <3>1, <3>3
  <2> DEFINE n == Len(issued) + 1
  <2>2. Len(issued') = n /\ commandRing' = commandRing /\ taken' = taken
    BY <1>0, <1>5, <2>1 DEF SendCommand, others, bus
  <2>3. \A q \in Seq(Command) : UpTo(q, Len(issued)) => UpTo(q, n)
    <3>1. ASSUME NEW q \in Seq(Command), UpTo(q, Len(issued)) PROVE UpTo(q, n)
      <4>1. ASSUME NEW i \in DOMAIN q PROVE q[i].number <= n
        <5>1. q[i] \in Command
          BY LenProperties, ElementOfSeq
        <5>2. q[i].number \in Nat /\ q[i].number <= Len(issued)
          BY <3>1, <5>1, ControlServerAssumption DEF UpTo, Command
        <5> QED
          BY <1>0, <5>2
      <4> QED
        BY <4>1 DEF UpTo
    <3> QED
      BY <3>1
  <2>4. UpTo(issued, n) /\ UpTo(taken, n) /\ UpTo(commandRing, n) /\ UpTo(command_rx, n)
    BY <1>0, <2>3
  <2> HIDE DEF n
  <2>5. m.number <= n
    BY <1>0, <2>1 DEF n
  <2>6. UpTo(Append(issued, m), n) /\ UpTo(Append(command_rx, m), n)
    BY <1>0, <1>b, <2>4, <2>5
  <2> QED
    BY <2>1, <2>2, <2>4, <2>6
<1> QED
  BY <1>1, <1>2, <1>3, <1>4, <1>5, CommandStep

(* An element numbered above a queue may be put behind everything. *)
LEMMA AboveAll ==
  ASSUME NEW S, NEW q \in Seq(S), NEW n \in Nat, UpTo(q, n), NEW m, m.number = n + 1,
         \A i \in DOMAIN q : q[i].number \in Nat
  PROVE  \A i \in DOMAIN q : q[i].number < m.number
BY DEF UpTo

(* The commands stay in order. *)
LEMMA OrderStep ==
  QueueTypeOK /\ Numbered /\ InOrder /\ [ServerNext]_serverVars => InOrder'
<1> SUFFICES ASSUME QueueTypeOK, Numbered, InOrder, [ServerNext]_serverVars, Alive'
             PROVE  InOrder'
  BY DEF InOrder
<1>0. /\ commandRing \in Seq(Command) /\ command_rx \in Seq(Command)
      /\ issued \in Seq(Command) /\ taken \in Seq(Command) /\ Len(issued) \in Nat
  BY DEF QueueTypeOK, CommandTypeOK, HistoryTypeOK
<1>1. CASE UNCHANGED <<commandRing, command_rx, taken>> /\ (Alive' => Alive)
  BY <1>1 DEF InOrder
<1>3. CASE TakeCommand
  <2>1. /\ commandRing # <<>> /\ taken' = Append(taken, Head(commandRing))
        /\ commandRing' = Tail(commandRing) /\ command_rx' = command_rx /\ Alive
    BY <1>3 DEF TakeCommand, loop, Alive
  <2>2. /\ Rising(taken) /\ Rising(commandRing) /\ Rising(command_rx)
        /\ Before(taken, commandRing) /\ Before(taken, command_rx)
        /\ Before(commandRing, command_rx)
    BY <2>1 DEF InOrder
  <2>3. /\ Rising(Append(taken, Head(commandRing))) /\ Rising(Tail(commandRing))
        /\ Before(Append(taken, Head(commandRing)), Tail(commandRing))
    BY <1>0, <2>1, <2>2, MoveHead
  <2>4. Before(Tail(commandRing), command_rx)
    BY <1>0, <2>1, <2>2, BeforeTail
  <2>5. Head(commandRing) \in Command
        /\ \A j \in DOMAIN command_rx : Head(commandRing).number < command_rx[j].number
    BY <1>0, <2>1, <2>2, HeadPlace, TailElements
  <2>6. Before(Append(taken, Head(commandRing)), command_rx)
    BY <1>0, <2>2, <2>5, BeforeAppend
  <2> QED
    BY <2>1, <2>2, <2>3, <2>4, <2>6 DEF InOrder
<1>4. CASE Republish
  <2>1. /\ command_rx # <<>> /\ Alive /\ command_rx' = Tail(command_rx) /\ taken' = taken
        /\ \/ commandRing' = Append(RingRoom, Head(command_rx))
           \/ commandRing' = commandRing
    BY <1>4, RepublishEffect
  <2>2. /\ Rising(taken) /\ Rising(commandRing) /\ Rising(command_rx)
        /\ Before(taken, commandRing) /\ Before(taken, command_rx)
        /\ Before(commandRing, command_rx)
    BY <2>1 DEF InOrder
  <2>3. Rising(Tail(command_rx)) /\ Before(taken, Tail(command_rx))
        /\ Before(commandRing, Tail(command_rx))
    BY <1>0, <2>1, <2>2, RisingTail, BeforeTail
  <2>4. CASE commandRing' = commandRing
    BY <2>1, <2>2, <2>3, <2>4 DEF InOrder
  <2>5. CASE commandRing' = Append(RingRoom, Head(command_rx))
    <3>1. /\ RingRoom \in Seq(Command) /\ Rising(RingRoom)
          /\ Before(taken, RingRoom) /\ Before(RingRoom, command_rx)
      BY <2>2, MakesRoom
    <3>2. /\ Rising(Append(RingRoom, Head(command_rx)))
          /\ Before(Append(RingRoom, Head(command_rx)), Tail(command_rx))
      BY <1>0, <2>1, <2>2, <3>1, MoveHead
    <3>3. Head(command_rx) \in Command
          /\ \A j \in DOMAIN taken : taken[j].number < Head(command_rx).number
      BY <1>0, <2>1, <2>2, HeadPlace, TailElements
    <3>4. Before(taken, Append(RingRoom, Head(command_rx)))
      BY <3>1, <3>3, BeforeAppend
    <3> QED
      BY <2>1, <2>2, <2>3, <2>5, <3>2, <3>4 DEF InOrder
  <2> QED
    BY <2>1, <2>4, <2>5
<1>5. ASSUME NEW c \in UiClient, SendCommand(c) PROVE InOrder'
  <2>1. PICK m \in Command :
          m.number = Len(issued) + 1 /\ command_rx' = Append(command_rx, m)
    <3>1. PICK k \in Role :
            command_rx' = Append(command_rx, [number |-> Len(issued) + 1, kind |-> k])
      BY <1>5 DEF SendCommand
    <3>2. Len(issued) + 1 \in 1 .. MaxCommands
      BY <1>0, <1>5, ControlServerAssumption DEF SendCommand
    <3>3. [number |-> Len(issued) + 1, kind |-> k] \in Command
      BY <3>2 DEF Command
    <3> QED
      BY <3>1, <3>3
  <2>2. Alive /\ commandRing' = commandRing /\ taken' = taken
    BY <1>5 DEF SendCommand, others, bus
  <2>3. /\ Rising(taken) /\ Rising(commandRing) /\ Rising(command_rx)
        /\ Before(taken, commandRing) /\ Before(taken, command_rx)
        /\ Before(commandRing, command_rx)
    BY <2>2 DEF InOrder
  <2>4. \A q \in Seq(Command) : \A i \in DOMAIN q : q[i].number \in Nat
    <3>1. ASSUME NEW q \in Seq(Command), NEW i \in DOMAIN q PROVE q[i].number \in Nat
      <4>1. q[i] \in Command
        BY LenProperties, ElementOfSeq
      <4> QED
        BY <4>1, ControlServerAssumption DEF Command
    <3> QED
      BY <3>1
  <2>5. \A q \in Seq(Command) : UpTo(q, Len(issued)) =>
          \A i \in DOMAIN q : q[i].number < m.number
    BY <1>0, <2>1, <2>4, AboveAll
  <2>6. Rising(Append(command_rx, m))
    BY <1>0, <2>3, <2>5, RisingAppend DEF Numbered
  <2>7. Before(taken, Append(command_rx, m)) /\ Before(commandRing, Append(command_rx, m))
    BY <1>0, <2>3, <2>5, BeforeAppend DEF Numbered
  <2> QED
    BY <2>1, <2>2, <2>3, <2>6, <2>7 DEF InOrder
<1> QED
  BY <1>1, <1>3, <1>4, <1>5, CommandStep

(* No command of the role is lost but in the ring. *)
LEMMA NoneLostStep ==
  QueueTypeOK /\ NoneLost /\ [ServerNext]_serverVars => NoneLost'
<1> SUFFICES ASSUME QueueTypeOK, NoneLost, [ServerNext]_serverVars, Alive' PROVE NoneLost'
  BY DEF NoneLost
<1>0. /\ commandRing \in Seq(Command) /\ command_rx \in Seq(Command)
      /\ issued \in Seq(Command) /\ taken \in Seq(Command) /\ role' = role
  BY CommandStep DEF QueueTypeOK, CommandTypeOK, HistoryTypeOK
<1>1. CASE UNCHANGED <<commandRing, command_rx, issued, taken, overwritten>> /\ (Alive' => Alive)
  BY <1>0, <1>1 DEF NoneLost, ForRole
<1>3. CASE TakeCommand
  <2>1. /\ commandRing # <<>> /\ taken' = Append(taken, Head(commandRing))
        /\ commandRing' = Tail(commandRing) /\ command_rx' = command_rx /\ Alive
        /\ issued' = issued /\ overwritten' = overwritten
    BY <1>3 DEF TakeCommand, loop, Alive
  <2>2. Range(commandRing) = {Head(commandRing)} \cup Range(Tail(commandRing))
    BY <1>0, <2>1, RangeTail
  <2>3. Range(Append(taken, Head(commandRing))) = Range(taken) \cup {Head(commandRing)}
    BY <1>0, <2>1, RangeAppend, TailElements
  <2>4. Range(taken') \cup Range(commandRing') = Range(taken) \cup Range(commandRing)
    BY <2>1, <2>2, <2>3
  <2> QED
    BY <1>0, <2>1, <2>4 DEF NoneLost, ForRole
<1>4. CASE Republish
  <2>1. /\ command_rx # <<>> /\ Alive /\ command_rx' = Tail(command_rx)
        /\ taken' = taken /\ issued' = issued
        /\ \/ /\ Head(command_rx).kind = role
              /\ commandRing' = Append(RingRoom, Head(command_rx))
              /\ overwritten' = overwritten \cup (IF Len(commandRing) < RingDepth THEN {}
                                                  ELSE {Head(commandRing)})
           \/ Head(command_rx).kind # role /\ UNCHANGED <<commandRing, overwritten>>
    BY <1>4, RepublishEffect
  <2>2. Range(command_rx) = {Head(command_rx)} \cup Range(Tail(command_rx))
        /\ Head(command_rx) \in Command
    BY <1>0, <2>1, RangeTail, TailElements
  <2>3. CASE Head(command_rx).kind # role
    <3>1. ForRole(Range(command_rx)) = ForRole(Range(Tail(command_rx)))
      BY <2>2, <2>3 DEF ForRole
    <3> QED
      BY <1>0, <2>1, <2>3, <3>1 DEF NoneLost, ForRole
  <2>4. CASE Head(command_rx).kind = role
    <3> DEFINE lostNow == IF Len(commandRing) < RingDepth THEN {} ELSE {Head(commandRing)}
    <3>1. ForRole(Range(command_rx)) = {Head(command_rx)} \cup ForRole(Range(Tail(command_rx)))
      BY <2>2, <2>4 DEF ForRole
    <3>2. Range(Append(RingRoom, Head(command_rx))) = Range(RingRoom) \cup {Head(command_rx)}
      BY <2>2, MakesRoom, RangeAppend
    <3>3. Range(commandRing) = Range(RingRoom) \cup lostNow
      BY MakesRoom
    <3>4. commandRing' = Append(RingRoom, Head(command_rx)) /\ overwritten' = overwritten \cup lostNow
      BY <2>1, <2>4
    <3> HIDE DEF lostNow
    <3>5. Range(commandRing') \cup ForRole(Range(Tail(command_rx))) \cup overwritten' =
            Range(commandRing) \cup ForRole(Range(command_rx)) \cup overwritten
      BY <3>1, <3>2, <3>3, <3>4
    <3>6. ForRole(Range(issued)) =
            Range(taken) \cup Range(commandRing) \cup ForRole(Range(command_rx)) \cup overwritten
      BY <2>1 DEF NoneLost
    <3>7. ForRole(Range(issued)) =
            Range(taken) \cup Range(commandRing') \cup ForRole(Range(Tail(command_rx)))
              \cup overwritten'
      BY <3>5, <3>6
    <3> QED
      BY <1>0, <2>1, <3>7 DEF NoneLost, ForRole
  <2> QED
    BY <2>3, <2>4
<1>5. ASSUME NEW c \in UiClient, SendCommand(c) PROVE NoneLost'
  <2>1. PICK m : command_rx' = Append(command_rx, m) /\ issued' = Append(issued, m)
    BY <1>5 DEF SendCommand
  <2>2. Alive /\ commandRing' = commandRing /\ taken' = taken /\ overwritten' = overwritten
    BY <1>5 DEF SendCommand, others, bus
  <2>3. /\ Range(Append(command_rx, m)) = Range(command_rx) \cup {m}
        /\ Range(Append(issued, m)) = Range(issued) \cup {m}
    <3>1. command_rx \in Seq(Command \cup {m}) /\ issued \in Seq(Command \cup {m})
      BY <1>0, SeqMonotonic
    <3> QED
      BY <3>1, RangeAppend
  <2>4. ForRole(Range(issued) \cup {m}) = ForRole(Range(issued)) \cup ForRole({m})
        /\ ForRole(Range(command_rx) \cup {m}) = ForRole(Range(command_rx)) \cup ForRole({m})
    BY DEF ForRole
  <2>5. ForRole(Range(issued) \cup {m}) =
          Range(taken) \cup Range(commandRing) \cup ForRole(Range(command_rx) \cup {m})
            \cup overwritten
    BY <2>2, <2>4 DEF NoneLost
  <2> QED
    BY <1>0, <2>1, <2>2, <2>3, <2>5 DEF NoneLost, ForRole
<1> QED
  BY <1>1, <1>3, <1>4, <1>5, CommandStep

-----------------------------------------------------------------------------
(* The theorems about the control server *)

ServerInv == LoopTypeOK /\ TaskTypeOK /\ QueueTypeOK /\ FreshInv /\ QueueInv

(* The inductive invariant implies what a run checks of it. *)
LEMMA ServerInvImplies == ServerInv => BridgeSound
<1> SUFFICES ASSUME ServerInv PROVE BridgeSound
  OBVIOUS
<1>1. ServerTypeOK
  BY DEF ServerInv, LoopTypeOK, TaskTypeOK, QueueTypeOK, CommandTypeOK, ServerTypeOK
<1>2. ShowsNewest
  BY FreshImplies DEF ServerInv
<1>3. ASSUME Alive
      PROVE  /\ Rising((taken \o commandRing) \o command_rx)
             /\ ForRole(Range(issued)) =
                  Range(taken) \cup Range(commandRing) \cup ForRole(Range(command_rx))
                    \cup overwritten
  <2>1. /\ Rising(taken) /\ Rising(commandRing) /\ Rising(command_rx)
        /\ Before(taken, commandRing) /\ Before(taken, command_rx)
        /\ Before(commandRing, command_rx)
    BY <1>3 DEF ServerInv, QueueInv, InOrder
  <2>2. taken \in Seq(Command) /\ commandRing \in Seq(Command) /\ command_rx \in Seq(Command)
    BY DEF ServerInv, QueueTypeOK, CommandTypeOK, HistoryTypeOK
  <2>3. Rising(taken \o commandRing)
    BY <2>1, <2>2, RisingConcat
  <2>4. Before(taken \o commandRing, command_rx)
    <3>1. /\ DOMAIN (taken \o commandRing) = 1 .. Len(taken) + Len(commandRing)
          /\ DOMAIN taken = 1 .. Len(taken) /\ DOMAIN commandRing = 1 .. Len(commandRing)
          /\ Len(taken) \in Nat /\ Len(commandRing) \in Nat
          /\ \A i \in 1 .. Len(taken) : (taken \o commandRing)[i] = taken[i]
          /\ \A i \in Len(taken) + 1 .. Len(taken) + Len(commandRing) :
               (taken \o commandRing)[i] = commandRing[i - Len(taken)]
      BY <2>2, ConcatProperties
    <3>2. ASSUME NEW i \in DOMAIN (taken \o commandRing), NEW j \in DOMAIN command_rx
          PROVE  (taken \o commandRing)[i].number < command_rx[j].number
      <4>1. CASE i <= Len(taken)
        BY <2>1, <3>1, <4>1 DEF Before
      <4>2. CASE Len(taken) < i
        <5>1. i - Len(taken) \in DOMAIN commandRing
          BY <3>1, <4>2
        <5> QED
          BY <2>1, <3>1, <4>2, <5>1 DEF Before
      <4> QED
        BY <3>1, <4>1, <4>2
    <3> QED
      BY <3>2 DEF Before
  <2>5. Rising((taken \o commandRing) \o command_rx)
    <3>1. taken \o commandRing \in Seq(Command)
      BY <2>2, ConcatProperties
    <3> QED
      BY <2>1, <2>2, <2>3, <2>4, <3>1, RisingConcat
  <2> QED
    BY <1>3, <2>5 DEF ServerInv, QueueInv, NoneLost
<1>4. CommandsAccounted
  BY <1>3 DEF CommandsAccounted, Rising, ForRole
<1> QED
  BY <1>1, <1>2, <1>4 DEF BridgeSound

(* Every state the server can be in satisfies the inductive invariant. *)
LEMMA ServerInvariance == ServerSpec => []ServerInv
<1>1. ServerInit => ServerInv
  <2> SUFFICES ASSUME ServerInit PROVE ServerInv
    OBVIOUS
  <2>1. LoopTypeOK
    <3>1. <<>> \in Seq(1 .. published) /\ <<>> \in Seq({Pressure}) /\ <<>> \in Seq(0 .. published)
      BY EmptySeq
    <3>2. stateRing = <<>> /\ pressureRing = <<>> /\ outbound = <<>>
      BY DEF ServerInit
    <3>3. Len(<<>>) = 0
      BY EmptySeq
    <3>4. Len(stateRing) <= RingDepth /\ Len(pressureRing) <= RingDepth
      BY <3>2, <3>3, ControlServerAssumption
    <3>5. role \in Role /\ published = 0 /\ pressed = 0
      BY DEF ServerInit
    <3>6. latest = 0 /\ latest_snapshot = 0 /\ shutdown = FALSE /\ pc \in Place
      BY DEF ServerInit, Place
    <3>7. published \in 0 .. MaxStates /\ pressed \in 0 .. MaxPressure
      BY <3>5, ControlServerAssumption
    <3>8. latest \in 0 .. published /\ latest_snapshot \in 0 .. published
      BY <3>5, <3>6
    <3> QED
      BY <3>1, <3>2, <3>4, <3>5, <3>6, <3>7, <3>8 DEF LoopTypeOK
  <2>2. TaskTypeOK
    BY DEF ServerInit, TaskTypeOK
  <2>3. QueueTypeOK
    BY ControlServerAssumption DEF ServerInit, QueueTypeOK, CommandTypeOK, HistoryTypeOK
  <2>4. FreshInv
    BY DEF ServerInit, FreshInv, HeldState, NewestHeld, SnapshotIsLast, GreetingFresh,
       ServingFresh
  <2>5. Numbered /\ InOrder
    BY DEF ServerInit, Numbered, UpTo, InOrder, Rising, Before
  <2>6. NoneLost
    BY DEF ServerInit, NoneLost, ForRole, Range
  <2> QED
    BY <2>1, <2>2, <2>3, <2>4, <2>5, <2>6 DEF ServerInv, QueueInv
<1>2. ServerInv /\ [ServerNext]_serverVars => ServerInv'
  <2> SUFFICES ASSUME ServerInv, [ServerNext]_serverVars PROVE ServerInv'
    OBVIOUS
  <2>1. LoopTypeOK' /\ TaskTypeOK'
    BY PublishStateTypes, LoopTypes, TaskTypes DEF ServerInv
  <2>2. QueueTypeOK' /\ QueueInv'
    BY QueueTypes, NumberedStep, OrderStep, NoneLostStep DEF ServerInv, QueueInv
  <2>3. FreshInv'
    BY HeldStep, NewestStep, SnapshotStep, GreetingStep, ServingStep DEF ServerInv, FreshInv
  <2> QED
    BY <2>1, <2>2, <2>3 DEF ServerInv
<1> QED
  BY <1>1, <1>2, PTL DEF ServerSpec

(* The bridge is sound in both directions (run_poll_loop, handle_client): a  *)
(* client that has read all it was sent shows the newest state, in whatever  *)
(* order it subscribed, read latest_snapshot and lagged, and no command of   *)
(* the role is lost, repeated or overtaken but those the ring overwrites.    *)
THEOREM BridgeStaysSound == ServerSpec => []BridgeSound
BY ServerInvariance, ServerInvImplies, PTL

-----------------------------------------------------------------------------
(* The preview's sizes *)

(* clamp_preview_dimension returns what is_valid_preview_dim accepts.        *)
LEMMA ClampValid == \A v \in Int : IsValidPreviewDim(ClampPreviewDimension(v))
<1> SUFFICES ASSUME NEW v \in Int PROVE IsValidPreviewDim(ClampPreviewDimension(v))
  OBVIOUS
<1> DEFINE clamped == Smaller(Larger(v, MIN_PREVIEW_DIMENSION), MAX_PREVIEW_DIMENSION)
           aligned == clamped - (clamped % 16)
<1>1. clamped \in 160 .. 1920
  BY DEF Smaller, Larger, MIN_PREVIEW_DIMENSION, MAX_PREVIEW_DIMENSION
<1>2. ClampPreviewDimension(v) = Larger(aligned, 160)
  BY DEF ClampPreviewDimension, MIN_PREVIEW_DIMENSION, PREVIEW_DIMENSION_ALIGNMENT
<1> HIDE DEF clamped
<1>3. aligned \in Int /\ aligned % 16 = 0
  BY <1>1
<1> HIDE DEF aligned
<1>4. Larger(aligned, 160) \in {aligned, 160} /\ Larger(aligned, 160) >= 160
  BY <1>3 DEF Larger
<1>5. Larger(aligned, 160) % 16 = 0
  BY <1>3, <1>4
<1> QED
  BY <1>2, <1>4, <1>5 DEF IsValidPreviewDim

(* PreviewSize::new makes a valid size of any request.                       *)
LEMMA PreviewSizeValid ==
  \A width, height \in Nat : IsValidSize(PreviewSize(width, height))
<1> SUFFICES ASSUME NEW width \in Nat, NEW height \in Nat
             PROVE  IsValidSize(PreviewSize(width, height))
  OBVIOUS
<1> DEFINE max_dim == Larger(width, height)
           scaled(v) == IF max_dim > MAX_PREVIEW_DIMENSION
                        THEN Rounded(v * MAX_PREVIEW_DIMENSION, max_dim) ELSE v
<1>1. max_dim \in Nat
  BY DEF Larger
<1>2. PreviewSize(width, height) = [width |-> ClampPreviewDimension(scaled(width)),
                                    height |-> ClampPreviewDimension(scaled(height))]
  BY DEF PreviewSize
<1> HIDE DEF max_dim
<1>3. ASSUME NEW v \in Nat PROVE scaled(v) \in Int
  <2>1. CASE max_dim > MAX_PREVIEW_DIMENSION
    <3>1. 2 * (v * 1920) + max_dim \in Int /\ 2 * max_dim \in Nat /\ 2 * max_dim > 0
      BY <1>1, <2>1 DEF MAX_PREVIEW_DIMENSION
    <3>2. (2 * (v * 1920) + max_dim) \div (2 * max_dim) \in Int
      <4> DEFINE a == 2 * (v * 1920) + max_dim
                 b == 2 * max_dim
      <4>1. a \in Int /\ b \in Nat /\ b > 0
        BY <3>1
      <4> HIDE DEF a, b
      <4>2. a \div b \in Int
        BY <4>1
      <4> QED
        BY <4>2 DEF a, b
    <3> QED
      BY <2>1, <3>2 DEF Rounded, MAX_PREVIEW_DIMENSION
  <2>2. CASE ~(max_dim > MAX_PREVIEW_DIMENSION)
    BY <2>2
  <2> QED
    BY <2>1, <2>2
<1> HIDE DEF scaled
<1>4. scaled(width) \in Int /\ scaled(height) \in Int
  BY <1>3
<1>5. /\ IsValidPreviewDim(ClampPreviewDimension(scaled(width)))
      /\ IsValidPreviewDim(ClampPreviewDimension(scaled(height)))
  BY <1>4, ClampValid
<1> QED
  BY <1>2, <1>5 DEF IsValidSize

(* Every size a client may ask for is one the encoder accepts.               *)
LEMMA AskedValid == DefaultSize \in Asked /\ \A s \in Asked : IsValidSize(s)
<1>1. DefaultSize \in Asked
  BY DEF Asked
<1>2. ASSUME NEW r \in Request PROVE IsValidSize(PreviewSize(r[1], r[2]))
  BY PreviewSizeValid, VisualizerAssumption
<1>3. IsValidSize(DefaultSize)
  BY PreviewSizeValid DEF DefaultSize
<1> QED
  BY <1>1, <1>2, <1>3 DEF Asked

(* The sizes an encoder may have, and what its packets are.                  *)
Sizes == Asked \cup {[width |-> Configured[1], height |-> Configured[2]]}
PacketKind == {"Key", "Delta", "EndOfStream"}
SentPacket == [kind : PacketKind, group : Nat \ {0}, size : Sizes]

(* The variables a size passes on its way from a client to the encoder.      *)
SizeTypeOK ==
  /\ sizeRing \in Seq(Asked) /\ Len(sizeRing) <= Depth
  /\ client \in [Client -> ClientPlace] /\ want \in [Client -> Asked]
  /\ changed \in [Client -> BOOLEAN]
  /\ active_width \in {s.width : s \in Asked} /\ active_height \in {s.height : s \in Asked}
  /\ bounds \in Asked /\ resize_rx \in Seq(Asked)

StreamTypeOK ==
  /\ viz \in {"starting", "running", "exited"} /\ enc \in EncPlace
  /\ session \in {"none", "opened", "coding"} /\ group \in Nat \ {0}
  /\ packetRing \in Seq(SentPacket) /\ Len(packetRing) <= PacketDepth
  /\ dims \in Sizes

(* The types the model checker sees follow from these.                       *)
LEMMA PreviewTypesImply == SizeTypeOK /\ StreamTypeOK => TypeOK /\ ForwardedAreValid /\ WholeSizes
<1> SUFFICES ASSUME SizeTypeOK, StreamTypeOK PROVE TypeOK /\ ForwardedAreValid /\ WholeSizes
  OBVIOUS
<1>1. TypeOK
  BY DEF TypeOK, SizeTypeOK, StreamTypeOK
<1>2. ForwardedAreValid
  BY AskedValid, ElementOfSeq DEF ForwardedAreValid, SizeTypeOK
<1>3. WholeSizes
  BY DEF WholeSizes, StreamTypeOK, Sizes
<1> QED
  BY <1>1, <1>2, <1>3

(* Types of a client's task, in every step it takes.                         *)
LEMMA ClientTypes ==
  ASSUME SizeTypeOK, NEW c \in Client,
         Connect(c) \/ AskForSize(c) \/ Leave(c) \/ TaskStep(c)
  PROVE  SizeTypeOK'
<1> USE DEF SizeTypeOK, untouched, topics, Goto, ClientPlace, resizes
<1>1. CASE Connect(c)
  BY <1>1 DEF Connect
<1>2. CASE AskForSize(c)
  <2>1. PICK r \in Request : want' = [want EXCEPT ![c] = PreviewSize(r[1], r[2])]
    BY <1>2 DEF AskForSize
  <2>2. PreviewSize(r[1], r[2]) \in Asked
    BY DEF Asked
  <2>3. want' \in [Client -> Asked]
    BY <2>1, <2>2
  <2> QED
    BY <1>2, <2>3 DEF AskForSize, previewConfig
<1>3. CASE Leave(c)
  BY <1>3 DEF Leave
<1>4. CASE SwapWidth(c)
  BY <1>4 DEF SwapWidth
<1>5. CASE SwapHeight(c)
  BY <1>5 DEF SwapHeight
<1>6. DefaultSize \in Asked
  BY AskedValid
<1>7. CASE SetBounds(c)
  BY <1>6, <1>7 DEF SetBounds, Release, previewConfig
<1>8. CASE Forward(c)
  <2>1. resize_rx' \in Seq(Asked)
    BY <1>8 DEF Forward
  <2> QED
    BY <1>6, <1>8, <2>1 DEF Forward, Release, previewConfig
<1>9. CASE ResetBounds(c)
  BY <1>6, <1>9 DEF ResetBounds, Release, previewConfig
<1> QED
  BY <1>1, <1>2, <1>3, <1>4, <1>5, <1>7, <1>8, <1>9 DEF TaskStep

(* Types of the sizes, in every step.                                        *)
LEMMA SizeTypes == SizeTypeOK /\ [Next]_vars => SizeTypeOK'
<1> SUFFICES ASSUME SizeTypeOK, [Next]_vars PROVE SizeTypeOK'
  OBVIOUS
<1>1. CASE Browser
  <2>1. PICK c \in Client : Connect(c) \/ AskForSize(c) \/ Leave(c)
    BY <1>1 DEF Browser
  <2> QED
    BY <2>1, ClientTypes
<1>2. ASSUME NEW c \in Client, Tasks(c) PROVE SizeTypeOK'
  BY <1>2, ClientTypes DEF Tasks
<1>3. CASE Subscribe \/ TakePacket
  BY <1>3 DEF Subscribe, TakePacket, TakeEndOfStream, SkipDelta, BroadcastPacket, Take,
     tasksOnly, resizes, clientTasks, previewConfig, SizeTypeOK
<1>4. CASE ForwardResize
  <2>1. resize_rx \in Seq(Asked) /\ resize_rx # <<>> /\ sizeRing \in Seq(Asked)
        /\ Len(sizeRing) <= Depth
    BY <1>4 DEF ForwardResize, SizeTypeOK
  <2>2. Head(resize_rx) \in Asked /\ Tail(resize_rx) \in Seq(Asked)
    BY <2>1, HeadTailProperties
  <2>3. /\ RingSend(sizeRing, Head(resize_rx), Depth) \in Seq(Asked)
        /\ Len(RingSend(sizeRing, Head(resize_rx), Depth)) \in 1 .. Depth
    BY <2>1, <2>2, RingSendType, TopicsAssumption
  <2>4. sizeRing' \in Seq(Asked) /\ Len(sizeRing') <= Depth
    BY <1>4, <2>1, <2>3, TopicsAssumption DEF ForwardResize
  <2> QED
    BY <1>4, <2>2, <2>4 DEF ForwardResize, tasksOnly, clientTasks, previewConfig, SizeTypeOK
<1>5. CASE VisualizerExits
  <2>1. DefaultSize \in Asked /\ <<>> \in Seq(Asked)
    BY AskedValid, EmptySeq
  <2> QED
    BY <1>5, <2>1 DEF VisualizerExits, previewConfig, SizeTypeOK, ClientPlace
<1>6. CASE Encode
  <2>1. sizeRing' = <<>> \/ sizeRing' = sizeRing
    BY <1>6 DEF Encode, EncoderStep, KeepSize, Resize, Drain, EncodeKeyframe, EncodeDelta,
       WithoutPacket, WithFrame, EncoderStops
  <2>a. <<>> \in Seq(Asked) /\ Len(<<>>) = 0 /\ 0 <= Depth
    BY EmptySeq, TopicsAssumption
  <2>b. sizeRing \in Seq(Asked) /\ Len(sizeRing) <= Depth
    BY DEF SizeTypeOK
  <2>2. sizeRing' \in Seq(Asked) /\ Len(sizeRing') <= Depth
    BY <2>1, <2>a, <2>b
  <2> QED
    BY <1>6, <2>2 DEF Encode, visualizerVars, clientTasks, previewConfig, resizes,
       SizeTypeOK
<1>7. CASE PublishShutdown \/ Finished \/ UNCHANGED vars
  BY <1>7 DEF PublishShutdown, Finished, vars, topics, visualizerVars, clientTasks,
     previewConfig, resizes, SizeTypeOK
<1> QED
  BY <1>1, <1>2, <1>3, <1>4, <1>5, <1>6, <1>7 DEF Next, Pump

-----------------------------------------------------------------------------
(* The stream of packets *)

(* A delta belongs to the group that is open, any other packet to the next;  *)
(* a keyframe within a session begins its group without an EndOfStream.      *)
Publication(p) ==
  /\ PublishPacket(p, IF p.kind = "Key" /\ session = "coding" THEN {p.group} ELSE {})
  /\ IF p.kind = "Delta" THEN session = "coding" /\ p.group = group ELSE p.group = NextGroup
  /\ group' = p.group
  /\ session' = IF p.kind = "EndOfStream" THEN "none" ELSE "coding"
  /\ UNCHANGED <<listening, viz, gate>>

(* A session that ends without EndOfStream. *)
FailedFinish ==
  /\ session' = "none" /\ group' = NextGroup
  /\ unannounced' = unannounced \cup {NextGroup}
  /\ UNCHANGED <<packetRing, keyLost, listening, viz, gate>>

(* Nothing is sent; a session may be opened that has no packet yet. *)
StreamRests ==
  /\ session' = session \/ (session # "coding" /\ session' # "coding")
  /\ UNCHANGED <<packetRing, group, keyLost, unannounced, listening, viz, gate>>

streamState == <<session, group, keyLost, unannounced>>

(* What the encoder sends, if it sends anything, is such a packet.           *)
LEMMA PublicationOf ==
  StreamTypeOK /\ Encode =>
    (\E p \in SentPacket : Publication(p)) \/ FailedFinish \/ StreamRests
<1> SUFFICES ASSUME StreamTypeOK, Encode
             PROVE  (\E p \in SentPacket : Publication(p)) \/ FailedFinish \/ StreamRests
  OBVIOUS
<1>1. /\ session \in {"none", "opened", "coding"} /\ group \in Nat \ {0}
      /\ NextGroup \in Nat \ {0} /\ dims \in Sizes /\ UNCHANGED <<viz, gate>>
  BY DEF StreamTypeOK, Encode, visualizerVars, NextGroup
<1>2. \A k \in PacketKind, n \in Nat \ {0} :
        Packet(k, n) \in SentPacket /\ Packet(k, n).kind = k /\ Packet(k, n).group = n
  BY <1>1 DEF Packet, SentPacket
<1>3. ASSUME FinishSession, UNCHANGED listening
      PROVE  (\E p \in SentPacket : Publication(p)) \/ FailedFinish \/ StreamRests
  <2>1. CASE session = "none"
    BY <1>1, <1>3, <2>1 DEF FinishSession, StreamRests
  <2>2. CASE session # "none" /\ PublishPacket(Packet("EndOfStream", NextGroup), {})
    <3>1. /\ Packet("EndOfStream", NextGroup) \in SentPacket
          /\ Packet("EndOfStream", NextGroup).kind = "EndOfStream"
          /\ Packet("EndOfStream", NextGroup).group = NextGroup
      BY <1>1, <1>2 DEF PacketKind
    <3>2. session' = "none" /\ group' = NextGroup
      BY <1>3, <2>2 DEF FinishSession
    <3>3. Publication(Packet("EndOfStream", NextGroup))
      BY <1>1, <1>3, <2>2, <3>1, <3>2 DEF Publication
    <3> QED
      BY <3>1, <3>3
  <2>3. CASE session # "none" /\ ~PublishPacket(Packet("EndOfStream", NextGroup), {})
    BY <1>1, <1>3, <2>3 DEF FinishSession, FailedFinish
  <2> QED
    BY <2>1, <2>2, <2>3
<1>4. CASE KeepSize
  BY <1>1, <1>4 DEF KeepSize, Drain, StreamRests
<1>5. CASE Resize
  BY <1>3, <1>5 DEF Resize, Drain
<1>6. CASE EncodeKeyframe
  <2>1. /\ Packet("Key", NextGroup) \in SentPacket /\ Packet("Key", NextGroup).kind = "Key"
        /\ Packet("Key", NextGroup).group = NextGroup
    BY <1>1, <1>2 DEF PacketKind
  <2>2. /\ session' = "coding" /\ group' = NextGroup /\ UNCHANGED listening
        /\ PublishPacket(Packet("Key", NextGroup), IF session = "coding" THEN {NextGroup} ELSE {})
    BY <1>6 DEF EncodeKeyframe, WithFrame
  <2>3. Publication(Packet("Key", NextGroup))
    BY <1>1, <2>1, <2>2 DEF Publication
  <2> QED
    BY <2>1, <2>3
<1>7. CASE EncodeDelta
  <2>1. /\ Packet("Delta", group) \in SentPacket /\ Packet("Delta", group).kind = "Delta"
        /\ Packet("Delta", group).group = group
    BY <1>1, <1>2 DEF PacketKind
  <2>2. /\ session = "coding" /\ session' = session /\ group' = group /\ UNCHANGED listening
        /\ PublishPacket(Packet("Delta", group), {})
    BY <1>7 DEF EncodeDelta, WithFrame
  <2>3. Publication(Packet("Delta", group))
    BY <1>1, <2>1, <2>2 DEF Publication
  <2> QED
    BY <2>1, <2>3
<1>8. CASE WithoutPacket
  BY <1>1, <1>8 DEF WithoutPacket, WithFrame, StreamRests
<1>9. CASE EncoderStops
  BY <1>3, <1>9 DEF EncoderStops
<1> QED
  BY <1>4, <1>5, <1>6, <1>7, <1>8, <1>9 DEF Encode, EncoderStep

(* What a step does to the stream: a publication, a session ended without    *)
(* one, a packet taken, the visualizer's start or end, or nothing.           *)
LEMMA StreamStep ==
  StreamTypeOK /\ [Next]_vars =>
    \/ \E p \in SentPacket : Publication(p)
    \/ FailedFinish
    \/ TakePacket /\ UNCHANGED streamState
    \/ Subscribe /\ UNCHANGED streamState
    \/ VisualizerExits /\ UNCHANGED streamState
    \/ StreamRests
<1> SUFFICES ASSUME StreamTypeOK, [Next]_vars
             PROVE  \/ \E p \in SentPacket : Publication(p)
                    \/ FailedFinish
                    \/ TakePacket /\ UNCHANGED streamState
                    \/ Subscribe /\ UNCHANGED streamState
                    \/ VisualizerExits /\ UNCHANGED streamState
                    \/ StreamRests
  OBVIOUS
<1>1. CASE Encode
  BY <1>1, PublicationOf
<1>2. CASE Browser
  <2>1. PICK c \in Client : Connect(c) \/ AskForSize(c) \/ Leave(c)
    BY <1>2 DEF Browser
  <2>2. StreamRests
    BY <1>2, <2>1 DEF Browser, encoderVars, Connect, AskForSize, Leave, untouched, topics, StreamRests
  <2> QED
    BY <2>2
<1>3. ASSUME NEW c \in Client, Tasks(c) PROVE StreamRests
  BY <1>3 DEF Tasks, encoderVars, TaskStep, SwapWidth, SwapHeight, SetBounds, Forward,
     ResetBounds, untouched, topics, StreamRests
<1>4. CASE Pump
  <2>1. UNCHANGED streamState
    BY <1>4 DEF Pump, encoderVars, streamState
  <2>2. CASE ForwardResize
    BY <2>1, <2>2 DEF ForwardResize, StreamRests, streamState
  <2> QED
    BY <1>4, <2>1, <2>2 DEF Pump
<1>5. CASE PublishShutdown \/ Finished \/ UNCHANGED vars
  <2>1. StreamRests
    BY <1>5 DEF PublishShutdown, Finished, vars, topics, visualizerVars, encoderVars, StreamRests
  <2> QED
    BY <2>1
<1> QED
  BY <1>1, <1>2, <1>3, <1>4, <1>5 DEF Next

(* The encoder's own variables keep their types.                             *)
LEMMA EncoderTypes ==
  SizeTypeOK /\ StreamTypeOK /\ Encode =>
    /\ viz' \in {"starting", "running", "exited"} /\ enc' \in EncPlace
    /\ session' \in {"none", "opened", "coding"} /\ group' \in Nat \ {0} /\ dims' \in Sizes
<1> SUFFICES ASSUME SizeTypeOK, StreamTypeOK, Encode
             PROVE  /\ viz' \in {"starting", "running", "exited"} /\ enc' \in EncPlace
                    /\ session' \in {"none", "opened", "coding"} /\ group' \in Nat \ {0}
                    /\ dims' \in Sizes
  OBVIOUS
<1>1. /\ viz' \in {"starting", "running", "exited"} /\ group \in Nat \ {0}
      /\ session \in {"none", "opened", "coding"} /\ NextGroup \in Nat \ {0}
      /\ dims \in Sizes /\ AfterDrain \in EncPlace
  BY DEF StreamTypeOK, Encode, visualizerVars, AfterDrain, EncPlace, NextGroup
<1>2. FinishSession => session' \in {session, "none"} /\ group' \in {group, NextGroup}
  BY DEF FinishSession
<1>3. CASE KeepSize
  BY <1>1, <1>3 DEF KeepSize, Drain
<1>4. CASE Resize
  <2>1. PICK i \in Pending : dims' = sizeRing[i]
    BY <1>4 DEF Resize
  <2>2. sizeRing \in Seq(Asked) /\ i \in 1 .. Len(sizeRing)
    BY DEF SizeTypeOK, Pending
  <2>3. dims' \in Sizes
    BY <2>1, <2>2, ElementOfSeq DEF Sizes
  <2> QED
    BY <1>1, <1>2, <1>4, <2>3 DEF Resize, Drain
<1>5. CASE EncodeKeyframe
  BY <1>1, <1>5 DEF EncodeKeyframe, WithFrame, EncPlace
<1>6. CASE EncodeDelta \/ WithoutPacket
  BY <1>1, <1>6 DEF EncodeDelta, WithoutPacket, WithFrame, EncPlace
<1>7. CASE EncoderStops
  BY <1>1, <1>2, <1>7 DEF EncoderStops, EncPlace
<1> QED
  BY <1>3, <1>4, <1>5, <1>6, <1>7 DEF Encode, EncoderStep

(* Types of the stream, in every step.                                       *)
LEMMA StreamTypes == SizeTypeOK /\ StreamTypeOK /\ [Next]_vars => StreamTypeOK'
<1> SUFFICES ASSUME SizeTypeOK, StreamTypeOK, [Next]_vars PROVE StreamTypeOK'
  OBVIOUS
<1>1. /\ viz' \in {"starting", "running", "exited"} /\ enc' \in EncPlace
      /\ session' \in {"none", "opened", "coding"} /\ group' \in Nat \ {0} /\ dims' \in Sizes
  <2>1. CASE Encode
    BY <2>1, EncoderTypes
  <2>2. CASE UNCHANGED <<enc, session, group, dims>> /\ (viz' = viz \/ viz' \in {"running", "exited"})
    BY <2>2 DEF StreamTypeOK
  <2>3. CASE Browser
    <3>1. PICK c \in Client : Connect(c) \/ AskForSize(c) \/ Leave(c)
      BY <2>3 DEF Browser
    <3>2. UNCHANGED viz
      BY <3>1 DEF Connect, AskForSize, Leave, untouched
    <3> QED
      BY <2>2, <2>3, <3>2 DEF Browser, encoderVars
  <2>4. ASSUME NEW c \in Client, Tasks(c) PROVE UNCHANGED <<enc, session, group, dims, viz>>
    BY <2>4 DEF Tasks, encoderVars, TaskStep, SwapWidth, SwapHeight, SetBounds, Forward,
       ResetBounds, untouched
  <2>5. CASE Pump
    <3>1. viz' = viz \/ viz' \in {"running", "exited"}
      BY <2>5 DEF Pump, Subscribe, ForwardResize, TakePacket, TakeEndOfStream, SkipDelta,
         BroadcastPacket, Take, VisualizerExits
    <3> QED
      BY <2>2, <2>5, <3>1 DEF Pump, encoderVars
  <2>6. CASE PublishShutdown \/ Finished \/ UNCHANGED vars
    <3>1. UNCHANGED <<enc, session, group, dims, viz>>
      BY <2>6 DEF PublishShutdown, Finished, vars, visualizerVars, encoderVars
    <3> QED
      BY <2>2, <3>1
  <2> QED
    BY <2>1, <2>2, <2>3, <2>4, <2>5, <2>6 DEF Next
<1>2. packetRing \in Seq(SentPacket) /\ Len(packetRing) <= PacketDepth
      /\ PacketDepth \in Nat \ {0}
  BY TopicsAssumption DEF StreamTypeOK
<1>3. packetRing' \in Seq(SentPacket) /\ Len(packetRing') <= PacketDepth
  <2>1. ASSUME NEW p \in SentPacket, Publication(p)
        PROVE  packetRing' \in Seq(SentPacket) /\ Len(packetRing') <= PacketDepth
    <3>1. /\ RingSend(packetRing, p, PacketDepth) \in Seq(SentPacket)
          /\ Len(RingSend(packetRing, p, PacketDepth)) \in 1 .. PacketDepth
      BY <1>2, RingSendType
    <3>2. packetRing' \in {packetRing, RingSend(packetRing, p, PacketDepth)}
      BY <2>1 DEF Publication, PublishPacket
    <3> QED
      BY <1>2, <3>1, <3>2
  <2>2. CASE TakePacket
    <3>1. packetRing # <<>> /\ packetRing' = Tail(packetRing)
      BY <2>2 DEF TakePacket, TakeEndOfStream, SkipDelta, BroadcastPacket, Take
    <3>2. Tail(packetRing) \in Seq(SentPacket) /\ Len(Tail(packetRing)) = Len(packetRing) - 1
      BY <1>2, <3>1, HeadTailProperties
    <3> QED
      BY <1>2, <3>1, <3>2
  <2>3. CASE Subscribe \/ VisualizerExits \/ UNCHANGED packetRing
    <3>1. packetRing' = packetRing \/ packetRing' = <<>>
      BY <2>3 DEF Subscribe, VisualizerExits
    <3>2. <<>> \in Seq(SentPacket) /\ Len(<<>>) = 0
      BY EmptySeq
    <3>3. CASE packetRing' = packetRing
      BY <1>2, <3>3
    <3>4. CASE packetRing' = <<>>
      <4>1. Len(packetRing') = 0 /\ packetRing' \in Seq(SentPacket)
        BY <3>2, <3>4
      <4> QED
        BY <1>2, <4>1
    <3> QED
      BY <3>1, <3>3, <3>4
  <2>4. \/ \E p \in SentPacket : Publication(p)
        \/ TakePacket \/ Subscribe \/ VisualizerExits \/ UNCHANGED packetRing
    <3>1. \/ \E p \in SentPacket : Publication(p)
          \/ FailedFinish
          \/ TakePacket /\ UNCHANGED streamState
          \/ Subscribe /\ UNCHANGED streamState
          \/ VisualizerExits /\ UNCHANGED streamState
          \/ StreamRests
      BY StreamStep
    <3> QED
      BY <3>1 DEF FailedFinish, StreamRests
  <2> QED
    BY <2>1, <2>2, <2>3, <2>4
<1> QED
  BY <1>1, <1>3 DEF StreamTypeOK

-----------------------------------------------------------------------------
(* The order of the packets *)

(* The visualizer's ring exists while its loop runs, which begins without a  *)
(* keyframe.                                                                 *)
PreviewLife ==
  /\ listening <=> viz = "running"
  /\ ~listening => packetRing = <<>>
  /\ viz = "starting" => ~seen_keyframe

(* What may come right after a packet: deltas continue the group, its end    *)
(* begins the next, and a keyframe without an end before it is one of the    *)
(* groups that nothing announced, those in silent.                           *)
Follows(p, next, silent) ==
  /\ next.kind = "Delta" => p.kind # "EndOfStream" /\ next.group = p.group
  /\ next.kind = "Key" /\ p.kind = "EndOfStream" => next.group = p.group
  /\ next.kind = "Key" /\ p.kind # "EndOfStream" => next.group \in silent

GroupsFollow ==
  \A i \in 1 .. Len(packetRing) - 1 : Follows(packetRing[i], packetRing[i + 1], unannounced)

(* The newest packet is of the group that is open, or announces the next one *)
(* if anything does.                                                         *)
NewestIsOpen ==
  packetRing # <<>> =>
    LET p == packetRing[Len(packetRing)]
    IN  /\ session = "coding" => p.kind # "EndOfStream" /\ p.group = group
        /\ session # "coding" /\ p.kind = "EndOfStream" => p.group = group
        /\ session # "coding" /\ p.kind # "EndOfStream" => group \in unannounced

(* An open gate fits the packet that is read next, and with nothing to read  *)
(* the packet that is sent next.                                             *)
Fits(kind, g) ==
  /\ kind = "Delta" => g = keyed \/ (g \in keyLost /\ g \in unannounced)
  /\ kind = "Key" => g \in unannounced
GateFits ==
  listening /\ seen_keyframe =>
    /\ packetRing = <<>> => Fits(IF session = "coding" THEN "Delta" ELSE "Key", group)
    /\ packetRing # <<>> => Fits(packetRing[1].kind, packetRing[1].group)

StreamInv == PreviewLife /\ GroupsFollow /\ NewestIsOpen /\ GateFits

(* The ring after a publication: its pairs of neighbours are pairs of the    *)
(* ring before, or its last packet and the new one.                          *)
LEMMA RingSendPairs ==
  ASSUME NEW S, NEW q \in Seq(S), NEW m \in S, NEW d \in Nat \ {0}, Len(q) <= d
  PROVE  LET r == RingSend(q, m, d)
         IN  /\ \A i \in 1 .. Len(r) - 1 :
                  \/ q # <<>> /\ r[i] = q[Len(q)] /\ r[i + 1] = m
                  \/ \E j \in 1 .. Len(q) - 1 : r[i] = q[j] /\ r[i + 1] = q[j + 1]
             /\ r # <<>> /\ r[Len(r)] = m
<1> DEFINE r == RingSend(q, m, d)
<1> DEFINE n == Len(q)
<1>1. n \in Nat /\ n <= d /\ n = Len(q) /\ (q = <<>> <=> n = 0)
  BY EmptySeq
<1> HIDE DEF n
<1>2. CASE n < d
  <2>1. r = Append(q, m)
    BY <1>1, <1>2 DEF RingSend
  <2>2. /\ Len(r) = n + 1 /\ r # <<>> /\ r[n + 1] = m /\ \A i \in 1 .. n : r[i] = q[i]
    BY <1>1, <2>1, AppendProperties
  <2> HIDE DEF r
  <2>3. ASSUME NEW i \in 1 .. Len(r) - 1
        PROVE  \/ q # <<>> /\ r[i] = q[Len(q)] /\ r[i + 1] = m
               \/ \E j \in 1 .. Len(q) - 1 : r[i] = q[j] /\ r[i + 1] = q[j + 1]
    <3>1. i \in 1 .. n /\ r[i] = q[i]
      BY <1>1, <2>2
    <3>2. q # <<>>
      BY <1>1, <3>1
    <3>3. CASE i = n
      BY <1>1, <2>2, <3>1, <3>2, <3>3
    <3>4. CASE i # n
      <4>1. i \in 1 .. n - 1 /\ i + 1 \in 1 .. n
        BY <1>1, <3>1, <3>4
      <4>2. r[i + 1] = q[i + 1]
        BY <2>2, <4>1
      <4> QED
        BY <1>1, <3>1, <4>1, <4>2
    <3> QED
      BY <3>3, <3>4
  <2> QED
    BY <1>1, <2>2, <2>3 DEF r
<1>3. CASE ~(n < d)
  <2>1. r = Append(Tail(q), m)
    BY <1>1, <1>3 DEF RingSend
  <2>2. n = d /\ q # <<>>
    BY <1>1, <1>3
  <2>3. /\ Tail(q) \in Seq(S) /\ Len(Tail(q)) = n - 1
        /\ \A i \in 1 .. n - 1 : Tail(q)[i] = q[i + 1]
    BY <1>1, <2>2, HeadTailProperties
  <2>4. /\ Len(r) = n /\ r # <<>> /\ r[n] = m /\ \A i \in 1 .. n - 1 : r[i] = q[i + 1]
    <3>1. /\ Len(r) = Len(Tail(q)) + 1 /\ r # <<>> /\ r[Len(Tail(q)) + 1] = m
          /\ \A i \in 1 .. Len(Tail(q)) : r[i] = Tail(q)[i]
      BY <2>1, <2>3, AppendProperties
    <3> QED
      BY <1>1, <2>3, <3>1
  <2> HIDE DEF r
  <2>5. ASSUME NEW i \in 1 .. Len(r) - 1
        PROVE  \/ q # <<>> /\ r[i] = q[Len(q)] /\ r[i + 1] = m
               \/ \E j \in 1 .. Len(q) - 1 : r[i] = q[j] /\ r[i + 1] = q[j + 1]
    <3>1. i \in 1 .. n - 1 /\ r[i] = q[i + 1]
      BY <1>1, <2>4
    <3>2. Len(r) = n
      BY <2>4
    <3>3. CASE i + 1 = n
      BY <1>1, <2>2, <2>4, <3>1, <3>2, <3>3
    <3>4. CASE i + 1 # n
      <4>1. i + 1 \in 1 .. n - 1
        BY <1>1, <3>1, <3>4
      <4>2. r[i + 1] = q[(i + 1) + 1]
        BY <2>4, <4>1
      <4> QED
        BY <1>1, <3>1, <4>1, <4>2
    <3> QED
      BY <3>3, <3>4
  <2> QED
    BY <1>1, <2>4, <2>5 DEF r
<1> QED
  BY <1>2, <1>3

(* The oldest packet after a publication.                                    *)
LEMMA RingSendFirst ==
  ASSUME NEW S, NEW q \in Seq(S), NEW m \in S, NEW d \in Nat \ {0}, Len(q) <= d
  PROVE  \/ q = <<>> /\ RingSend(q, m, d)[1] = m
         \/ q # <<>> /\ Len(q) < d /\ RingSend(q, m, d)[1] = q[1]
         \/ q # <<>> /\ Len(q) = d /\ Len(q) = 1 /\ RingSend(q, m, d)[1] = m
         \/ q # <<>> /\ Len(q) = d /\ Len(q) > 1 /\ RingSend(q, m, d)[1] = q[2]
<1> DEFINE n == Len(q)
<1>1. n \in Nat /\ (q = <<>> => n = 0) /\ (q # <<>> => n >= 1)
  BY EmptySeq
<1>2. CASE n < d
  <2>1. RingSend(q, m, d) = Append(q, m)
    BY <1>2 DEF RingSend
  <2>2. Append(q, m)[n + 1] = m /\ \A i \in 1 .. n : Append(q, m)[i] = q[i]
    BY AppendProperties
  <2> QED
    BY <1>1, <1>2, <2>1, <2>2
<1>3. CASE ~(n < d)
  <2>1. n = d /\ q # <<>> /\ RingSend(q, m, d) = Append(Tail(q), m)
    BY <1>1, <1>3 DEF RingSend
  <2>2. /\ Tail(q) \in Seq(S) /\ Len(Tail(q)) = n - 1
        /\ \A i \in 1 .. n - 1 : Tail(q)[i] = q[i + 1]
    BY <2>1, HeadTailProperties
  <2>3. Append(Tail(q), m)[(n - 1) + 1] = m
        /\ \A i \in 1 .. n - 1 : Append(Tail(q), m)[i] = Tail(q)[i]
    BY <2>2, AppendProperties
  <2>4. CASE n = 1
    BY <2>1, <2>3, <2>4
  <2>5. CASE n # 1
    <3>1. 1 \in 1 .. n - 1 /\ n > 1
      BY <1>1, <2>1, <2>5
    <3> QED
      BY <2>1, <2>2, <2>3, <3>1
  <2> QED
    BY <2>4, <2>5
<1> QED
  BY <1>2, <1>3

(* The visualizer's life, in every step.                                     *)
LEMMA PreviewLifeStep == StreamTypeOK /\ [Next]_vars /\ PreviewLife => PreviewLife'
<1> SUFFICES ASSUME StreamTypeOK, [Next]_vars, PreviewLife PROVE PreviewLife'
  OBVIOUS
<1>1. ASSUME NEW p \in SentPacket, Publication(p) PROVE PreviewLife'
  BY <1>1 DEF Publication, PublishPacket, PreviewLife, gate
<1>2. CASE TakePacket
  <2>1. viz = "running" /\ UNCHANGED <<viz, listening>>
    BY <1>2 DEF TakePacket, TakeEndOfStream, SkipDelta, BroadcastPacket, Take
  <2> QED
    BY <2>1 DEF PreviewLife
<1>3. CASE Subscribe
  BY <1>3 DEF Subscribe, PreviewLife
<1>4. CASE VisualizerExits
  BY <1>4 DEF VisualizerExits, PreviewLife
<1>5. CASE FailedFinish \/ StreamRests
  BY <1>5 DEF FailedFinish, StreamRests, PreviewLife, gate
<1> QED
  BY <1>1, <1>2, <1>3, <1>4, <1>5, StreamStep

(* A publication records what the ring loses by it, and nothing is forgotten. *)
LEMMA PublicationRecords ==
  ASSUME NEW p, Publication(p)
  PROVE  /\ keyLost \subseteq keyLost' /\ unannounced \subseteq unannounced'
         /\ p.kind = "Key" /\ session = "coding" => p.group \in unannounced'
         /\ listening /\ Len(packetRing) = PacketDepth =>
              /\ Head(packetRing).kind = "Key" => Head(packetRing).group \in keyLost'
              /\ Head(packetRing).kind = "EndOfStream" => Head(packetRing).group \in unannounced'
BY DEF Publication, PublishPacket, LostGroups, Overwritten

(* What a publication adds follows the newest packet.                        *)
LEMMA PublicationFollows ==
  ASSUME StreamTypeOK, PreviewLife, GroupsFollow, NewestIsOpen,
         NEW p \in SentPacket, Publication(p)
  PROVE  GroupsFollow' /\ NewestIsOpen'
<1>1. /\ packetRing \in Seq(SentPacket) /\ Len(packetRing) <= PacketDepth
      /\ PacketDepth \in Nat \ {0} /\ p.group \in Nat \ {0}
  BY TopicsAssumption DEF StreamTypeOK, SentPacket
<1>2. CASE ~listening
  <2>1. packetRing' = packetRing /\ packetRing = <<>>
    BY <1>2 DEF Publication, PublishPacket, PreviewLife
  <2> QED
    BY <2>1, EmptySeq DEF GroupsFollow, NewestIsOpen
<1>3. CASE listening
  <2>1. packetRing' = RingSend(packetRing, p, PacketDepth)
    BY <1>3 DEF Publication, PublishPacket
  <2>2. /\ \A i \in 1 .. Len(packetRing') - 1 :
             \/ /\ packetRing # <<>> /\ packetRing'[i] = packetRing[Len(packetRing)]
                /\ packetRing'[i + 1] = p
             \/ \E j \in 1 .. Len(packetRing) - 1 :
                  packetRing'[i] = packetRing[j] /\ packetRing'[i + 1] = packetRing[j + 1]
        /\ packetRing' # <<>> /\ packetRing'[Len(packetRing')] = p
    BY <1>1, <2>1, RingSendPairs
  <2>3. unannounced \subseteq unannounced'
        /\ (p.kind = "Key" /\ session = "coding" => p.group \in unannounced')
    BY PublicationRecords
  <2>4. packetRing # <<>> => Follows(packetRing[Len(packetRing)], p, unannounced')
    <3>1. SUFFICES ASSUME packetRing # <<>>, NEW last, last = packetRing[Len(packetRing)]
                   PROVE  /\ p.kind = "Delta" => last.kind # "EndOfStream" /\ p.group = last.group
                          /\ p.kind = "Key" /\ last.kind = "EndOfStream" => p.group = last.group
                          /\ p.kind = "Key" /\ last.kind # "EndOfStream" => p.group \in unannounced'
      BY DEF Follows
    <3>2. CASE session = "coding"
      <4>1. last.kind # "EndOfStream" /\ last.group = group
        BY <3>1, <3>2 DEF NewestIsOpen
      <4> QED
        BY <2>3, <3>2, <4>1 DEF Publication
    <3>3. CASE session # "coding"
      <4>1. /\ last.kind = "EndOfStream" => last.group = group
            /\ last.kind # "EndOfStream" => group \in unannounced
        BY <3>1, <3>3 DEF NewestIsOpen
      <4>2. p.kind # "Delta" /\ p.group = group
        BY <3>3 DEF Publication, NextGroup
      <4> QED
        BY <2>3, <4>1, <4>2
    <3> QED
      BY <3>2, <3>3
  <2>5. GroupsFollow'
    <3>1. ASSUME NEW i \in 1 .. Len(packetRing') - 1
          PROVE  Follows(packetRing'[i], packetRing'[i + 1], unannounced')
      <4>1. CASE /\ packetRing # <<>> /\ packetRing'[i] = packetRing[Len(packetRing)]
                 /\ packetRing'[i + 1] = p
        BY <2>4, <4>1 DEF Follows
      <4>2. ASSUME NEW j \in 1 .. Len(packetRing) - 1,
                   packetRing'[i] = packetRing[j], packetRing'[i + 1] = packetRing[j + 1]
            PROVE  Follows(packetRing'[i], packetRing'[i + 1], unannounced')
        <5>1. Follows(packetRing[j], packetRing[j + 1], unannounced)
          BY DEF GroupsFollow
        <5> QED
          BY <2>3, <4>2, <5>1 DEF Follows
      <4> QED
        BY <2>2, <4>1, <4>2
    <3> QED
      BY <3>1 DEF GroupsFollow
  <2>6. NewestIsOpen'
    <3>1. /\ session' = "coding" => p.kind # "EndOfStream" /\ p.group = group'
          /\ session' # "coding" => p.kind = "EndOfStream" /\ p.group = group'
      BY DEF Publication
    <3> QED
      BY <2>2, <3>1 DEF NewestIsOpen
  <2> QED
    BY <2>5, <2>6
<1> QED
  BY <1>2, <1>3

(* The packets' order when a session ends without EndOfStream.               *)
LEMMA FailedFinishFollows ==
  ASSUME GroupsFollow, NewestIsOpen, FailedFinish
  PROVE  GroupsFollow' /\ NewestIsOpen'
<1>1. /\ packetRing' = packetRing /\ unannounced \subseteq unannounced'
      /\ session' = "none" /\ group' = NextGroup /\ NextGroup \in unannounced'
  BY DEF FailedFinish
<1>2. GroupsFollow'
  BY <1>1 DEF GroupsFollow, Follows
<1>3. NewestIsOpen'
  <2>1. SUFFICES ASSUME packetRing # <<>>, NEW p, p = packetRing[Len(packetRing)],
                        p.kind = "EndOfStream"
                 PROVE  p.group = NextGroup
    BY <1>1 DEF NewestIsOpen
  <2> QED
    BY <2>1 DEF NewestIsOpen, NextGroup
<1> QED
  BY <1>2, <1>3

(* The packets' order, in every step.                                        *)
LEMMA FollowStep ==
  StreamTypeOK /\ PreviewLife /\ GroupsFollow /\ NewestIsOpen /\ [Next]_vars
    => GroupsFollow' /\ NewestIsOpen'
<1> SUFFICES ASSUME StreamTypeOK, PreviewLife, GroupsFollow, NewestIsOpen, [Next]_vars
             PROVE  GroupsFollow' /\ NewestIsOpen'
  OBVIOUS
<1>1. ASSUME NEW p \in SentPacket, Publication(p) PROVE GroupsFollow' /\ NewestIsOpen'
  BY <1>1, PublicationFollows
<1>2. CASE TakePacket /\ UNCHANGED streamState
  <2>1. packetRing # <<>> /\ packetRing' = Tail(packetRing) /\ packetRing \in Seq(SentPacket)
    BY <1>2 DEF TakePacket, TakeEndOfStream, SkipDelta, BroadcastPacket, Take, StreamTypeOK
  <2> DEFINE n == Len(packetRing)
  <2>2. /\ n \in Nat \ {0} /\ Len(packetRing') = n - 1
        /\ \A i \in 1 .. n - 1 : packetRing'[i] = packetRing[i + 1]
    BY <2>1, EmptySeq, HeadTailProperties
  <2>3. GroupsFollow'
    <3>1. \A i \in 1 .. n - 1 : Follows(packetRing[i], packetRing[i + 1], unannounced)
      BY DEF GroupsFollow
    <3> HIDE DEF n
    <3>2. ASSUME NEW i \in 1 .. Len(packetRing') - 1
          PROVE  Follows(packetRing'[i], packetRing'[i + 1], unannounced')
      <4>1. i \in 1 .. n - 1 /\ i + 1 \in 1 .. n - 1
        BY <2>2
      <4>2. packetRing'[i] = packetRing[i + 1] /\ packetRing'[i + 1] = packetRing[(i + 1) + 1]
        BY <2>2, <4>1
      <4>3. Follows(packetRing[i + 1], packetRing[(i + 1) + 1], unannounced)
        BY <3>1, <4>1
      <4> QED
        BY <1>2, <4>2, <4>3 DEF Follows, streamState
    <3> QED
      BY <3>2 DEF GroupsFollow
  <2>4. NewestIsOpen'
    <3>1. SUFFICES ASSUME packetRing' # <<>>
                   PROVE  packetRing'[Len(packetRing')] = packetRing[n]
      BY <1>2, <2>1 DEF NewestIsOpen, streamState
    <3>2. packetRing' \in Seq(SentPacket)
      BY <2>1, HeadTailProperties
    <3>3. Len(packetRing') # 0
      BY <3>1, <3>2, EmptySeq
    <3> HIDE DEF n
    <3>4. n - 1 \in 1 .. n - 1 /\ (n - 1) + 1 = n
      BY <2>2, <3>3
    <3> QED
      BY <2>2, <3>4
  <2> QED
    BY <2>3, <2>4
<1>3. CASE Subscribe /\ UNCHANGED streamState
  <2>1. UNCHANGED <<packetRing, session, group, unannounced>>
    BY <1>3 DEF Subscribe, streamState
  <2> QED
    BY <2>1 DEF GroupsFollow, Follows, NewestIsOpen
<1>4. CASE VisualizerExits
  <2>1. packetRing' = <<>> /\ Len(<<>>) = 0
    BY <1>4, EmptySeq DEF VisualizerExits
  <2>2. 1 .. Len(packetRing') - 1 = {}
    BY <2>1
  <2> QED
    BY <2>1, <2>2 DEF GroupsFollow, NewestIsOpen
<1>5. CASE FailedFinish
  BY <1>5, FailedFinishFollows
<1>6. CASE StreamRests
  <2>1. GroupsFollow'
    BY <1>6 DEF StreamRests, GroupsFollow, Follows
  <2>2. NewestIsOpen'
    BY <1>6 DEF StreamRests, NewestIsOpen
  <2> QED
    BY <2>1, <2>2
<1> QED
  BY <1>1, <1>2, <1>3, <1>4, <1>5, <1>6, StreamStep

(* The gate when the encoder sends a packet.                                 *)
LEMMA GatePublication ==
  ASSUME StreamTypeOK, PreviewLife, GroupsFollow, NewestIsOpen, GateFits,
         NEW p \in SentPacket, Publication(p)
  PROVE  GateFits'
<1> SUFFICES ASSUME listening', seen_keyframe'
             PROVE  /\ packetRing' # <<>>
                    /\ Fits(packetRing[1].kind, packetRing[1].group)'
  BY DEF GateFits
<1> DEFINE n == Len(packetRing)
<1>1. /\ packetRing \in Seq(SentPacket) /\ n <= PacketDepth
      /\ PacketDepth \in Nat \ {0} /\ p.group \in Nat \ {0} /\ p.kind \in PacketKind
  BY TopicsAssumption DEF StreamTypeOK, SentPacket
<1>2. /\ listening /\ seen_keyframe /\ keyed' = keyed
      /\ packetRing' = RingSend(packetRing, p, PacketDepth)
  BY DEF Publication, PublishPacket, gate
<1>3. /\ keyLost \subseteq keyLost' /\ unannounced \subseteq unannounced'
      /\ p.kind = "Key" /\ session = "coding" => p.group \in unannounced'
      /\ n = PacketDepth =>
           /\ Head(packetRing).kind = "Key" => Head(packetRing).group \in keyLost'
           /\ Head(packetRing).kind = "EndOfStream" => Head(packetRing).group \in unannounced'
  BY <1>2, PublicationRecords
<1>4. /\ packetRing = <<>> => Fits(IF session = "coding" THEN "Delta" ELSE "Key", group)
      /\ packetRing # <<>> => Fits(packetRing[1].kind, packetRing[1].group)
  BY <1>2 DEF GateFits
<1>5. packetRing' # <<>>
  BY <1>1, <1>2, RingSendPairs
<1>6. GroupsFollow'
  BY PublicationFollows
<1>7. CASE packetRing = <<>> /\ packetRing'[1] = p
  <2>1. CASE session = "coding"
    <3>1. p.kind = "Delta" => p.group = group
      BY <2>1 DEF Publication
    <3> QED
      BY <1>2, <1>3, <1>4, <1>7, <2>1, <3>1, <1>5 DEF Fits
  <2>2. CASE session # "coding"
    <3>1. p.kind # "Delta" /\ p.group = group
      BY <2>2 DEF Publication, NextGroup
    <3> QED
      BY <1>2, <1>3, <1>4, <1>7, <2>2, <3>1, <1>5 DEF Fits
  <2> QED
    BY <2>1, <2>2
<1>8. CASE packetRing # <<>> /\ packetRing'[1] = packetRing[1]
  BY <1>2, <1>3, <1>4, <1>5, <1>8 DEF Fits
<1>9. ASSUME packetRing # <<>>, n = PacketDepth,
             packetRing'[1].kind = "Delta" =>
               packetRing[1].kind # "EndOfStream" /\ packetRing'[1].group = packetRing[1].group,
             packetRing'[1].kind = "Key" => packetRing'[1].group \in unannounced'
      PROVE  Fits(packetRing[1].kind, packetRing[1].group)'
  <2>1. n \in Nat \ {0} /\ Head(packetRing) = packetRing[1]
    BY <1>1, <1>9, EmptySeq
  <2> HIDE DEF n
  <2>2. packetRing[1] \in SentPacket
    BY <1>1, <2>1, ElementOfSeq DEF n
  <2>3. packetRing[1].kind \in {"Key", "Delta", "EndOfStream"}
    BY <2>2 DEF SentPacket, PacketKind
  <2>4. /\ Fits(packetRing[1].kind, packetRing[1].group)
        /\ packetRing[1].kind = "Key" => packetRing[1].group \in keyLost'
    BY <1>3, <1>4, <1>9, <2>1
  <2>5. ASSUME packetRing'[1].kind = "Delta"
        PROVE  \/ packetRing'[1].group = keyed'
               \/ packetRing'[1].group \in keyLost' /\ packetRing'[1].group \in unannounced'
    <3>1. /\ packetRing[1].kind \in {"Key", "Delta"}
          /\ packetRing'[1].group = packetRing[1].group
      BY <1>9, <2>3, <2>5
    <3> QED
      BY <1>2, <1>3, <2>4, <3>1 DEF Fits
  <2> QED
    BY <1>9, <2>5 DEF Fits
<1>10. CASE packetRing # <<>> /\ n = PacketDepth /\ n = 1 /\ packetRing'[1] = p
  <2>1. /\ session = "coding" => packetRing[1].kind # "EndOfStream" /\ packetRing[1].group = group
        /\ session # "coding" /\ packetRing[1].kind = "EndOfStream" => packetRing[1].group = group
        /\ session # "coding" /\ packetRing[1].kind # "EndOfStream" => group \in unannounced
    BY <1>10 DEF NewestIsOpen
  <2>2. p.kind = "Delta" => packetRing[1].kind # "EndOfStream" /\ p.group = packetRing[1].group
    BY <2>1 DEF Publication
  <2>3. p.kind = "Key" => p.group \in unannounced'
    <3>1. session # "coding" /\ p.kind = "Key" => p.group = group
      BY DEF Publication, NextGroup
    <3>2. Head(packetRing) = packetRing[1]
      BY <1>1, <1>10
    <3> QED
      BY <1>3, <1>10, <2>1, <3>1, <3>2
  <2> HIDE DEF n
  <2> QED
    BY <1>5, <1>9, <1>10, <2>2, <2>3
<1>11. CASE packetRing # <<>> /\ n = PacketDepth /\ n > 1 /\ packetRing'[1] = packetRing[2]
  <2>1. 1 \in 1 .. n - 1
    BY <1>1, <1>11
  <2>2. Follows(packetRing[1], packetRing[1 + 1], unannounced)
    BY <2>1 DEF GroupsFollow
  <2>3. Follows(packetRing[1], packetRing[2], unannounced) /\ Head(packetRing) = packetRing[1]
    BY <1>1, <1>11, <2>2
  <2>4. packetRing[1].kind = "EndOfStream" => packetRing[1].group \in unannounced'
    BY <1>3, <1>11, <2>3
  <2>5. /\ packetRing'[1].kind = "Delta" =>
             packetRing[1].kind # "EndOfStream" /\ packetRing'[1].group = packetRing[1].group
        /\ packetRing'[1].kind = "Key" => packetRing'[1].group \in unannounced'
    BY <1>3, <1>11, <2>3, <2>4 DEF Follows
  <2> HIDE DEF n
  <2> QED
    BY <1>5, <1>9, <1>11, <2>5
<1> QED
  BY <1>1, <1>2, <1>5, <1>7, <1>8, <1>10, <1>11, RingSendFirst

(* The gate when the visualizer broadcasts a packet.                         *)
LEMMA GateBroadcast ==
  ASSUME StreamTypeOK, PreviewLife, GroupsFollow, NewestIsOpen, GateFits,
         BroadcastPacket, UNCHANGED streamState
  PROVE  GateFits'
<1> DEFINE n == Len(packetRing)
           p == packetRing[1]
<1>1. /\ packetRing # <<>> /\ packetRing' = Tail(packetRing) /\ packetRing \in Seq(SentPacket)
      /\ viz = "running" /\ Head(packetRing) = p
  BY DEF BroadcastPacket, Take, StreamTypeOK
<1>2. /\ n \in Nat \ {0} /\ packetRing' \in Seq(SentPacket) /\ Len(packetRing') = n - 1
      /\ \A i \in 1 .. n - 1 : packetRing'[i] = packetRing[i + 1]
  BY <1>1, EmptySeq, HeadTailProperties
<1>3. /\ p.kind = "Key" \/ (p.kind = "Delta" /\ seen_keyframe)
      /\ keyed' = IF p.kind = "Key" THEN p.group ELSE keyed
      /\ UNCHANGED <<session, group, keyLost, unannounced>>
  BY <1>1 DEF BroadcastPacket, streamState
<1>4. p.kind # "EndOfStream"
      /\ (p.group = keyed' \/ (p.group \in keyLost' /\ p.group \in unannounced'))
  <2>1. CASE p.kind = "Key"
    BY <1>3, <2>1
  <2>2. CASE p.kind # "Key"
    <3>1. listening /\ seen_keyframe
      BY <1>1, <1>3, <2>2 DEF PreviewLife
    <3>2. Fits(p.kind, p.group)
      BY <1>1, <3>1 DEF GateFits
    <3> HIDE DEF p
    <3> QED
      BY <1>3, <2>2, <3>2 DEF Fits
  <2> QED
    BY <2>1, <2>2
<1>5. CASE n = 1
  <2>1. packetRing' = <<>>
    BY <1>2, <1>5, EmptySeq
  <2>2. /\ session = "coding" => p.group = group
        /\ session # "coding" => group \in unannounced
    BY <1>1, <1>4, <1>5 DEF NewestIsOpen
  <2> HIDE DEF p
  <2>3. Fits(IF session = "coding" THEN "Delta" ELSE "Key", group)'
    BY <1>3, <1>4, <2>2 DEF Fits
  <2> QED
    BY <2>1, <2>3 DEF GateFits
<1>6. CASE n # 1
  <2> HIDE DEF n
  <2>1. 1 \in 1 .. n - 1 /\ n - 1 # 0
    BY <1>2, <1>6
  <2>2. packetRing' # <<>>
    BY <1>2, <2>1, EmptySeq
  <2>3. Follows(p, packetRing[1 + 1], unannounced) /\ packetRing'[1] = packetRing[1 + 1]
    BY <1>2, <2>1 DEF GroupsFollow, n
  <2> HIDE DEF p
  <2>4. Fits(packetRing[1].kind, packetRing[1].group)'
    BY <1>3, <1>4, <2>3 DEF Follows, Fits
  <2> QED
    BY <2>2, <2>4 DEF GateFits
<1> QED
  BY <1>5, <1>6

(* The gate when a session ends without EndOfStream.                         *)
LEMMA GateFailedFinish == GateFits /\ FailedFinish => GateFits'
<1> SUFFICES ASSUME GateFits, FailedFinish PROVE GateFits'
  OBVIOUS
<1>1. /\ packetRing' = packetRing /\ listening' = listening /\ keyLost' = keyLost
      /\ unannounced \subseteq unannounced' /\ session' = "none" /\ group' \in unannounced'
      /\ UNCHANGED <<seen_keyframe, keyed>>
  BY DEF FailedFinish, gate
<1>2. Fits(IF session = "coding" THEN "Delta" ELSE "Key", group)'
  BY <1>1 DEF Fits
<1>3. Fits(packetRing[1].kind, packetRing[1].group) => Fits(packetRing[1].kind, packetRing[1].group)'
  BY <1>1 DEF Fits
<1> QED
  BY <1>1, <1>2, <1>3 DEF GateFits

(* The gate, in every step.                                                  *)
LEMMA GateStep == StreamTypeOK /\ StreamInv /\ [Next]_vars => GateFits'
<1> SUFFICES ASSUME StreamTypeOK, StreamInv, [Next]_vars PROVE GateFits'
  OBVIOUS
<1>1. PreviewLife /\ GroupsFollow /\ NewestIsOpen /\ GateFits
  BY DEF StreamInv
<1>2. ASSUME NEW p \in SentPacket, Publication(p) PROVE GateFits'
  BY <1>1, <1>2, GatePublication
<1>3. CASE TakePacket /\ UNCHANGED streamState
  <2>1. CASE BroadcastPacket
    BY <1>1, <1>3, <2>1, GateBroadcast
  <2>2. CASE TakeEndOfStream \/ SkipDelta
    <3>1. ~seen_keyframe'
      BY <2>2 DEF TakeEndOfStream, SkipDelta, gate
    <3> QED
      BY <3>1 DEF GateFits
  <2> QED
    BY <1>3, <2>1, <2>2 DEF TakePacket
<1>4. CASE Subscribe
  <2>1. ~seen_keyframe'
    BY <1>1, <1>4 DEF Subscribe, gate, PreviewLife
  <2> QED
    BY <2>1 DEF GateFits
<1>5. CASE VisualizerExits
  BY <1>5 DEF VisualizerExits, GateFits
<1>6. CASE FailedFinish
  BY <1>1, <1>6, GateFailedFinish
<1>7. CASE StreamRests
  BY <1>1, <1>7 DEF StreamRests, GateFits, gate, Fits
<1> QED
  BY <1>2, <1>3, <1>4, <1>5, <1>6, <1>7, StreamStep

(* A delta that an open gate lets through follows its keyframe, or the ring  *)
(* lost that keyframe and nothing had announced it.                          *)
LEMMA StreamInvImplies == StreamTypeOK /\ StreamInv => DecodableOrLost
<1> SUFFICES ASSUME StreamTypeOK, StreamInv, packetRing # <<>>, seen_keyframe,
                    Head(packetRing).kind = "Delta"
             PROVE  Head(packetRing).group \in {keyed} \cup (keyLost \cap unannounced)
  BY DEF DecodableOrLost
<1>1. Head(packetRing) = packetRing[1]
  BY DEF StreamTypeOK
<1>2. listening
  BY DEF StreamInv, PreviewLife
<1>3. Fits(Head(packetRing).kind, Head(packetRing).group)
  BY <1>1, <1>2 DEF StreamInv, GateFits
<1> QED
  BY <1>3 DEF Fits

-----------------------------------------------------------------------------
(* The number of clients *)

Served == {c \in Client : Counted(c)}

(* What client_connected and client_disconnected count.                      *)
CountInv == viz # "exited" => IsFiniteSet(Served) /\ connected_clients = Cardinality(Served)

(* A step of a client's task counts it on, off or not at all.                *)
LEMMA CountClient ==
  ASSUME SizeTypeOK, viz # "exited", CountInv, NEW c \in Client,
         Connect(c) \/ AskForSize(c) \/ Leave(c) \/ TaskStep(c)
  PROVE  CountInv'
<1>1. IsFiniteSet(Served) /\ connected_clients = Cardinality(Served)
      /\ Cardinality(Served) \in Nat
  BY FS_CardinalityType DEF CountInv
<1>2. client \in [Client -> ClientPlace]
  BY DEF SizeTypeOK
<1>3. CASE Connect(c)
  <2>1. /\ client[c] = "away" /\ client' = [client EXCEPT ![c] = "serving"]
        /\ connected_clients' = connected_clients + 1
    BY <1>3 DEF Connect, Goto
  <2>2. Served' = Served \cup {c} /\ c \notin Served
    BY <1>2, <2>1 DEF Served, Counted
  <2>3. IsFiniteSet(Served \cup {c}) /\ Cardinality(Served \cup {c}) = Cardinality(Served) + 1
    BY <1>1, <2>2, FS_AddElement
  <2> QED
    BY <1>1, <2>1, <2>2, <2>3 DEF CountInv
<1>4. CASE Leave(c)
  <2>1. /\ client[c] = "serving"
        /\ \E place \in {"leaving.width", "away"} : client' = [client EXCEPT ![c] = place]
        /\ connected_clients' = IF connected_clients = 0 THEN 0 ELSE connected_clients - 1
    BY <1>4 DEF Leave, Goto
  <2>2. Served' = Served \ {c} /\ c \in Served
    BY <1>2, <2>1 DEF Served, Counted
  <2>3. IsFiniteSet(Served \ {c}) /\ Cardinality(Served \ {c}) = Cardinality(Served) - 1
    BY <1>1, <2>2, FS_RemoveElement
  <2>4. Cardinality(Served) # 0
    BY <1>1, <2>2, FS_EmptySet
  <2> QED
    BY <1>1, <2>1, <2>2, <2>3, <2>4 DEF CountInv
<1>5. CASE AskForSize(c) \/ TaskStep(c)
  <2>1. UNCHANGED connected_clients
    BY <1>5 DEF AskForSize, TaskStep, SwapWidth, SwapHeight, SetBounds, Forward, ResetBounds,
       previewConfig
  <2>2. \E place \in ClientPlace :
          /\ client' = [client EXCEPT ![c] = place]
          /\ place \in {"serving", "width", "height", "bounds", "forward"}
               <=> client[c] \in {"serving", "width", "height", "bounds", "forward"}
    <3>1. CASE AskForSize(c)
      BY <3>1 DEF AskForSize, Goto, ClientPlace
    <3>2. CASE SwapWidth(c)
      BY <3>2 DEF SwapWidth, Goto, ClientPlace
    <3>3. CASE SwapHeight(c)
      BY <3>3 DEF SwapHeight, Goto, ClientPlace
    <3>4. CASE SetBounds(c)
      BY <3>4 DEF SetBounds, Goto, ClientPlace
    <3>5. CASE Forward(c)
      BY <3>5 DEF Forward, Goto, ClientPlace
    <3>6. CASE ResetBounds(c)
      BY <3>6 DEF ResetBounds, Goto, ClientPlace
    <3> QED
      BY <1>5, <3>1, <3>2, <3>3, <3>4, <3>5, <3>6 DEF TaskStep
  <2>3. Served' = Served
    BY <1>2, <2>2 DEF Served, Counted
  <2> QED
    BY <1>1, <2>1, <2>3 DEF CountInv
<1> QED
  BY <1>3, <1>4, <1>5

(* The count, in every step.                                                 *)
LEMMA CountStep == SizeTypeOK /\ CountInv /\ [Next]_vars => CountInv'
<1> SUFFICES ASSUME SizeTypeOK, CountInv, [Next]_vars, viz' # "exited" PROVE CountInv'
  BY DEF CountInv
<1>1. CASE Browser
  <2>1. PICK c \in Client : Connect(c) \/ AskForSize(c) \/ Leave(c)
    BY <1>1 DEF Browser
  <2>2. UNCHANGED viz
    BY <2>1 DEF Connect, AskForSize, Leave, untouched
  <2> QED
    BY <2>1, <2>2, CountClient
<1>2. ASSUME NEW c \in Client, Tasks(c) PROVE CountInv'
  <2>1. UNCHANGED viz
    BY <1>2 DEF Tasks, TaskStep, SwapWidth, SwapHeight, SetBounds, Forward, ResetBounds, untouched
  <2> QED
    BY <1>2, <2>1, CountClient DEF Tasks
<1>3. CASE viz # "exited" /\ UNCHANGED <<client, connected_clients>>
  BY <1>3 DEF CountInv, Served, Counted
<1>4. CASE Pump
  <2>1. CASE Subscribe \/ ForwardResize \/ TakePacket
    <3>1. viz # "exited" /\ UNCHANGED <<client, connected_clients>>
      BY <2>1 DEF Subscribe, ForwardResize, TakePacket, TakeEndOfStream, SkipDelta,
         BroadcastPacket, Take, tasksOnly, clientTasks, previewConfig
    <3> QED
      BY <1>3, <3>1
  <2>2. ~VisualizerExits
    BY DEF VisualizerExits
  <2> QED
    BY <1>4, <2>1, <2>2 DEF Pump
<1>5. CASE Encode \/ PublishShutdown \/ Finished \/ UNCHANGED vars
  <2>1. UNCHANGED <<viz, client, connected_clients>>
    BY <1>5 DEF Encode, PublishShutdown, Finished, vars, visualizerVars, clientTasks,
       previewConfig
  <2> QED
    BY <1>3, <2>1
<1> QED
  BY <1>1, <1>2, <1>4, <1>5 DEF Next

-----------------------------------------------------------------------------
(* The preview *)

PreviewInv == SizeTypeOK /\ StreamTypeOK /\ StreamInv /\ CountInv

(* Every state the preview can be in satisfies the inductive invariant.      *)
LEMMA PreviewInvariance == Spec => []PreviewInv
<1>1. Init => PreviewInv
  <2> SUFFICES ASSUME Init PROVE PreviewInv
    OBVIOUS
  <2>1. TopicsInit /\ VisualizerInit /\ EncoderInit
    BY DEF Init
  <2>2. SizeTypeOK
    <3>1. DefaultSize \in Asked /\ <<>> \in Seq(Asked) /\ Len(<<>>) = 0
      BY AskedValid, EmptySeq
    <3>2. sizeRing \in Seq(Asked) /\ Len(sizeRing) <= Depth /\ resize_rx \in Seq(Asked)
      BY <2>1, <3>1, TopicsAssumption DEF TopicsInit, VisualizerInit
    <3> QED
      BY <2>1, <3>1, <3>2 DEF VisualizerInit, SizeTypeOK, ClientPlace
  <2>3. StreamTypeOK
    <3>1. packetRing = <<>> /\ <<>> \in Seq(SentPacket) /\ Len(<<>>) = 0
      BY <2>1, EmptySeq DEF TopicsInit
    <3>2. packetRing \in Seq(SentPacket) /\ Len(packetRing) <= PacketDepth
      BY <3>1, TopicsAssumption
    <3> QED
      BY <2>1, <3>2 DEF VisualizerInit, EncoderInit, StreamTypeOK, EncPlace, Sizes
  <2>4. StreamInv
    <3>1. packetRing = <<>> /\ Len(<<>>) = 0 /\ ~listening /\ viz = "starting" /\ ~seen_keyframe
      BY <2>1, EmptySeq DEF TopicsInit, VisualizerInit
    <3>2. 1 .. Len(packetRing) - 1 = {}
      BY <3>1
    <3> QED
      BY <3>1, <3>2 DEF StreamInv, PreviewLife, GroupsFollow, NewestIsOpen, GateFits
  <2>5. CountInv
    <3>1. Served = {} /\ connected_clients = 0
      BY <2>1 DEF VisualizerInit, Served, Counted
    <3> QED
      BY <3>1, FS_EmptySet DEF CountInv
  <2> QED
    BY <2>2, <2>3, <2>4, <2>5 DEF PreviewInv
<1>2. PreviewInv /\ [Next]_vars => PreviewInv'
  <2> SUFFICES ASSUME PreviewInv, [Next]_vars PROVE PreviewInv'
    OBVIOUS
  <2>1. SizeTypeOK' /\ StreamTypeOK' /\ CountInv'
    BY SizeTypes, StreamTypes, CountStep DEF PreviewInv
  <2>2. StreamInv'
    BY PreviewLifeStep, FollowStep, GateStep DEF PreviewInv, StreamInv
  <2> QED
    BY <2>1, <2>2 DEF PreviewInv
<1> QED
  BY <1>1, <1>2, PTL DEF Spec

(* Sizes stay sound (handle_client, RuntimePreviewConfig, run of the preview *)
(* encoder): however many clients ask, leave and interleave between the two  *)
(* swaps of set_requested_size, what reaches the encoder is one of the sizes *)
(* asked for, whole and valid, and the clients are counted.                  *)
THEOREM SizesStaySound == Spec => []SizesSound
<1>1. PreviewInv => SizesSound
  <2> SUFFICES ASSUME PreviewInv PROVE SizesSound
    OBVIOUS
  <2>1. TypeOK /\ ForwardedAreValid /\ WholeSizes
    BY PreviewTypesImply DEF PreviewInv
  <2>2. CountsClients
    BY DEF PreviewInv, CountInv, CountsClients, Served
  <2> QED
    BY <2>1, <2>2 DEF SizesSound
<1> QED
  BY <1>1, PreviewInvariance, PTL

(* Every delta the browsers are sent comes after the keyframe it depends on, *)
(* the last one they were sent (ipc_poll_loop, PreviewState), unless the     *)
(* ring lost that keyframe and nothing had announced it, for every depth of  *)
(* the ring and however many groups of pictures, sessions and resizes.       *)
THEOREM GateStaysDecodable == Spec => []DecodableOrLost
<1>1. PreviewInv => DecodableOrLost
  BY StreamInvImplies DEF PreviewInv
<1> QED
  BY <1>1, PreviewInvariance, PTL
=============================================================================
