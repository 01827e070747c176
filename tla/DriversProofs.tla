--------------------------- MODULE DriversProofs ---------------------------
(***************************************************************************)
(* Proofs about the robot drivers: a discarded command is never obeyed,    *)
(* the hardware is in the state its channels ask for, and the arm of the   *)
(* Nero is never sent a target that snaps.                                 *)
(***************************************************************************)
EXTENDS Drivers, TLAPS

(* Where a thread may be. *)
Place ==
  {"absent", "start", "booting", "check", "leaving", "power", "switching", "act",
   "exiting", "disable", "homing", "done", "failed"}

(* A thread of the AIRBOT driver is at one of these places while it is in   *)
(* the gate, and at no other time.                                          *)
InGate(ch) == pc[ch] \in {"booting", "leaving", "switching", "exiting"}

(* What TypeOK leaves out: the places of the threads, and that there is a   *)
(* queue for each channel and for nothing else.                             *)
ThreadsTyped ==
  /\ DriverOK
  /\ pc \in [Channel -> Place]
  /\ queue = [ch \in Channel |-> queue[ch]]

Typed ==
  /\ driver \in {"airbot", "nero"}
  /\ ThreadsTyped /\ AirbotOK /\ NeroOK
  /\ driver = "airbot" => \A ch \in Channel : gate[ch] # "idle" <=> InGate(ch)

(* The labels that a tick may leave on a waiting command. *)
Leavable(ch) ==
  CASE driver = "airbot" -> {}
    [] driver = "nero" /\ ch = "eef" -> {"Identifying", "CommandFollowing"}
    [] driver = "nero" /\ ch = "arm" -> Mode

(* A command that waits was left by a tick of such a mode, or by none. *)
CommandsSound ==
  \A ch \in Channel :
    /\ \A t \in Topic(ch) : queue[ch][t] \in Leavable(ch) \cup {None, "fresh"}
    /\ outdated[ch] \subseteq Leavable(ch)

-----------------------------------------------------------------------------
(* AIRBOT.  What a thread has asked of its motors and of the LED, at every  *)
(* place it can be in.                                                      *)
MotorsFollow(ch) ==
  /\ pc[ch] \in {"booting", "check", "act"} => power[ch] = StateForMode(ch, mode[ch])
  /\ pc[ch] = "switching" => power[ch] = StateForMode(ch, next[ch])
  /\ pc[ch] = "done" => power[ch] = "Disabled"

FlagFollows(ch) ==
  /\ pc[ch] \in {"absent", "start", "leaving", "power", "exiting", "disable", "done"}
       => ~identifying[ch]
  /\ pc[ch] \in {"booting", "switching"} => identifying[ch]
  /\ pc[ch] = "booting" => mode[ch] = "Identifying"
  /\ pc[ch] = "switching" => next[ch] = "Identifying"
  /\ pc[ch] \in {"check", "act"} => (identifying[ch] <=> mode[ch] = "Identifying")

(* The gate, while its calls have not overlapped and no thread has failed   *)
(* in it: one thread is inside, what it has read is still true, and the     *)
(* gate's memory and the lamp agree but for the moment between the frame    *)
(* and the store.                                                           *)
GateSound ==
  (~crossed /\ \A ch \in Channel : pc[ch] # "failed") =>
    /\ \A c, d \in Channel : gate[c] # "idle" /\ gate[d] # "idle" => c = d
    /\ (\A c \in Channel : gate[c] # "store") => (lamp <=> led_on)
    /\ (\A c \in Channel : gate[c] = "idle") => (led_on <=> \E c \in Channel : identifying[c])
    /\ \A c \in Channel :
         /\ gate[c] \in {"compare", "send", "store"}
              => (want[c] <=> \E d \in Channel : identifying[d])
         /\ gate[c] = "store" => (lamp <=> want[c])

AirbotInv ==
  /\ \A ch \in Channel : MotorsFollow(ch) /\ FlagFollows(ch)
  /\ GateSound
  /\ ~tracking

-----------------------------------------------------------------------------
(* Nero.  The time left to home covers what is left of the ramp. *)
HomingSound ==
  /\ homed => sensed
  /\ pc["arm"] = "homing" =>
       /\ mode["arm"] = "Disabled"
       /\ homed => (elapsed = RampTime \/ homing_left + elapsed >= RampTime + Settle)
       /\ homed /\ homing_left = 0 => tracking /\ sent = HoldQ
  /\ HomedAtExit

(* The target sent last, by the mode it was sent in. *)
TrackingSound ==
  /\ tracking => sensed
  /\ ~ramping => elapsed = 0
  /\ mode["arm"] = "Disabled" =>
       /\ tracking => /\ ramping
                      /\ \E t \in 0 .. elapsed : /\ elapsed <= t + MaxDelay
                                                 /\ sent = Desired(q_start, t)
       /\ (~tracking /\ ~blind /\ ramping) => sensed /\ q_start = measured /\ elapsed = 0
  /\ mode["arm"] = "CommandFollowing" =>
       /\ tracking <=> anchored
       /\ tracking => sent = last_sent

ArmInv == HomingSound /\ TrackingSound /\ GoalOfThisStay

NeroInv == ArmInv /\ (mode["eef"] = "Identifying" => identify_started)

Inductive ==
  /\ Typed /\ CommandsSound
  /\ driver = "airbot" => AirbotInv
  /\ driver = "nero" => NeroInv

-----------------------------------------------------------------------------
(* Types. *)

(* A tick that drains a channel's topics keeps their labels in order. *)
LEMMA DrainTyped ==
  ASSUME ThreadsTyped, NEW ch \in Channel, NEW left, NEW now \in SUBSET Waiting(ch),
         DrainCommands(ch, left, now)
  PROVE  /\ queue' = [c \in Channel |-> queue'[c]]
         /\ \A c \in Channel : queue'[c] \in [Topic(c) -> Label]
         /\ outdated' \in [Channel -> SUBSET Mode]
<1>1. /\ queue = [c \in Channel |-> queue[c]]
      /\ \A c \in Channel : queue[c] \in [Topic(c) -> Label]
      /\ mode[ch] \in Mode /\ outdated \in [Channel -> SUBSET Mode]
  BY DEF ThreadsTyped, DriverOK
<1> DEFINE kept == [t \in Topic(ch) |-> IF t \in left \cap Waiting(ch) THEN mode[ch] ELSE None]
           old == {queue[ch][t] : t \in now} \ {"fresh"}
<1>2. kept \in [Topic(ch) -> Label]
  BY <1>1 DEF Label
<1>3. old \subseteq Mode
  BY <1>1 DEF Waiting, Label
<1>4. queue' = [queue EXCEPT ![ch] = kept] /\ outdated' = [outdated EXCEPT ![ch] = old]
  BY DEF DrainCommands
<1> HIDE DEF kept, old
<1>5. outdated' \in [Channel -> SUBSET Mode]
  BY <1>1, <1>3, <1>4
<1>6. queue' = [c \in Channel |-> IF c = ch THEN kept ELSE queue[c]]
  BY <1>1, <1>4
<1> QED
  BY <1>1, <1>2, <1>5, <1>6

(* The rest of the system keeps the types of what the threads share. *)
LEMMA OutsideTyped ==
  ASSUME ThreadsTyped, Outside
  PROVE  ThreadsTyped'
<1>1. CASE \E ch \in Channel : RequestMode(ch)
  BY <1>1, CountAssumption DEF RequestMode, ThreadsTyped, DriverOK, threads
<1>2. CASE \E ch \in Channel : PublishCommand(ch)
  <2>1. PICK ch \in Channel : PublishCommand(ch)
    BY <1>2
  <2>2. PICK t \in Topic(ch) : queue' = [queue EXCEPT ![ch][t] = "fresh"]
    BY <2>1 DEF PublishCommand
  <2> DEFINE q == [queue[ch] EXCEPT ![t] = "fresh"]
  <2>3. q \in [Topic(ch) -> Label]
    BY DEF ThreadsTyped, DriverOK, Label
  <2>4. queue' = [queue EXCEPT ![ch] = q]
    BY <2>2
  <2> HIDE DEF q
  <2>5. queue' = [c \in Channel |-> IF c = ch THEN q ELSE queue[c]]
    BY <2>4 DEF ThreadsTyped
  <2>6. /\ queue' = [c \in Channel |-> queue'[c]]
        /\ \A c \in Channel : queue'[c] \in [Topic(c) -> Label]
    BY <2>3, <2>5 DEF ThreadsTyped, DriverOK
  <2> QED
    BY <2>1, <2>6, CountAssumption DEF PublishCommand, ThreadsTyped, DriverOK, threads
<1>3. CASE PublishShutdown
  BY <1>3 DEF PublishShutdown, ThreadsTyped, DriverOK, traffic
<1>4. CASE Signal
  BY <1>4 DEF Signal, ThreadsTyped, DriverOK, traffic
<1> QED
  BY <1>1, <1>2, <1>3, <1>4 DEF Outside

(* ... and so does a thread that ends with an error. *)
LEMMA FailTyped ==
  ASSUME ThreadsTyped, NEW ch \in Channel, Fail(ch)
  PROVE  ThreadsTyped'
BY DEF Fail, Goto, ThreadsTyped, DriverOK, traffic, Place

(* The AIRBOT threads. *)
LEMMA AirbotThreadsTyped ==
  ASSUME Typed, driver = "airbot", NEW ch \in Channel, AirbotThread(ch)
  PROVE  ThreadsTyped'
<1>0. ThreadsTyped /\ next \in [Channel -> Mode]
  BY DEF Typed, AirbotOK
<1>1. CASE Boot(ch)
  BY <1>0, <1>1 DEF Boot, Goto, ThreadsTyped, DriverOK, traffic, Place
<1>2. CASE SameMode(ch) \/ ChangeMode(ch)
  <2>1. /\ TakeRequest(ch) /\ UNCHANGED <<stop, shutdown, mode, queue, requests, commands, fed, outdated>>
        /\ \E p \in Place : Goto(ch, p)
    BY <1>2 DEF SameMode, ChangeMode, Place
  <2>2. pc' \in [Channel -> Place]
    BY <1>0, <2>1 DEF Goto, ThreadsTyped
  <2>3. requested' \in [Channel -> Mode \cup {None}]
    BY <1>0, <2>1 DEF TakeRequest, ThreadsTyped, DriverOK
  <2> QED
    BY <1>0, <2>1, <2>2, <2>3, Zenon DEF ThreadsTyped, DriverOK
<1>3. CASE SwitchPower(ch)
  <2>1. /\ UNCHANGED <<stop, shutdown, requested, queue, requests, commands, fed, outdated>>
        /\ mode' = [mode EXCEPT ![ch] = next[ch]] \/ UNCHANGED mode
        /\ \E p \in Place : Goto(ch, p)
    BY <1>3 DEF SwitchPower, traffic, Place
  <2>2. pc' \in [Channel -> Place]
    BY <1>0, <2>1 DEF Goto, ThreadsTyped
  <2>3. mode' \in [Channel -> Mode]
    BY <1>0, <2>1 DEF ThreadsTyped, DriverOK
  <2> QED
    BY <1>0, <2>1, <2>2, <2>3, Zenon DEF ThreadsTyped, DriverOK
<1>4. CASE Act(ch)
  <2>1. DrainCommands(ch, Undrained(ch), Submitted(ch)) /\ Submitted(ch) \in SUBSET Waiting(ch)
    BY <1>4 DEF Act, Submitted
  <2>2. /\ queue' = [c \in Channel |-> queue'[c]]
        /\ \A c \in Channel : queue'[c] \in [Topic(c) -> Label]
        /\ outdated' \in [Channel -> SUBSET Mode]
    BY <1>0, <2>1, DrainTyped
  <2> QED
    BY <1>0, <1>4, <2>2 DEF Act, Goto, ThreadsTyped, DriverOK, Place
<1>5. CASE Exit(ch) \/ Disable(ch)
  BY <1>0, <1>5 DEF Exit, Disable, Goto, ThreadsTyped, DriverOK, traffic, Place
<1>6. CASE Gate(ch)
  <2>1. CASE LeaveGate(ch)
    <3>1. InGate(ch)
      BY <1>6, <2>1 DEF Typed, Gate, GateLoad, GateCompare, GateSend, GateStore
    <3> QED
      BY <1>0, <1>6, <2>1, <3>1 DEF InGate, LeaveGate, Gate, ThreadsTyped, DriverOK, traffic, Place
  <2>2. CASE UNCHANGED <<pc, mode>>
    BY <1>0, <1>6, <2>2 DEF Gate, ThreadsTyped, DriverOK, traffic
  <2> QED
    BY <1>6, <2>1, <2>2 DEF Gate, GateLoad, GateCompare, GateSend, GateStore
<1> QED
  BY <1>1, <1>2, <1>3, <1>4, <1>5, <1>6 DEF AirbotThread

(* What the Nero arm's control step does to what the threads share. *)
LEMMA ControlEffect ==
  ASSUME Control
  PROVE  /\ \/ UNCHANGED <<queue, outdated>>
            \/ \E left, now \in SUBSET Waiting("arm") : DrainCommands("arm", left, now)
         /\ UNCHANGED <<stop, shutdown, mode, requested, requests, commands, fed>>
<1>1. Taken \in SUBSET Waiting("arm")
  BY DEF Taken, Priority
<1>2. CASE SkipTick
  BY <1>2 DEF Control, SkipTick
<1>3. CASE HoldDisabled \/ Float
  BY <1>3 DEF Control, HoldDisabled, Float, ArmUndrained
<1>4. CASE Follow
  BY <1>1, <1>4 DEF Control, Follow, ArmUndrained
<1> QED
  BY <1>2, <1>3, <1>4 DEF Control

(* The Nero threads. *)
LEMMA NeroThreadsTyped ==
  ASSUME Typed, NEW ch \in Channel, NeroThread(ch)
  PROVE  ThreadsTyped'
<1>0. ThreadsTyped /\ "arm" \in Channel /\ "eef" \in Channel
  BY DEF Typed, Channel
<1>1. CASE PollMode
  BY <1>0, <1>1
  DEF PollMode, OnModeChange, TakeRequest, NextMode, Goto, ThreadsTyped, DriverOK, Place
<1>2. CASE Control /\ \E place \in Place : Goto("arm", place) \/ UNCHANGED pc
  <2>1. CASE UNCHANGED <<queue, outdated>>
    BY <1>0, <1>2, <2>1, ControlEffect DEF Goto, ThreadsTyped, DriverOK
  <2>2. ASSUME NEW left, NEW now \in SUBSET Waiting("arm"), DrainCommands("arm", left, now)
        PROVE  ThreadsTyped'
    <3>1. /\ queue' = [c \in Channel |-> queue'[c]]
          /\ \A c \in Channel : queue'[c] \in [Topic(c) -> Label]
          /\ outdated' \in [Channel -> SUBSET Mode]
      BY <1>0, <2>2, DrainTyped
    <3> QED
      BY <1>0, <1>2, <3>1, ControlEffect DEF Goto, ThreadsTyped, DriverOK
  <2> QED
    BY <1>2, <2>1, <2>2, ControlEffect
<1>3. CASE BeginHoming
  BY <1>0, <1>3
  DEF BeginHoming, OnModeChange, Goto, ThreadsTyped, DriverOK, traffic, Place, Mode
<1>4. CASE HomingDone \/ GripperExit
  BY <1>0, <1>4 DEF HomingDone, GripperExit, Goto, ThreadsTyped, DriverOK, traffic, Place
<1>5. CASE PollGripperMode
  BY <1>0, <1>5
  DEF PollGripperMode, TakeRequest, NextMode, Goto, ThreadsTyped, DriverOK, Place
<1>6. CASE GripperTick
  <2>1. /\ DrainCommands("eef", GripperUndrained, GripperTaken)
        /\ GripperTaken \in SUBSET Waiting("eef")
    BY <1>6 DEF GripperTick, GripperTaken
  <2>2. /\ queue' = [c \in Channel |-> queue'[c]]
        /\ \A c \in Channel : queue'[c] \in [Topic(c) -> Label]
        /\ outdated' \in [Channel -> SUBSET Mode]
    BY <1>0, <2>1, DrainTyped
  <2> QED
    BY <1>0, <1>6, <2>2 DEF GripperTick, Goto, ThreadsTyped, DriverOK, Place
<1>7. Tick \/ HomingTick => Control /\ \E place \in Place : Goto("arm", place) \/ UNCHANGED pc
  BY DEF Tick, HomingTick, Place
<1> QED
  BY <1>1, <1>2, <1>3, <1>4, <1>5, <1>6, <1>7 DEF NeroThread

(* What the AIRBOT threads keep to themselves, and where they are in the gate. *)
GatePlaces == \A ch \in Channel : gate[ch] # "idle" <=> InGate(ch)

(* A thread enters the gate. *)
LEMMA GateEntered ==
  ASSUME Typed, NEW ch \in Channel, NEW value \in BOOLEAN, EnterGate(ch, value)
  PROVE  /\ identifying' \in [Channel -> BOOLEAN] /\ want' \in [Channel -> BOOLEAN]
         /\ led_on' \in BOOLEAN /\ lamp' \in BOOLEAN /\ crossed' \in BOOLEAN
         /\ gate' \in [Channel -> {"idle", "load", "compare", "send", "store"}]
<1>1. crossed' \in BOOLEAN
  BY Zenon DEF EnterGate
<1> QED
  BY <1>1 DEF EnterGate, Typed, AirbotOK

(* The states the motors can be put in. *)
LEMMA StateTyped ==
  ASSUME NEW ch \in Channel, NEW m \in Mode
  PROVE  StateForMode(ch, m) \in {"Disabled", "Enabled", "FreeDrive", "CommandFollowing"}
BY DEF StateForMode, Mode

(* A step of an AIRBOT thread, or its failure. *)
LEMMA AirbotTypedStep ==
  ASSUME Typed, driver = "airbot", NEW ch \in Channel, AirbotThread(ch) \/ AirbotFail(ch)
  PROVE  AirbotOK' /\ GatePlaces'
<1>0. /\ AirbotOK /\ GatePlaces
      /\ pc \in [Channel -> Place] /\ mode \in [Channel -> Mode]
      /\ NextMode(ch) \in Mode
  BY DEF Typed, GatePlaces, ThreadsTyped, DriverOK, NextMode
<1>1. CASE Boot(ch)
  <2>1. power' \in [Channel -> {"Disabled", "Enabled", "FreeDrive", "CommandFollowing"}]
    BY <1>0, <1>1, StateTyped DEF Boot, SetState, AirbotOK
  <2>2. CASE UNCHANGED led
    BY <1>0, <1>1, <2>1, <2>2 DEF Boot, EnterGate, Goto, AirbotOK, GatePlaces, InGate, led
  <2>3. CASE Goto(ch, "booting") /\ EnterGate(ch, TRUE)
    <3>1. AirbotOK'
      BY <1>0, <1>1, <2>1, <2>3, GateEntered DEF Boot, AirbotOK
    <3>2. GatePlaces'
      BY <1>0, <2>3 DEF EnterGate, Goto, AirbotOK, GatePlaces, InGate
    <3> QED
      BY <3>1, <3>2
  <2> QED
    BY <1>1, <2>2, <2>3 DEF Boot
<1>2. CASE SameMode(ch)
  BY <1>0, <1>2 DEF SameMode, Loops, Goto, AirbotOK, GatePlaces, InGate, led
<1>3. CASE ChangeMode(ch)
  <2>1. next' \in [Channel -> Mode] /\ UNCHANGED power
    BY <1>0, <1>3 DEF ChangeMode, AirbotOK
  <2>2. CASE UNCHANGED led /\ Goto(ch, "power")
    BY <1>0, <1>3, <2>1, <2>2
    DEF ChangeMode, Loops, Goto, AirbotOK, GatePlaces, InGate, led
  <2>3. CASE Goto(ch, "leaving") /\ EnterGate(ch, FALSE)
    <3>1. AirbotOK'
      BY <1>0, <2>1, <2>3, GateEntered DEF AirbotOK
    <3>2. GatePlaces'
      BY <1>0, <2>3 DEF EnterGate, Goto, AirbotOK, GatePlaces, InGate
    <3> QED
      BY <3>1, <3>2
  <2> QED
    BY <1>3, <2>2, <2>3 DEF ChangeMode
<1>4. CASE SwitchPower(ch)
  <2>1. power' \in [Channel -> {"Disabled", "Enabled", "FreeDrive", "CommandFollowing"}]
    BY <1>0, <1>4, StateTyped DEF SwitchPower, SetState, AirbotOK
  <2>2. CASE UNCHANGED led /\ Goto(ch, "act")
    BY <1>0, <1>4, <2>1, <2>2 DEF SwitchPower, Goto, AirbotOK, GatePlaces, InGate, led
  <2>3. CASE Goto(ch, "switching") /\ EnterGate(ch, TRUE)
    <3>1. AirbotOK'
      BY <1>0, <1>4, <2>1, <2>3, GateEntered DEF SwitchPower, AirbotOK
    <3>2. GatePlaces'
      BY <1>0, <2>3 DEF EnterGate, Goto, AirbotOK, GatePlaces, InGate
    <3> QED
      BY <3>1, <3>2
  <2> QED
    BY <1>4, <2>2, <2>3 DEF SwitchPower
<1>5. CASE Act(ch)
  BY <1>0, <1>5 DEF Act, Goto, AirbotOK, GatePlaces, InGate, led
<1>6. CASE Exit(ch)
  <2>1. AirbotOK'
    BY <1>0, <1>6, GateEntered DEF Exit, AirbotOK
  <2>2. GatePlaces'
    BY <1>0, <1>6 DEF Exit, EnterGate, Goto, AirbotOK, GatePlaces, InGate
  <2> QED
    BY <2>1, <2>2
<1>7. CASE Disable(ch)
  BY <1>0, <1>7 DEF Disable, SetState, Goto, AirbotOK, GatePlaces, InGate, led
<1>8. CASE Gate(ch)
  <2>1. CASE GateLoad(ch)
    <3>1. Want(ch) \in BOOLEAN
      BY Zenon DEF Want
    <3> QED
      BY <1>0, <1>8, <2>1, <3>1 DEF Gate, GateLoad, AirbotOK, GatePlaces, InGate
  <2>2. CASE GateSend(ch) \/ (GateCompare(ch) /\ ~LeaveGate(ch))
    BY <1>0, <1>8, <2>2 DEF Gate, GateSend, GateCompare, AirbotOK, GatePlaces, InGate
  <2>3. CASE LeaveGate(ch)
    <3>1. InGate(ch)
      BY <1>0, <1>8, <2>3 DEF GatePlaces, Gate, GateLoad, GateCompare, GateSend, GateStore
    <3>2. GatePlaces'
      BY <1>0, <2>3, <3>1 DEF LeaveGate, AirbotOK, GatePlaces, InGate
    <3>3. AirbotOK'
      BY <1>0, <1>8, <2>3
      DEF Gate, GateLoad, GateCompare, GateSend, GateStore, LeaveGate, AirbotOK
    <3> QED
      BY <3>2, <3>3
  <2> QED
    BY <1>8, <2>1, <2>2, <2>3 DEF Gate, GateStore
<1>9. CASE AirbotFail(ch)
  BY <1>0, <1>9 DEF AirbotFail, Fail, Goto, AirbotOK, GatePlaces, InGate
<1> QED
  BY <1>1, <1>2, <1>3, <1>4, <1>5, <1>6, <1>7, <1>8, <1>9 DEF AirbotThread

(* The ramp and the clamp compute angles. *)
LEMMA AnglesTyped ==
  /\ \A p \in Angle : p \in Int
  /\ \A start \in Int, time \in 0 .. RampTime : Desired(start, time) \in Int
  /\ \A p, q \in Int : Clamp(p, q) \in Int
<1>1. \A p \in Angle : p \in Int
  BY AngleAssumption
<1>2. ASSUME NEW start \in Int, NEW time \in 0 .. RampTime PROVE Desired(start, time) \in Int
  <2>1. (HoldQ - start) * time \in Int
    BY AngleAssumption, TimeAssumption
  <2>2. \A n \in Int : n \div RampTime \in Int
    BY TimeAssumption
  <2> QED
    BY <2>1, <2>2, AngleAssumption, TimeAssumption DEF Desired
<1>3. \A p, q \in Int : Clamp(p, q) \in Int
  BY ClampAssumption DEF Clamp
<1> QED
  BY <1>1, <1>2, <1>3

(* The control step of the Nero arm. *)
LEMMA ControlTyped ==
  ASSUME Typed, Control
  PROVE  NeroOK'
<1>0. NeroOK
  BY DEF Typed
<1>1. elapsed' \in 0 .. RampTime /\ homing_left' \in 0 .. RampTime + Settle
  BY <1>0, TimeAssumption DEF Control, Passes, NeroOK
<1>2. UNCHANGED <<angle, sensed, measured, blind, homed, identify_started>>
  BY DEF Control
<1> USE DEF NeroOK
<1>3. CASE SkipTick
  BY <1>0, <1>1, <1>2, <1>3 DEF SkipTick, follow
<1>4. CASE HoldDisabled
  <2>1. q_start' \in Int
    BY <1>0, <1>4, AnglesTyped DEF HoldDisabled
  <2>2. sent' \in Int
    BY <1>0, <1>4, <2>1, AnglesTyped DEF HoldDisabled, Send
  <2> QED
    BY <1>0, <1>1, <1>2, <1>4, <2>1, <2>2 DEF HoldDisabled, Send, follow
<1>5. CASE Float
  <2>1. tracking' \in BOOLEAN
    BY <1>5, Zenon DEF Float, Send
  <2>2. sent' \in Int /\ UNCHANGED <<ramping, q_start, follow>>
    BY <1>5 DEF Float, Send
  <2> QED
    BY <1>0, <1>1, <1>2, <2>1, <2>2 DEF follow
<1>6. CASE Follow
  <2>1. /\ target' \in Int /\ goal' \in Int /\ targeted' \in BOOLEAN /\ commanded' \in BOOLEAN
        /\ \E p \in Int : SendClamped(p)
    BY <1>0, <1>6, AnglesTyped DEF Follow, TakeCommand, HoldTarget, KeepGoal
  <2>2. PICK p \in Int : SendClamped(p)
    BY <2>1
  <2> DEFINE c == Clamp(p, IF anchored THEN last_sent ELSE angle)
  <2>3. c \in Int
    BY <1>0, AnglesTyped
  <2>4. last_sent' = c /\ anchored' = TRUE /\ sent' = c /\ tracking' = TRUE
    BY <2>2 DEF SendClamped, Send
  <2> HIDE DEF c
  <2> QED
    BY <1>0, <1>1, <1>2, <1>6, <2>1, <2>3, <2>4 DEF Follow
<1> QED
  BY <1>3, <1>4, <1>5, <1>6 DEF Control

(* What OnModeChange does to the arm's variables. *)
LEMMA ModeChangeTyped ==
  ASSUME Typed, NEW m \in Mode, OnModeChange(m), homing_left' \in 0 .. RampTime + Settle,
         homed' \in BOOLEAN, UNCHANGED identify_started
  PROVE  NeroOK'
<1>0. NeroOK
  BY DEF Typed
<1>1. /\ ramping' \in BOOLEAN /\ q_start' \in Int /\ elapsed' \in 0 .. RampTime
      /\ measured' \in Int /\ blind' \in BOOLEAN
  <2>1. CASE StartRamp
    BY <1>0, <2>1, AnglesTyped, TimeAssumption DEF StartRamp, NeroOK
  <2>2. CASE DropRamp
    <3>1. ramping' \in BOOLEAN /\ blind' \in BOOLEAN
      BY <2>2, Zenon DEF DropRamp
    <3>2. q_start' = 0 /\ elapsed' = 0 /\ measured' = 0
      BY <2>2 DEF DropRamp
    <3> QED
      BY <3>1, <3>2, TimeAssumption
  <2>3. CASE UNCHANGED <<ramp, measured, blind>>
    BY <1>0, <2>3 DEF ramp, NeroOK
  <2> QED
    BY <2>1, <2>2, <2>3 DEF OnModeChange
<1>2. /\ target' \in Int /\ targeted' \in BOOLEAN /\ last_sent' \in Int
      /\ anchored' \in BOOLEAN /\ goal' \in Int /\ commanded' \in BOOLEAN
  <2>1. CASE ForgetTargets
    <3>1. targeted' \in BOOLEAN /\ anchored' \in BOOLEAN /\ commanded' \in BOOLEAN
      BY <2>1, Zenon DEF ForgetTargets
    <3>2. target' = 0 /\ last_sent' = 0 /\ goal' = 0
      BY <2>1 DEF ForgetTargets
    <3> QED
      BY <3>1, <3>2
  <2>2. CASE UNCHANGED follow
    BY <1>0, <2>2 DEF follow, NeroOK
  <2> QED
    BY <2>1, <2>2 DEF OnModeChange
<1> QED
  BY <1>0, <1>1, <1>2 DEF OnModeChange, NeroOK

(* A step of the Nero driver. *)
LEMMA NeroTypedStep ==
  ASSUME Typed, NEW ch \in Channel, NeroThread(ch)
  PROVE  NeroOK'
<1>0. NeroOK /\ mode \in [Channel -> Mode] /\ NextMode("arm") \in Mode /\ "Disabled" \in Mode
  BY DEF Typed, ThreadsTyped, DriverOK, NextMode, Channel, Mode
<1>1. CASE PollMode
  <2>1. CASE OnModeChange(NextMode("arm"))
    BY <1>0, <1>1, <2>1, ModeChangeTyped DEF PollMode, NeroOK
  <2>2. CASE UNCHANGED <<angle, sensed, ramp, follow, sent, tracking, measured, blind>>
    BY <1>0, <1>1, <2>2 DEF PollMode, NeroOK, ramp, follow
  <2> QED
    BY <1>1, <2>1, <2>2 DEF PollMode
<1>2. CASE Tick \/ HomingTick
  BY <1>2, ControlTyped DEF Tick, HomingTick
<1>3. CASE BeginHoming
  <2>1. homing_left' \in 0 .. RampTime + Settle /\ homed' \in BOOLEAN /\ UNCHANGED identify_started
    BY <1>0, <1>3, TimeAssumption DEF BeginHoming, HomingTime, NeroOK
  <2>2. CASE OnModeChange("Disabled")
    BY <1>0, <2>1, <2>2, ModeChangeTyped
  <2>3. CASE DropRamp /\ tracking' = FALSE /\ UNCHANGED <<mode, angle, sensed, follow, sent>>
    <3>1. ramping' \in BOOLEAN /\ blind' \in BOOLEAN /\ tracking' \in BOOLEAN
      BY <2>3, Zenon DEF DropRamp
    <3>2. q_start' = 0 /\ elapsed' = 0 /\ measured' = 0
      BY <2>3 DEF DropRamp
    <3> QED
      BY <1>0, <2>1, <2>3, <3>1, <3>2, TimeAssumption DEF NeroOK, follow
  <2> QED
    BY <1>3, <2>2, <2>3 DEF BeginHoming
<1>4. CASE HomingDone \/ GripperTick \/ GripperExit
  BY <1>0, <1>4
  DEF HomingDone, GripperTick, GripperExit, NeroOK, arm, ramp, follow, neroHistory
<1>5. CASE PollGripperMode
  <2>1. identify_started' \in BOOLEAN
    BY <1>0, <1>5 DEF PollGripperMode, NeroOK
  <2> QED
    BY <1>0, <1>5, <2>1 DEF PollGripperMode, NeroOK, arm, ramp, follow, neroHistory
<1> QED
  BY <1>1, <1>2, <1>3, <1>4, <1>5 DEF NeroThread

(* Every step keeps the types. *)
LEMMA TypedStep == Typed /\ [Next]_vars => Typed'
<1> SUFFICES ASSUME Typed, [Next]_vars PROVE Typed'
  OBVIOUS
<1>0. ThreadsTyped /\ AirbotOK /\ NeroOK
  BY DEF Typed
<1>1. CASE UNCHANGED vars
  BY <1>1 DEF Typed, vars, airbotVars, neroVars, driverVars, threads, traffic, led, arm, ramp,
     follow, neroHistory, ThreadsTyped, DriverOK, AirbotOK, NeroOK, InGate, Waiting
<1>2. CASE driver = "airbot" /\ AirbotNext /\ UNCHANGED <<driver, neroOnly>>
  <2>1. NeroOK'
    BY <1>0, <1>2 DEF neroOnly, arm, ramp, follow, neroHistory, NeroOK
  <2>2. CASE Outside /\ UNCHANGED <<next, power, led>>
    <3>1. AirbotOK'
      BY <1>0, <2>2 DEF AirbotOK, led
    <3>2. UNCHANGED <<pc, gate>>
      BY <2>2 DEF Outside, RequestMode, PublishCommand, PublishShutdown, Signal, threads, led
    <3> QED
      BY <1>0, <1>2, <2>1, <2>2, <3>1, <3>2, OutsideTyped DEF Typed, InGate
  <2>3. CASE \E ch \in Channel : AirbotThread(ch)
    BY <1>2, <2>1, <2>3, AirbotThreadsTyped, AirbotTypedStep DEF Typed, GatePlaces
  <2>4. CASE \E ch \in Channel : AirbotFail(ch)
    BY <1>0, <1>2, <2>1, <2>4, FailTyped, AirbotTypedStep DEF Typed, GatePlaces, AirbotFail
  <2> QED
    BY <1>2, <2>2, <2>3, <2>4 DEF AirbotNext
<1>3. CASE driver = "nero" /\ NeroNext /\ UNCHANGED <<driver, airbotOnly>>
  <2>1. AirbotOK'
    BY <1>0, <1>3 DEF airbotOnly, led, AirbotOK
  <2>2. driver' = "nero"
    BY <1>3
  <2>3. ASSUME UNCHANGED <<arm, identify_started>> PROVE NeroOK'
    BY <1>0, <2>3 DEF NeroOK, arm, ramp, follow, neroHistory
  <2>4. CASE Outside /\ UNCHANGED <<arm, identify_started>>
    BY <1>0, <2>1, <2>2, <2>3, <2>4, OutsideTyped DEF Typed
  <2>5. CASE ArmMoves
    <3>1. ThreadsTyped'
      BY <1>0, <2>5 DEF ArmMoves, driverVars, threads, traffic, ThreadsTyped, DriverOK
    <3>2. NeroOK'
      BY <1>0, <2>5 DEF ArmMoves, ramp, follow, neroHistory, NeroOK
    <3> QED
      BY <2>1, <2>2, <3>1, <3>2 DEF Typed
  <2>6. CASE \E ch \in Channel : NeroThread(ch)
    BY <2>1, <2>2, <2>6, NeroThreadsTyped, NeroTypedStep DEF Typed
  <2>7. CASE \E ch \in Channel : Fail(ch) /\ UNCHANGED <<arm, identify_started>>
    BY <1>0, <2>1, <2>2, <2>3, <2>7, FailTyped DEF Typed
  <2> QED
    BY <1>3, <2>4, <2>5, <2>6, <2>7 DEF NeroNext
<1> QED
  BY <1>1, <1>2, <1>3 DEF Next, Joined

(* The initial states. *)
LEMMA InitTyped == Init => Typed
<1> SUFFICES ASSUME Init PROVE Typed
  OBVIOUS
<1>1. PICK layout \in Layout :
        /\ driver = layout[1] /\ fed = layout[3]
        /\ \/ /\ driver = "airbot" /\ AirbotInit(layout[2])
              /\ ArmInit /\ angle = HoldQ /\ sensed = FALSE /\ identify_started = FALSE
           \/ /\ driver = "nero" /\ NeroInit(layout[2])
              /\ LedInit /\ MotorsInit
  BY DEF Init
<1> DEFINE boot == layout[2]
           start == IF driver = "airbot" THEN "start" ELSE "check"
<1>2. PICK chs \in SUBSET Channel : boot \in [chs -> Mode] /\ fed \subseteq Channel
  BY <1>1, LayoutAssumption
<1>3. ThreadsInit(boot, start) /\ ArmInit /\ LedInit /\ MotorsInit /\ driver \in {"airbot", "nero"}
  BY <1>1 DEF AirbotInit, NeroInit
<1> HIDE DEF boot, start
<1>4. mode \in [Channel -> Mode] /\ pc \in [Channel -> {start, "absent"}]
  BY <1>2, <1>3 DEF ThreadsInit, Mode
<1>5. /\ queue = [ch \in Channel |-> queue[ch]]
      /\ \A ch \in Channel : queue[ch] \in [Topic(ch) -> Label]
  BY <1>3 DEF ThreadsInit, Empty, Label
<1>6. ThreadsTyped
  <2>1. stop \in BOOLEAN /\ shutdown \in BOOLEAN
    BY <1>3, Zenon DEF ThreadsInit
  <2>2. outdated \in [Channel -> SUBSET Mode] /\ requested \in [Channel -> Mode \cup {None}]
    BY <1>3 DEF ThreadsInit
  <2>3. requests \in 0 .. MaxRequests /\ commands \in 0 .. MaxCommands
    BY <1>3, CountAssumption DEF ThreadsInit
  <2>4. pc \in [Channel -> Place]
    BY <1>4 DEF Place, start
  <2> QED
    BY <1>2, <1>4, <1>5, <2>1, <2>2, <2>3, <2>4 DEF ThreadsTyped, DriverOK
<1>7. AirbotOK
  BY <1>3, <1>4 DEF LedInit, MotorsInit, AirbotOK
<1>8. identify_started \in BOOLEAN
  BY <1>1 DEF NeroInit, GripperInit
<1>9. NeroOK
  <2>1. /\ ramping \in BOOLEAN /\ targeted \in BOOLEAN /\ anchored \in BOOLEAN
        /\ tracking \in BOOLEAN /\ blind \in BOOLEAN /\ commanded \in BOOLEAN
        /\ homed \in BOOLEAN
    BY <1>3, Zenon DEF ArmInit
  <2>2. /\ angle \in Angle /\ sensed \in BOOLEAN
        /\ q_start = 0 /\ elapsed = 0 /\ target = 0 /\ last_sent = 0 /\ homing_left = 0
        /\ sent = 0 /\ measured = 0 /\ goal = 0
    BY <1>3 DEF ArmInit
  <2> QED
    BY <1>8, <2>1, <2>2, TimeAssumption DEF NeroOK
<1>10. driver = "airbot" => \A ch \in Channel : gate[ch] # "idle" <=> InGate(ch)
  BY <1>3, <1>4 DEF LedInit, InGate, start
<1> QED
  BY <1>3, <1>6, <1>7, <1>9, <1>10 DEF Typed

(* The drivers' state stays within its types. *)
THEOREM Typing == Spec => []Typed
BY InitTyped, TypedStep, PTL DEF Spec

-----------------------------------------------------------------------------
(* Commands. *)

(* What a step does to the commands of the channels: somebody publishes one, *)
(* or a tick of one channel drains its topics and leaves some only in a mode *)
(* in which it may.                                                          *)
QueueEffect ==
  \/ UNCHANGED <<queue, outdated>>
  \/ \E ch \in Channel : PublishCommand(ch)
  \/ \E ch \in Channel : \E left : \E now \in SUBSET Waiting(ch) :
       /\ DrainCommands(ch, left, now)
       /\ left # {} => mode[ch] \in Leavable(ch)

(* Every step is of that kind. *)
LEMMA QueueStep ==
  ASSUME Typed, [Next]_vars
  PROVE  QueueEffect
<1>0. /\ "arm" \in Channel /\ "eef" \in Channel
      /\ mode["arm"] \in Mode /\ mode["eef"] \in Mode
  BY DEF Typed, ThreadsTyped, DriverOK, Channel
<1>1. CASE UNCHANGED vars
  BY <1>1 DEF QueueEffect, vars, airbotVars, driverVars, traffic
<1>2. CASE Outside
  BY <1>2 DEF Outside, RequestMode, PublishShutdown, Signal, traffic, QueueEffect
<1>3. CASE \E ch \in Channel : Act(ch)
  <2>1. PICK ch \in Channel : Act(ch)
    BY <1>3
  <2>2. DrainCommands(ch, {}, Submitted(ch)) /\ Submitted(ch) \in SUBSET Waiting(ch)
    BY <2>1 DEF Act, Undrained, Submitted
  <2> QED
    BY <2>2 DEF QueueEffect
<1>4. CASE driver = "nero" /\ Control
  <2>1. mode["arm"] \in Leavable("arm")
    BY <1>0, <1>4 DEF Leavable
  <2> QED
    BY <1>0, <1>4, <2>1, ControlEffect DEF QueueEffect
<1>5. CASE driver = "nero" /\ GripperTick
  <2>1. /\ DrainCommands("eef", GripperUndrained, GripperTaken)
        /\ GripperTaken \in SUBSET Waiting("eef")
    BY <1>5 DEF GripperTick, GripperTaken
  <2>2. GripperUndrained # {} => mode["eef"] \in {"Identifying", "CommandFollowing"}
    BY DEF GripperUndrained, GripperTaken
  <2>3. Leavable("eef") = {"Identifying", "CommandFollowing"}
    BY <1>5 DEF Leavable
  <2> QED
    BY <1>0, <2>1, <2>2, <2>3 DEF QueueEffect
<1>6. CASE UNCHANGED <<queue, outdated>>
  BY <1>6 DEF QueueEffect
<1> QED
  BY <1>1, <1>2, <1>3, <1>4, <1>5, <1>6
  DEF Next, Joined, AirbotNext, AirbotThread, AirbotFail, Boot, SameMode, ChangeMode, SwitchPower,
      Exit, Disable, Gate, Fail, NeroNext, NeroThread, PollMode, Tick, BeginHoming, HomingTick,
      HomingDone, PollGripperMode, GripperExit, ArmMoves, driverVars, traffic

(* Commands stay sound. *)
LEMMA CommandsStep == Typed /\ CommandsSound /\ [Next]_vars => CommandsSound'
<1> SUFFICES ASSUME Typed, CommandsSound, [Next]_vars, NEW c \in Channel
             PROVE  /\ \A t \in Topic(c) : queue'[c][t] \in Leavable(c)' \cup {None, "fresh"}
                    /\ outdated'[c] \subseteq Leavable(c)'
  BY DEF CommandsSound
<1>1. Leavable(c)' = Leavable(c)
  BY DEF Next, Joined, vars, Leavable
<1>2. /\ \A t \in Topic(c) : queue[c][t] \in Leavable(c) \cup {None, "fresh"}
      /\ outdated[c] \subseteq Leavable(c)
  BY DEF CommandsSound
<1>3. /\ queue = [ch \in Channel |-> queue[ch]]
      /\ \A ch \in Channel : queue[ch] \in [Topic(ch) -> Label]
      /\ outdated \in [Channel -> SUBSET Mode]
  BY DEF Typed, ThreadsTyped, DriverOK
<1>4. CASE UNCHANGED <<queue, outdated>>
  BY <1>1, <1>2, <1>4
<1>5. CASE \E ch \in Channel : PublishCommand(ch)
  <2>1. PICK ch \in Channel : PublishCommand(ch)
    BY <1>5
  <2>2. PICK u \in Topic(ch) : queue' = [queue EXCEPT ![ch][u] = "fresh"]
    BY <2>1 DEF PublishCommand
  <2> DEFINE q == [queue[ch] EXCEPT ![u] = "fresh"]
  <2>3. queue' = [queue EXCEPT ![ch] = q]
    BY <2>2
  <2>4. \A t \in Topic(ch) : q[t] = IF t = u THEN "fresh" ELSE queue[ch][t]
    BY <1>3
  <2> HIDE DEF q
  <2>5. queue'[c] = IF c = ch THEN q ELSE queue[c]
    BY <1>3, <2>3
  <2>6. UNCHANGED outdated
    BY <2>1 DEF PublishCommand
  <2> QED
    BY <1>1, <1>2, <2>4, <2>5, <2>6
<1>6. ASSUME NEW ch \in Channel, NEW left, NEW now \in SUBSET Waiting(ch),
             DrainCommands(ch, left, now), left # {} => mode[ch] \in Leavable(ch)
      PROVE  /\ \A t \in Topic(c) : queue'[c][t] \in Leavable(c)' \cup {None, "fresh"}
             /\ outdated'[c] \subseteq Leavable(c)'
  <2> DEFINE kept == [t \in Topic(ch) |-> IF t \in left \cap Waiting(ch) THEN mode[ch] ELSE None]
             old == {queue[ch][t] : t \in now} \ {"fresh"}
  <2>1. queue' = [queue EXCEPT ![ch] = kept] /\ outdated' = [outdated EXCEPT ![ch] = old]
    BY <1>6 DEF DrainCommands
  <2>2. \A t \in Topic(ch) : kept[t] \in Leavable(ch) \cup {None}
    BY <1>6
  <2>3. ch = c => old \subseteq Leavable(ch)
    BY <1>2, <1>6 DEF Waiting
  <2> HIDE DEF kept, old
  <2>4. queue'[c] = IF c = ch THEN kept ELSE queue[c]
    BY <1>3, <2>1
  <2>5. outdated'[c] = IF c = ch THEN old ELSE outdated[c]
    BY <1>3, <2>1
  <2> QED
    BY <1>1, <1>2, <2>2, <2>3, <2>4, <2>5
<1> QED
  BY <1>4, <1>5, <1>6, QueueStep DEF QueueEffect

(* What a driver throws away it never obeys (the drains in the ticks of      *)
(* run_arm_channel, run_eef_channel and the Nero's controllers), for any     *)
(* number of requests and commands, in any order with the ticks.             *)
THEOREM DiscardedStaysDiscarded == Spec => []CommandsDiscarded
<1>1. Init => CommandsSound
  BY DEF Init, AirbotInit, NeroInit, ThreadsInit, CommandsSound, Empty
<1>2. CommandsSound => CommandsDiscarded
  BY DEF CommandsSound, CommandsDiscarded, Leavable
<1> QED
  BY <1>1, <1>2, CommandsStep, Typing, PTL DEF Spec

-----------------------------------------------------------------------------
(* AIRBOT. *)

ThreadSound(ch) == MotorsFollow(ch) /\ FlagFollows(ch)

(* A thread's own state follows its place. *)
LEMMA ThreadSoundStep ==
  ASSUME Typed, driver = "airbot", NEW ch \in Channel, AirbotThread(ch) \/ AirbotFail(ch),
         \A c \in Channel : ThreadSound(c), NEW c \in Channel
  PROVE  ThreadSound(c)'
<1>0. /\ pc \in [Channel -> Place] /\ mode \in [Channel -> Mode] /\ next \in [Channel -> Mode]
      /\ identifying \in [Channel -> BOOLEAN]
      /\ DOMAIN power = Channel
      /\ ThreadSound(c) /\ GatePlaces
  BY DEF Typed, ThreadsTyped, DriverOK, AirbotOK, GatePlaces
<1> USE DEF ThreadSound, MotorsFollow, FlagFollows
<1>1. CASE Boot(ch)
  BY <1>0, <1>1 DEF Boot, SetState, Goto, EnterGate, led
<1>2. CASE SameMode(ch)
  BY <1>0, <1>2 DEF SameMode, Loops, Goto, led
<1>3. CASE ChangeMode(ch)
  BY <1>0, <1>3 DEF ChangeMode, Loops, Goto, EnterGate, led
<1>4. CASE SwitchPower(ch)
  BY <1>0, <1>4 DEF SwitchPower, SetState, Goto, EnterGate, led
<1>5. CASE Act(ch)
  BY <1>0, <1>5 DEF Act, Goto, led
<1>6. CASE Exit(ch)
  BY <1>0, <1>6 DEF Exit, Leaves, Goto, EnterGate
<1>7. CASE Disable(ch)
  BY <1>0, <1>7 DEF Disable, SetState, Goto, led
<1>8. CASE Gate(ch)
  <2>1. CASE LeaveGate(ch)
    <3>1. InGate(ch)
      BY <1>0, <1>8, <2>1 DEF GatePlaces, Gate, GateLoad, GateCompare, GateSend, GateStore
    <3>2. UNCHANGED <<identifying, next, power>>
      BY <1>8 DEF Gate, GateLoad, GateCompare, GateSend, GateStore
    <3> QED
      BY <1>0, <2>1, <3>1, <3>2 DEF InGate, LeaveGate
  <2>2. CASE UNCHANGED <<pc, mode>>
    BY <1>0, <1>8, <2>2 DEF Gate, GateLoad, GateCompare, GateSend, GateStore
  <2> QED
    BY <1>8, <2>1, <2>2 DEF Gate, GateLoad, GateCompare, GateSend, GateStore
<1>9. CASE AirbotFail(ch)
  BY <1>0, <1>9 DEF AirbotFail, Fail, Goto
<1> QED
  BY <1>1, <1>2, <1>3, <1>4, <1>5, <1>6, <1>7, <1>8, <1>9 DEF AirbotThread

(* Somebody identifies. *)
Someone == \E c \in Channel : identifying[c]

(* A thread that enters a gate nobody is in finds lamp and memory agreeing. *)
LEMMA EnterSound ==
  ASSUME Typed, GateSound, NEW ch \in Channel, NEW value \in BOOLEAN, EnterGate(ch, value),
         \A c \in Channel : c # ch => pc'[c] = pc[c], pc[ch] # "failed"
  PROVE  GateSound'
<1> SUFFICES ASSUME ~crossed', \A c \in Channel : pc'[c] # "failed"
             PROVE  /\ \A c, d \in Channel : gate'[c] # "idle" /\ gate'[d] # "idle" => c = d
                    /\ lamp' <=> led_on'
                    /\ \A c \in Channel : gate'[c] \in {"idle", "load"}
                    /\ gate'[ch] = "load"
  BY DEF GateSound
<1>1. ~crossed /\ \A c \in Channel : gate[c] = "idle" /\ pc[c] # "failed"
  BY DEF EnterGate
<1>2. gate' = [gate EXCEPT ![ch] = "load"] /\ UNCHANGED <<led_on, lamp>>
  BY DEF EnterGate
<1>3. DOMAIN gate = Channel
  BY DEF Typed, AirbotOK
<1>4. lamp <=> led_on
  BY <1>1 DEF GateSound
<1> QED
  BY <1>1, <1>2, <1>3, <1>4

(* The four steps in the gate. *)
LEMMA GateSoundStep ==
  ASSUME Typed, driver = "airbot", GateSound, NEW ch \in Channel, Gate(ch)
  PROVE  GateSound'
<1>0. /\ gate \in [Channel -> {"idle", "load", "compare", "send", "store"}]
      /\ want \in [Channel -> BOOLEAN] /\ led_on \in BOOLEAN /\ lamp \in BOOLEAN
      /\ UNCHANGED <<crossed, identifying>> /\ GatePlaces
      /\ pc \in [Channel -> Place]
  BY DEF Typed, AirbotOK, ThreadsTyped, GatePlaces, Gate, GateLoad, GateCompare, GateSend, GateStore
<1>1. (\A c \in Channel : pc'[c] # "failed") => \A c \in Channel : pc[c] # "failed"
  <2>1. InGate(ch) /\ \A c \in Channel : c # ch => pc'[c] = pc[c]
    BY <1>0 DEF GatePlaces, Gate, GateLoad, GateCompare, GateSend, GateStore, LeaveGate
  <2> QED
    BY <2>1 DEF InGate
<1> SUFFICES ASSUME ~crossed, \A c \in Channel : pc[c] # "failed"
             PROVE  /\ \A c, d \in Channel : gate'[c] # "idle" /\ gate'[d] # "idle" => c = d
                    /\ (\A c \in Channel : gate'[c] # "store") => (lamp' <=> led_on')
                    /\ (\A c \in Channel : gate'[c] = "idle") => (led_on' <=> Someone)
                    /\ \A c \in Channel :
                         /\ gate'[c] \in {"compare", "send", "store"} => (want'[c] <=> Someone)
                         /\ gate'[c] = "store" => (lamp' <=> want'[c])
  BY <1>0, <1>1 DEF GateSound, Someone
<1>2. /\ \A c, d \in Channel : gate[c] # "idle" /\ gate[d] # "idle" => c = d
      /\ (\A c \in Channel : gate[c] # "store") => (lamp <=> led_on)
      /\ \A c \in Channel :
           /\ gate[c] \in {"compare", "send", "store"} => (want[c] <=> Someone)
           /\ gate[c] = "store" => (lamp <=> want[c])
  BY DEF GateSound, Someone
<1>3. gate[ch] # "idle" /\ \A c \in Channel : c # ch => gate[c] = "idle"
  BY <1>2 DEF Gate, GateLoad, GateCompare, GateSend, GateStore
<1>4. CASE GateLoad(ch)
  <2>1. want' = [want EXCEPT ![ch] = Someone] /\ gate' = [gate EXCEPT ![ch] = "compare"]
    BY <1>4 DEF GateLoad, Want, Someone
  <2>2. (lamp <=> led_on) /\ UNCHANGED <<lamp, led_on>>
    BY <1>2, <1>3, <1>4 DEF GateLoad
  <2>3. want'[ch] <=> Someone
    BY <1>0, <2>1
  <2> QED
    BY <1>0, <1>3, <2>1, <2>2, <2>3
<1>5. CASE GateCompare(ch)
  <2>1. (lamp <=> led_on) /\ UNCHANGED <<lamp, led_on>> /\ (want[ch] <=> Someone)
    BY <1>2, <1>3, <1>5 DEF GateCompare
  <2>2. CASE want[ch] = led_on /\ LeaveGate(ch)
    <3>1. \A c \in Channel : gate'[c] = "idle"
      BY <1>0, <1>3, <2>2 DEF LeaveGate
    <3>2. led_on <=> Someone
      BY <2>1, <2>2
    <3> QED
      BY <2>1, <3>1, <3>2
  <2>3. CASE gate' = [gate EXCEPT ![ch] = "send"] /\ UNCHANGED <<pc, mode, want>>
    BY <1>0, <1>3, <2>1, <2>3
  <2> QED
    BY <1>5, <2>2, <2>3 DEF GateCompare
<1>6. CASE GateSend(ch)
  <2>1. want[ch] <=> Someone
    BY <1>2, <1>6 DEF GateSend
  <2>2. lamp' = want[ch] /\ gate' = [gate EXCEPT ![ch] = "store"] /\ UNCHANGED want
    BY <1>6 DEF GateSend
  <2> QED
    BY <1>0, <1>3, <2>1, <2>2
<1>7. CASE GateStore(ch)
  <2>1. (want[ch] <=> Someone) /\ (lamp <=> want[ch])
    BY <1>2, <1>7 DEF GateStore
  <2>2. led_on' = want[ch] /\ UNCHANGED lamp /\ \A c \in Channel : gate'[c] = "idle"
    BY <1>0, <1>3, <1>7 DEF GateStore, LeaveGate
  <2> QED
    BY <2>1, <2>2
<1> QED
  BY <1>4, <1>5, <1>6, <1>7 DEF Gate

(* Every step of the AIRBOT driver. *)
LEMMA AirbotStep ==
  ASSUME Typed, driver = "airbot", AirbotInv, AirbotNext, UNCHANGED neroOnly
  PROVE  AirbotInv'
<1>0. /\ \A c \in Channel : ThreadSound(c)
      /\ GateSound /\ ~tracking /\ UNCHANGED tracking
      /\ pc \in [Channel -> Place]
  BY DEF AirbotInv, ThreadSound, neroOnly, arm, neroHistory, Typed, ThreadsTyped
<1>1. CASE Outside /\ UNCHANGED <<next, power, led>>
  <2>1. UNCHANGED <<pc, mode>>
    BY <1>1 DEF Outside, RequestMode, PublishCommand, PublishShutdown, Signal, threads
  <2> QED
    BY <1>0, <1>1, <2>1
    DEF AirbotInv, ThreadSound, MotorsFollow, FlagFollows, GateSound, led
<1>2. ASSUME NEW ch \in Channel, AirbotThread(ch) \/ AirbotFail(ch)
      PROVE  AirbotInv'
  <2>1. \A c \in Channel : ThreadSound(c)'
    BY <1>0, <1>2, ThreadSoundStep
  <2>2. GateSound'
    <3>1. ASSUME NEW value \in BOOLEAN, EnterGate(ch, value), NEW place, Goto(ch, place),
                 pc[ch] # "failed"
          PROVE  GateSound'
      <4>1. \A c \in Channel : c # ch => pc'[c] = pc[c]
        BY <1>0, <3>1 DEF Goto
      <4> QED
        BY <1>0, <3>1, <4>1, EnterSound
    <3>2. ASSUME UNCHANGED led, NEW place, Goto(ch, place), pc[ch] # "failed"
          PROVE  GateSound'
      BY <1>0, <3>2 DEF GateSound, led, Goto
    <3>3. CASE Boot(ch)
      BY <3>1, <3>2, <3>3 DEF Boot
    <3>4. CASE SameMode(ch)
      BY <3>2, <3>4 DEF SameMode, Loops
    <3>5. CASE ChangeMode(ch)
      BY <3>1, <3>2, <3>5 DEF ChangeMode, Loops
    <3>6. CASE SwitchPower(ch)
      BY <3>1, <3>2, <3>6 DEF SwitchPower
    <3>7. CASE Act(ch) \/ Disable(ch)
      BY <3>2, <3>7 DEF Act, Disable
    <3>8. CASE Exit(ch)
      BY <3>1, <3>8 DEF Exit, Leaves
    <3>9. CASE Gate(ch)
      BY <1>0, <3>9, GateSoundStep
    <3>10. CASE AirbotFail(ch)
      <4>1. pc'[ch] = "failed"
        BY <1>0, <3>10 DEF AirbotFail, Fail, Goto
      <4> QED
        BY <4>1 DEF GateSound
    <3> QED
      BY <1>2, <3>3, <3>4, <3>5, <3>6, <3>7, <3>8, <3>9, <3>10 DEF AirbotThread
  <2> QED
    BY <1>0, <2>1, <2>2 DEF AirbotInv, ThreadSound
<1> QED
  BY <1>1, <1>2 DEF AirbotNext

(* What the inductive invariant says of the lamp and of the motors. *)
LEMMA AirbotIsSound ==
  ASSUME Typed, driver = "airbot", AirbotInv
  PROVE  LedHonest /\ MotorsAsMode
<1>1. MotorsAsMode
  BY DEF AirbotInv, MotorsFollow, MotorsAsMode, Settled
<1>2. LedHonest
  <2> SUFFICES ASSUME ~crossed,
                      \A ch \in Channel : Settled(ch) \/ pc[ch] \in {"absent", "done"}
               PROVE  lamp <=> \E ch \in Channel : Settled(ch) /\ mode[ch] = "Identifying"
    BY DEF LedHonest
  <2>1. \A c \in Channel : gate[c] = "idle" /\ pc[c] # "failed"
    BY DEF Typed, InGate, Settled
  <2>2. lamp <=> Someone
    BY <2>1 DEF AirbotInv, GateSound, Someone
  <2>3. \A c \in Channel : identifying[c] <=> Settled(c) /\ mode[c] = "Identifying"
    BY DEF AirbotInv, FlagFollows, Settled
  <2> QED
    BY <2>2, <2>3 DEF Someone
<1> QED
  BY <1>1, <1>2

-----------------------------------------------------------------------------
(* Nero. *)

(* Steps that leave the arm alone; its thread may fail. *)
LEMMA ArmQuiet ==
  ASSUME Typed, ArmInv, UNCHANGED arm, mode'["arm"] = mode["arm"],
         pc'["arm"] \in {pc["arm"], "failed"}
  PROVE  ArmInv'
BY DEF ArmInv, HomingSound, HomedAtExit, TrackingSound, GoalOfThisStay, Desired, arm, ramp,
       follow, neroHistory

(* The joint moves, the first frame comes. *)
LEMMA ArmMovesStep ==
  ASSUME Typed, ArmInv, ArmMoves
  PROVE  ArmInv'
<1>1. sensed => sensed'
  BY DEF ArmMoves, Typed, NeroOK
<1>2. UNCHANGED <<pc, mode, ramp, follow, homing_left, neroHistory>>
  BY DEF ArmMoves, driverVars, threads
<1> QED
  BY <1>1, <1>2
  DEF ArmInv, HomingSound, HomedAtExit, TrackingSound, GoalOfThisStay, Desired, ramp,
      follow, neroHistory

(* A change of mode, before the first tick in it. *)
LEMMA ModeChangeStep ==
  ASSUME Typed, TrackingSound, GoalOfThisStay, NEW m \in Mode, OnModeChange(m)
  PROVE  TrackingSound' /\ GoalOfThisStay'
<1>0. /\ ~tracking' /\ UNCHANGED <<angle, sensed, sent>> /\ mode'["arm"] = m
      /\ sensed \in BOOLEAN /\ blind \in BOOLEAN
  BY DEF OnModeChange, Typed, ThreadsTyped, DriverOK, Channel, NeroOK
<1>1. CASE m = "Disabled"
  <2>1. StartRamp
    BY <1>1 DEF OnModeChange
  <2>2. ramping' /\ elapsed' = 0 /\ measured' = angle /\ (~blind' => sensed)
    BY <2>1, Zenon DEF StartRamp
  <2>3. sensed => q_start' = angle
    BY <2>1 DEF StartRamp
  <2> QED
    BY <1>0, <1>1, <2>2, <2>3 DEF TrackingSound, GoalOfThisStay
<1>2. CASE m = "CommandFollowing"
  <2>1. ~targeted' /\ ~anchored'
    BY <1>2 DEF OnModeChange, ForgetTargets
  <2>2. ~ramping' => elapsed' = 0
    BY <1>2 DEF OnModeChange, DropRamp, TrackingSound, ramp
  <2> QED
    BY <1>0, <1>2, <2>1, <2>2 DEF TrackingSound, GoalOfThisStay
<1>3. CASE m \notin {"Disabled", "CommandFollowing"}
  <2>1. ~ramping' => elapsed' = 0
    BY <1>3 DEF OnModeChange, DropRamp, TrackingSound, ramp
  <2> QED
    BY <1>0, <1>3, <2>1 DEF TrackingSound, GoalOfThisStay
<1> QED
  BY <1>1, <1>2, <1>3

(* The control step: what was sent, and how long ago. *)
LEMMA ControlTracks ==
  ASSUME Typed, TrackingSound, GoalOfThisStay, Control
  PROVE  TrackingSound' /\ GoalOfThisStay'
<1>0. NeroOK /\ UNCHANGED <<mode, sensed, angle, measured, blind>>
  BY DEF Typed, Control
<1>1. PICK d \in 1 .. MaxDelay :
        elapsed' = IF ramping' /\ elapsed + d < RampTime THEN elapsed + d
                   ELSE IF ramping' THEN RampTime ELSE 0
  BY DEF Control, Passes
<1>2. ~ramping' => elapsed' = 0
  BY <1>1
<1>3. ramping' => elapsed <= elapsed' /\ elapsed' <= elapsed + MaxDelay
  BY <1>0, <1>1, TimeAssumption DEF NeroOK
<1>4. CASE SkipTick
  <2>1. ~sensed /\ UNCHANGED <<ramping, q_start, follow, sent, tracking>>
    BY <1>4 DEF SkipTick
  <2> QED
    BY <1>0, <1>2, <2>1 DEF TrackingSound, GoalOfThisStay, follow
<1>5. CASE HoldDisabled
  <2>1. /\ sensed /\ mode["arm"] = "Disabled" /\ ramping' /\ tracking'
        /\ sent' = Desired(q_start', elapsed)
    BY <1>5 DEF HoldDisabled, Send
  <2>2. elapsed \in 0 .. elapsed'
    BY <1>0, <1>3, <2>1, TimeAssumption, ControlTyped DEF NeroOK
  <2>3. \E t \in 0 .. elapsed' : elapsed' <= t + MaxDelay /\ sent' = Desired(q_start', t)
    BY <1>3, <2>1, <2>2
  <2>4. Desired(q_start, 0)' = Desired(q_start', 0)
    BY DEF Desired
  <2> QED
    BY <1>0, <2>1, <2>3 DEF TrackingSound, GoalOfThisStay, Desired
<1>6. CASE Float
  BY <1>0, <1>2, <1>6 DEF Float, Send, TrackingSound, GoalOfThisStay
<1>7. CASE Follow
  <2>1. /\ sensed /\ mode["arm"] = "CommandFollowing"
        /\ last_sent' = sent' /\ anchored' /\ tracking'
    BY <1>7 DEF Follow, TakeCommand, HoldTarget, SendClamped, Send
  <2>2. targeted' => commanded' /\ target' = goal'
    <3>1. CASE TakeCommand
      BY <3>1 DEF TakeCommand, KeepGoal
    <3>2. CASE HoldTarget
      <4>1. UNCHANGED <<target, targeted, goal, commanded>>
        BY <3>2 DEF HoldTarget
      <4> QED
        BY <2>1, <4>1 DEF GoalOfThisStay
    <3> QED
      BY <1>7, <3>1, <3>2 DEF Follow
  <2> QED
    BY <1>0, <1>2, <2>1, <2>2 DEF TrackingSound, GoalOfThisStay
<1> QED
  BY <1>4, <1>5, <1>6, <1>7 DEF Control

(* A tick while homing: the ramp is over before the time is. *)
LEMMA HomingTickStep ==
  ASSUME Typed, ArmInv, HomingTick
  PROVE  HomingSound'
<1>0. /\ NeroOK /\ pc["arm"] = "homing" /\ UNCHANGED <<pc, mode, sensed, homed>> /\ Control
      /\ mode["arm"] = "Disabled" /\ homing_left > 0
      /\ homed => sensed
      /\ homed => (elapsed = RampTime \/ homing_left + elapsed >= RampTime + Settle)
  BY DEF Typed, HomingTick, Control, ArmInv, HomingSound
<1> SUFFICES ASSUME homed
             PROVE  /\ elapsed' = RampTime \/ homing_left' + elapsed' >= RampTime + Settle
                    /\ homing_left' = 0 => tracking' /\ sent' = HoldQ
  BY <1>0 DEF HomingSound, HomedAtExit
<1>1. /\ HoldDisabled /\ ramping' /\ tracking' /\ sent' = Desired(q_start', elapsed)
  BY <1>0 DEF Control, SkipTick, HoldDisabled, Float, Follow, Send
<1>2. PICK d \in 1 .. MaxDelay :
        /\ elapsed' = IF elapsed + d < RampTime THEN elapsed + d ELSE RampTime
        /\ homing_left' = IF homing_left > d THEN homing_left - d ELSE 0
  BY <1>0, <1>1 DEF Control, Passes
<1>3. elapsed \in 0 .. RampTime /\ homing_left \in Nat
  BY <1>0, TimeAssumption DEF NeroOK
<1>4. elapsed' = RampTime \/ homing_left' + elapsed' >= RampTime + Settle
  BY <1>0, <1>2, <1>3, TimeAssumption
<1>5. homing_left' = 0 => elapsed = RampTime
  BY <1>0, <1>2, <1>3, TimeAssumption
<1>6. homing_left' = 0 => sent' = HoldQ
  BY <1>1, <1>5, TimeAssumption DEF Desired
<1> QED
  BY <1>1, <1>4, <1>6

(* Every step of the arm's thread. *)
LEMMA ArmStep ==
  ASSUME Typed, ArmInv,
         PollMode \/ Tick \/ BeginHoming \/ HomingTick \/ HomingDone
  PROVE  ArmInv'
<1>0. /\ NeroOK /\ pc \in [Channel -> Place] /\ mode \in [Channel -> Mode]
      /\ NextMode("arm") \in Mode /\ "arm" \in Channel /\ "Disabled" \in Mode
  BY DEF Typed, ThreadsTyped, DriverOK, Channel, NextMode, Mode
<1>1. CASE PollMode
  <2>1. pc'["arm"] = "act" /\ UNCHANGED homed /\ (homed => sensed)
    BY <1>0, <1>1 DEF PollMode, Goto, ArmInv, HomingSound
  <2>2. CASE OnModeChange(NextMode("arm"))
    <3>1. TrackingSound' /\ GoalOfThisStay'
      BY <1>0, <2>2, ModeChangeStep DEF ArmInv
    <3>2. HomingSound'
      BY <2>1, <2>2 DEF OnModeChange, HomingSound, HomedAtExit
    <3> QED
      BY <3>1, <3>2 DEF ArmInv
  <2>3. CASE UNCHANGED <<mode, angle, sensed, ramp, follow, sent, tracking, measured, blind>>
    BY <2>1, <2>3
    DEF ArmInv, HomingSound, HomedAtExit, TrackingSound, GoalOfThisStay, Desired, ramp, follow
  <2> QED
    BY <1>1, <2>2, <2>3 DEF PollMode
<1>2. CASE Tick
  <2>1. pc'["arm"] = "check" /\ UNCHANGED <<homed, sensed>> /\ (homed => sensed)
    BY <1>0, <1>2 DEF Tick, Control, Goto, ArmInv, HomingSound
  <2> QED
    BY <1>2, <2>1, ControlTracks DEF Tick, ArmInv, HomingSound, HomedAtExit
<1>3. CASE HomingTick
  BY <1>3, ControlTracks, HomingTickStep DEF HomingTick, ArmInv
<1>4. CASE BeginHoming
  <2>1. /\ pc'["arm"] = "homing" /\ homed' = sensed /\ UNCHANGED sensed
        /\ homing_left' = RampTime + Settle
        /\ mode'["arm"] = "Disabled" /\ elapsed' = 0
    BY <1>0, <1>4
    DEF BeginHoming, Goto, HomingTime, OnModeChange, StartRamp, DropRamp
  <2>2. HomingSound'
    BY <2>1, TimeAssumption DEF HomingSound, HomedAtExit
  <2>3. CASE OnModeChange("Disabled")
    BY <1>0, <2>2, <2>3, ModeChangeStep DEF ArmInv
  <2>4. CASE DropRamp /\ tracking' = FALSE /\ UNCHANGED mode
    BY <2>1, <2>2, <2>4 DEF ArmInv, DropRamp, TrackingSound, GoalOfThisStay
  <2> QED
    BY <1>4, <2>3, <2>4 DEF BeginHoming
<1>5. CASE HomingDone
  <2>1. pc["arm"] = "homing" /\ homing_left = 0 /\ pc'["arm"] = "done" /\ UNCHANGED <<mode, arm>>
    BY <1>0, <1>5 DEF HomingDone, Goto
  <2> QED
    BY <2>1
    DEF ArmInv, HomingSound, HomedAtExit, TrackingSound, GoalOfThisStay, Desired, arm, ramp,
        follow, neroHistory
<1> QED
  BY <1>1, <1>2, <1>3, <1>4, <1>5

(* Every step of the Nero driver. *)
LEMMA NeroStep ==
  ASSUME Typed, NeroInv, NeroNext
  PROVE  NeroInv'
<1>0. /\ ArmInv /\ (mode["eef"] = "Identifying" => identify_started)
      /\ pc \in [Channel -> Place] /\ mode \in [Channel -> Mode]
      /\ "arm" \in Channel /\ "eef" \in Channel
  BY DEF NeroInv, Typed, ThreadsTyped, DriverOK, Channel
<1>1. CASE Outside /\ UNCHANGED <<arm, identify_started>>
  <2>1. UNCHANGED <<pc, mode>>
    BY <1>1 DEF Outside, RequestMode, PublishCommand, PublishShutdown, Signal, threads
  <2> QED
    BY <1>0, <1>1, <2>1, ArmQuiet DEF NeroInv
<1>2. CASE ArmMoves
  BY <1>0, <1>2, ArmMovesStep DEF NeroInv, ArmMoves, driverVars
<1>3. CASE PollMode \/ Tick \/ BeginHoming \/ HomingTick \/ HomingDone
  <2>1. mode'["eef"] = mode["eef"] /\ UNCHANGED identify_started
    BY <1>0, <1>3
    DEF PollMode, Tick, Control, BeginHoming, HomingTick, HomingDone, OnModeChange
  <2> QED
    BY <1>0, <1>3, <2>1, ArmStep DEF NeroInv
<1>4. CASE PollGripperMode \/ GripperTick \/ GripperExit
  <2>1. /\ UNCHANGED arm /\ mode'["arm"] = mode["arm"] /\ pc'["arm"] = pc["arm"]
        /\ mode'["eef"] = "Identifying" => identify_started'
    BY <1>0, <1>4 DEF PollGripperMode, GripperTick, GripperExit, Goto
  <2> QED
    BY <1>0, <2>1, ArmQuiet DEF NeroInv
<1>5. CASE \E ch \in Channel : Fail(ch) /\ UNCHANGED <<arm, identify_started>>
  <2>1. pc'["arm"] \in {pc["arm"], "failed"} /\ UNCHANGED <<mode, arm, identify_started>>
    BY <1>0, <1>5 DEF Fail, Goto
  <2> QED
    BY <1>0, <2>1, ArmQuiet DEF NeroInv
<1> QED
  BY <1>1, <1>2, <1>3, <1>4, <1>5 DEF NeroNext, NeroThread

(* The inductive invariant. *)
LEMMA InductiveHolds == Spec => []Inductive
<1>1. Init => Inductive
  <2> SUFFICES ASSUME Init PROVE Inductive
    OBVIOUS
  <2>1. Typed
    BY InitTyped
  <2>2. CommandsSound
    BY DEF Init, AirbotInit, NeroInit, ThreadsInit, CommandsSound, Empty
  <2>3. ASSUME driver = "airbot" PROVE AirbotInv
    <3>1. /\ \E boot : ThreadsInit(boot, "start")
          /\ LedInit /\ ArmInit
      BY <2>3 DEF Init, AirbotInit
    <3>2. /\ \A ch \in Channel : pc[ch] \in {"start", "absent"}
          /\ \A ch \in Channel : ~identifying[ch] /\ gate[ch] = "idle"
          /\ ~lamp /\ ~led_on /\ ~tracking
      BY <3>1 DEF ThreadsInit, LedInit, ArmInit
    <3> QED
      BY <3>2 DEF AirbotInv, MotorsFollow, FlagFollows, GateSound
  <2>4. ASSUME driver = "nero" PROVE NeroInv
    <3>1. /\ \E boot : ThreadsInit(boot, "check")
          /\ GripperInit /\ ArmInit
      BY <2>4 DEF Init, NeroInit
    <3>2. pc["arm"] \in {"check", "absent"}
      BY <3>1 DEF ThreadsInit, Channel
    <3>3. /\ ~homed /\ ~tracking /\ ~ramping /\ ~anchored /\ ~targeted /\ elapsed = 0
          /\ mode["eef"] = "Identifying" => identify_started
      BY <3>1 DEF ArmInit, GripperInit
    <3> QED
      BY <3>2, <3>3 DEF NeroInv, ArmInv, HomingSound, HomedAtExit, TrackingSound, GoalOfThisStay
  <2> QED
    BY <2>1, <2>2, <2>3, <2>4 DEF Inductive
<1>2. Inductive /\ [Next]_vars => Inductive'
  <2> SUFFICES ASSUME Inductive, [Next]_vars PROVE Inductive'
    OBVIOUS
  <2>1. Typed' /\ CommandsSound' /\ Typed
    BY TypedStep, CommandsStep DEF Inductive
  <2>2. CASE UNCHANGED vars
    BY <2>1, <2>2
    DEF Inductive, AirbotInv, MotorsFollow, FlagFollows, GateSound, NeroInv, ArmInv, HomingSound,
        HomedAtExit, TrackingSound, GoalOfThisStay, Desired, vars, airbotVars, neroVars,
        driverVars, threads, led, arm, ramp, follow, neroHistory
  <2>3. CASE driver = "airbot" /\ AirbotNext /\ UNCHANGED <<driver, neroOnly>>
    BY <2>1, <2>3, AirbotStep DEF Inductive
  <2>4. CASE driver = "nero" /\ NeroNext /\ UNCHANGED <<driver, airbotOnly>>
    BY <2>1, <2>4, NeroStep DEF Inductive
  <2> QED
    BY <2>2, <2>3, <2>4 DEF Next, Joined
<1> QED
  BY <1>1, <1>2, PTL DEF Spec

(* The hardware is as its channels ask (IdentifyLedGate, set_arm_state and   *)
(* set_eef_state in device.rs, the homing in arm.py): the LED tells whether  *)
(* somebody identifies, the motors have the state of the mode, the Nero arm  *)
(* that had feedback ends parked, the gripper's pattern has its start, and a *)
(* target that is held is the goal of this stay's last command.              *)
THEOREM HardwareFollows == Spec => []DriverSound
<1>1. Inductive => DriverSound
  <2> SUFFICES ASSUME Inductive PROVE DriverSound
    OBVIOUS
  <2>1. TypeOK
    BY DEF Inductive, Typed, ThreadsTyped, TypeOK
  <2>2. driver = "airbot" => LedHonest /\ MotorsAsMode
    BY AirbotIsSound DEF Inductive
  <2>3. driver = "nero" => HomedAtExit /\ IdentifyHasStart /\ GoalOfThisStay
    BY DEF Inductive, NeroInv, ArmInv, HomingSound, IdentifyHasStart
  <2> QED
    BY <2>1, <2>2, <2>3 DEF DriverSound
<1> QED
  BY <1>1, InductiveHolds, PTL

-----------------------------------------------------------------------------
(* No snap. *)

(* Division by the ramp's duration rounds down. *)
LEMMA Rounds ==
  ASSUME NEW n \in Int
  PROVE  /\ n \div RampTime \in Int
         /\ RampTime * (n \div RampTime) <= n
         /\ n < RampTime * (n \div RampTime) + RampTime
BY TimeAssumption

(* A product is at most one with a larger factor. *)
LEMMA Grows ==
  ASSUME NEW a \in Nat, NEW m \in Int, NEW n \in Int, m <= n
  PROVE  a * m <= a * n
<1>1. PICK k \in Nat : n = m + k
  BY n - m \in Nat
<1>2. a * n = a * m + a * k
  BY <1>1
<1>3. a * k >= 0
  OBVIOUS
<1> QED
  BY <1>2, <1>3

(* Two numbers that are at most g apart are at most g / RampTime, rounded up, *)
(* apart once divided.                                                        *)
LEMMA QuotientGap ==
  ASSUME NEW m \in Int, NEW n \in Int, NEW g \in Nat, m <= n, n <= m + g
  PROVE  /\ 0 <= n \div RampTime - m \div RampTime
         /\ n \div RampTime - m \div RampTime <= (g + RampTime - 1) \div RampTime
<1> DEFINE x == m \div RampTime
           y == n \div RampTime
           z == (g + RampTime - 1) \div RampTime
<1>0. RampTime \in Nat \ {0} /\ g + RampTime - 1 \in Int
  BY TimeAssumption
<1>1. /\ x \in Int /\ RampTime * x <= m /\ m < RampTime * x + RampTime
      /\ y \in Int /\ RampTime * y <= n /\ n < RampTime * y + RampTime
      /\ z \in Int /\ g + RampTime - 1 < RampTime * z + RampTime
  BY <1>0, Rounds
<1> SUFFICES x <= y /\ y <= x + z
  BY <1>1
<1> HIDE DEF x, y, z
<1>2. x <= y
  <2> SUFFICES ASSUME y + 1 <= x PROVE FALSE
    BY <1>1
  <2>1. RampTime * (y + 1) <= RampTime * x
    BY <1>0, <1>1, Grows
  <2>2. RampTime * (y + 1) = RampTime * y + RampTime
    BY <1>0, <1>1
  <2>3. RampTime * x \in Int /\ RampTime * y \in Int
    BY <1>0, <1>1
  <2> QED
    BY <1>0, <1>1, <2>1, <2>2, <2>3
<1>3. y <= x + z
  <2> SUFFICES ASSUME x + z + 1 <= y PROVE FALSE
    BY <1>1
  <2>1. RampTime * (x + z + 1) <= RampTime * y
    BY <1>0, <1>1, Grows
  <2>2. RampTime * (x + z + 1) = RampTime * x + RampTime * z + RampTime
    BY <1>0, <1>1
  <2>3. RampTime * x \in Int /\ RampTime * y \in Int /\ RampTime * z \in Int
    BY <1>0, <1>1
  <2> QED
    BY <1>0, <1>1, <2>1, <2>2, <2>3
<1> QED
  BY <1>2, <1>3

(* How far the ramp moves in the time between two ticks. *)
LEMMA RampGap ==
  ASSUME NEW a \in Int, NEW s \in Nat, NEW t \in Nat, s <= t, t <= s + MaxDelay
  PROVE  Abs((a * t) \div RampTime - (a * s) \div RampTime)
           <= (Abs(a) * MaxDelay + RampTime - 1) \div RampTime
<1>0. MaxDelay \in Nat
  BY TimeAssumption
<1>1. CASE a >= 0
  <2>1. a * s <= a * t /\ a * t <= a * (s + MaxDelay)
    BY <1>0, <1>1, Grows
  <2>2. a * (s + MaxDelay) = a * s + a * MaxDelay
    BY <1>0
  <2> DEFINE m == a * s
             n == a * t
             g == a * MaxDelay
  <2>3. m \in Int /\ n \in Int /\ g \in Nat /\ m <= n /\ n <= m + g
    BY <1>0, <1>1, <2>1, <2>2
  <2> HIDE DEF m, n, g
  <2>4. /\ 0 <= n \div RampTime - m \div RampTime
        /\ n \div RampTime - m \div RampTime <= (g + RampTime - 1) \div RampTime
    BY <2>3, QuotientGap
  <2>5. Abs(n \div RampTime - m \div RampTime) <= (g + RampTime - 1) \div RampTime
    BY <2>3, <2>4, Rounds DEF Abs
  <2> QED
    BY <1>1, <2>5 DEF m, n, g, Abs
<1>2. CASE a < 0
  <2>0. PICK b \in Nat : a = -b
    BY <1>2
  <2>1. b * s <= b * t /\ b * t <= b * (s + MaxDelay)
    BY <1>0, Grows
  <2>2. /\ b * (s + MaxDelay) = b * s + b * MaxDelay
        /\ a * s = -(b * s) /\ a * t = -(b * t)
    BY <1>0, <2>0
  <2> DEFINE m == a * t
             n == a * s
             g == b * MaxDelay
  <2>3. m \in Int /\ n \in Int /\ g \in Nat /\ m <= n /\ n <= m + g
    BY <1>0, <2>1, <2>2
  <2>4. Abs(a) = b
    BY <1>2, <2>0 DEF Abs
  <2> HIDE DEF m, n, g
  <2>5. /\ 0 <= n \div RampTime - m \div RampTime
        /\ n \div RampTime - m \div RampTime <= (g + RampTime - 1) \div RampTime
    BY <2>3, QuotientGap
  <2>6. Abs(m \div RampTime - n \div RampTime) <= (g + RampTime - 1) \div RampTime
    BY <2>3, <2>5, Rounds DEF Abs
  <2> QED
    BY <2>4, <2>6 DEF m, n, g
<1> QED
  BY <1>1, <1>2

(* The ramp is a rounded line; its end is on it. *)
LEMMA RampLine ==
  ASSUME NEW start \in Int, NEW time \in 0 .. RampTime
  PROVE  Desired(start, time) = start + ((HoldQ - start) * time) \div RampTime
<1>1. CASE time < RampTime
  BY <1>1, TimeAssumption DEF Desired
<1>2. CASE time = RampTime
  <2>1. \A n \in Int : (n * RampTime) \div RampTime = n
    BY TimeAssumption
  <2> QED
    BY <1>2, <2>1, AngleAssumption, TimeAssumption DEF Desired
<1> QED
  BY <1>1, <1>2, TimeAssumption

(* The clamp moves no further than MaxDelta. *)
LEMMA ClampBound ==
  ASSUME NEW p \in Int, NEW ref \in Int
  PROVE  Abs(Clamp(p, ref) - ref) <= MaxDelta
BY ClampAssumption DEF Clamp, Abs

(* Distances. *)
LEMMA AbsFacts == (\A n \in Int : Abs(n) \in Nat) /\ (\A n \in Int : Abs(n - n) = 0)
BY DEF Abs

(* A target may always stay where it is. *)
LEMMA ReachPositive ==
  ASSUME Typed, Typed'
  PROVE  Reach >= 0
<1>1. Abs(HoldQ - q_start') \in Nat /\ MaxDelay \in Nat
  <2>1. q_start' \in Int
    BY DEF Typed, NeroOK
  <2>2. HoldQ - q_start' \in Int
    BY <2>1, AngleAssumption
  <2> QED
    BY <2>2, AbsFacts, TimeAssumption
<1> DEFINE g == Abs(HoldQ - q_start') * MaxDelay
<1>2. g \in Nat
  BY <1>1
<1> HIDE DEF g
<1>3. 0 <= (g + RampTime - 1) \div RampTime
  <2>1. 0 \div RampTime - 0 \div RampTime <= (g + RampTime - 1) \div RampTime
    BY <1>2, QuotientGap
  <2>2. 0 \div RampTime \in Int /\ (g + RampTime - 1) \div RampTime \in Int
    BY <1>2, Rounds, TimeAssumption
  <2> QED
    BY <2>1, <2>2
<1> QED
  BY <1>3, ClampAssumption DEF Reach, g

(* The control step sends nothing far from what it sent before, or from     *)
(* where the arm was found.                                                  *)
LEMMA ControlIsNear ==
  ASSUME Typed, Typed', TrackingSound, Control, tracking', ~blind
  PROVE  Abs(sent' - Reference) <= Reach
<1>0. NeroOK /\ NeroOK' /\ angle \in Int
  BY AngleAssumption DEF Typed, NeroOK
<1>1. CASE SkipTick
  <2>1. tracking /\ sent' = sent
    BY <1>1 DEF SkipTick
  <2>2. Abs(sent' - sent) = 0
    BY <1>0, <2>1 DEF NeroOK, Abs
  <2> QED
    BY <2>1, <2>2, ReachPositive DEF Reference
<1>2. CASE HoldDisabled
  <2>1. /\ mode["arm"] = "Disabled" /\ sent' = Desired(q_start', elapsed)
        /\ q_start' = IF ramping THEN q_start ELSE angle
    BY <1>2 DEF HoldDisabled, Send
  <2>2. elapsed \in 0 .. RampTime /\ q_start \in Int /\ q_start' \in Int
    BY <1>0 DEF NeroOK
  <2>3. CASE tracking
    <3>1. PICK t \in 0 .. elapsed : elapsed <= t + MaxDelay /\ sent = Desired(q_start, t)
      BY <2>1, <2>3 DEF TrackingSound
    <3>2. q_start' = q_start /\ t \in 0 .. RampTime
      BY <2>1, <2>2, <2>3, TimeAssumption DEF TrackingSound
    <3> DEFINE a == HoldQ - q_start
               x == (a * elapsed) \div RampTime
               y == (a * t) \div RampTime
    <3>3. a \in Int /\ a * elapsed \in Int /\ a * t \in Int
      BY <2>2, AngleAssumption, TimeAssumption
    <3>4. x \in Int /\ y \in Int
      BY <3>3, Rounds
    <3>5. sent' = q_start + x /\ sent = q_start + y
      BY <2>1, <2>2, <3>1, <3>2, RampLine
    <3>6. Abs(x - y) <= (Abs(a) * MaxDelay + RampTime - 1) \div RampTime
      BY <2>2, <3>1, <3>3, RampGap, TimeAssumption
    <3>7. Reach = (Abs(a) * MaxDelay + RampTime - 1) \div RampTime
      BY <2>1, <3>2 DEF Reach
    <3> HIDE DEF a, x, y
    <3>8. sent' - sent = x - y
      BY <2>2, <3>4, <3>5
    <3> QED
      BY <2>3, <3>6, <3>7, <3>8 DEF Reference
  <2>4. CASE ~tracking
    <3>1. elapsed = 0 /\ q_start' = Reference
      BY <2>1, <2>4 DEF TrackingSound, Reference
    <3>2. sent' = q_start'
      <4>1. (HoldQ - q_start') * 0 = 0 /\ 0 \div RampTime = 0
        <5>1. HoldQ - q_start' \in Int
          BY <2>2, AngleAssumption
        <5>2. \A n \in Int : n * 0 = 0
          OBVIOUS
        <5>3. 0 \div RampTime = 0
          BY TimeAssumption
        <5> QED
          BY <5>1, <5>2, <5>3
      <4>2. sent' = q_start' + ((HoldQ - q_start') * 0) \div RampTime
        BY <2>1, <2>2, <3>1, RampLine, TimeAssumption
      <4> QED
        BY <2>2, <4>1, <4>2
    <3>3. Abs(sent' - q_start') = 0
      BY <2>2, <3>2, AbsFacts
    <3> QED
      BY <2>4, <3>1, <3>3, ReachPositive
  <2> QED
    BY <2>3, <2>4
<1>3. CASE Float
  BY <1>3 DEF Float, Send
<1>4. CASE Follow
  <2>1. PICK p \in Int : SendClamped(p)
    BY <1>0, <1>4, AnglesTyped DEF Follow, TakeCommand, HoldTarget, NeroOK
  <2> DEFINE ref == IF anchored THEN last_sent ELSE angle
  <2>2. sent' = Clamp(p, ref) /\ mode["arm"] = "CommandFollowing"
    BY <1>4, <2>1 DEF SendClamped, Send, Follow
  <2>3. ref \in Int
    BY <1>0 DEF NeroOK
  <2>4. ref = Reference
    BY <2>2 DEF TrackingSound, Reference
  <2>5. Reach = MaxDelta
    BY <2>2 DEF Reach
  <2> HIDE DEF ref
  <2> QED
    BY <2>2, <2>3, <2>4, <2>5, ClampBound
<1> QED
  BY <1>1, <1>2, <1>3, <1>4 DEF Control

(* The Nero arm is never sent a target that snaps (_DisabledRamp.desired and *)
(* _clamp_p_des_to_max_joint_delta in arm.py): for every pose, ramp          *)
(* duration, clamp and lateness of the ticks.                                *)
THEOREM NeverSnaps == Spec => NoSnap
<1>1. ASSUME Inductive, Inductive', [Next]_vars
      PROVE  [(pc["arm"] \in {"act", "homing"} /\ tracking' /\ ~blind)
                => Abs(sent' - Reference) <= Reach]_<<pc, arm>>
  <2> SUFFICES ASSUME ~UNCHANGED <<pc, arm>>, pc["arm"] \in {"act", "homing"}, tracking', ~blind
               PROVE  Abs(sent' - Reference) <= Reach
    OBVIOUS
  <2>1. driver = "nero" /\ NeroNext
    <3>1. driver' = driver
      BY <1>1 DEF Next, Joined, vars
    <3>2. driver # "airbot"
      BY <1>1, <3>1 DEF Inductive, AirbotInv
    <3> QED
      BY <1>1, <3>2
      DEF Next, Joined, vars, airbotVars, neroVars, driverVars, threads, arm
  <2>2. Typed /\ Typed' /\ TrackingSound
    BY <1>1, <2>1 DEF Inductive, NeroInv, ArmInv
  <2>3. CASE Control
    BY <2>2, <2>3, ControlIsNear
  <2>4. CASE UNCHANGED <<sent, tracking>>
    <3>1. tracking /\ Abs(sent' - sent) = 0
      BY <2>2, <2>4 DEF Typed, NeroOK, Abs
    <3> QED
      BY <2>2, <2>4, <3>1, ReachPositive DEF Reference
  <2> QED
    BY <2>1, <2>3, <2>4
    DEF NeroNext, NeroThread, ArmMoves, PollMode, Loops, Tick, BeginHoming, Leaves, HomingTick,
        HomingDone, PollGripperMode, GripperTick, GripperExit, Fail, arm, neroHistory
<1> QED
  BY <1>1, InductiveHolds, PTL DEF Spec, NoSnap
=============================================================================
