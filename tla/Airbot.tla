------------------------------- MODULE Airbot -------------------------------
(***************************************************************************)
(* The AIRBOT Play driver (robots/airbot_play_rust/src/bin/device.rs): the *)
(* two channel threads, the state they put the motors in, and the base LED *)
(* they share through IdentifyLedGate.  The gate has no lock; its accesses *)
(* are steps of their own.  A tick's commands are handed to the vendor's   *)
(* client, which is external, as are the motors.                           *)
(***************************************************************************)
EXTENDS DriverThreads

VARIABLES
  next,          \* next_mode of a change under way
  power,         \* state of the motors: set_arm_state, set_eef_state
  identifying,   \* arm_identifying, eef_identifying
  led_on,        \* what the gate remembers
  lamp,          \* the LED itself
  want,          \* local to sync
  gate,          \* where a thread is in sync
  crossed        \* history: two calls of the gate have overlapped

led == <<identifying, led_on, lamp, want, gate, crossed>>
airbotVars == <<driverVars, next, power, led>>

(* arm_state_for_mode, eef_state_for_mode *)
StateForMode(ch, m) ==
  IF m = "Disabled" THEN "Disabled"
  ELSE IF ch = "eef" THEN "Enabled"
  ELSE IF m = "Identifying" THEN "FreeDrive" ELSE m

LedInit ==
  /\ identifying = [ch \in Channel |-> FALSE]
  /\ led_on = FALSE /\ lamp = FALSE
  /\ want = [ch \in Channel |-> FALSE]
  /\ gate = [ch \in Channel |-> "idle"]
  /\ crossed = FALSE

MotorsInit ==
  /\ next = mode
  /\ power = [ch \in Channel |-> "Disabled"]

AirbotInit(boot) == ThreadsInit(boot, "start") /\ MotorsInit /\ LedInit

-----------------------------------------------------------------------------
(* IdentifyLedGate. *)

(* set_arm_identifying and set_eef_identifying begin with a store. *)
EnterGate(ch, value) ==
  /\ identifying' = [identifying EXCEPT ![ch] = value]
  /\ gate' = [gate EXCEPT ![ch] = "load"]
  /\ crossed' = (crossed \/ \E c \in Channel : gate[c] # "idle")
  /\ UNCHANGED <<led_on, lamp, want>>

(* The caller goes on; only a thread that switched has a new mode. *)
LeaveGate(ch) ==
  /\ gate' = [gate EXCEPT ![ch] = "idle"]
  /\ want' = [want EXCEPT ![ch] = FALSE]
  /\ pc' = [pc EXCEPT ![ch] = CASE @ = "booting"   -> "check"
                                [] @ = "leaving"   -> "power"
                                [] @ = "switching" -> "act"
                                [] @ = "exiting"   -> "disable"]
  /\ mode' = IF pc[ch] = "switching" THEN [mode EXCEPT ![ch] = next[ch]] ELSE mode

(* Mutant: a channel looks at its own flag only. *)
WantOwn(ch) == identifying[ch]

Want(ch) == \E c \in Channel : identifying[c]

(* Two loads, one step: the thread's own flag stays put while it is in sync. *)
GateLoad(ch) ==
  /\ gate[ch] = "load"
  /\ want' = [want EXCEPT ![ch] = Want(ch)]
  /\ gate' = [gate EXCEPT ![ch] = "compare"]
  /\ UNCHANGED <<pc, mode, identifying, led_on, lamp>>

GateCompare(ch) ==
  /\ gate[ch] = "compare"
  /\ IF want[ch] = led_on
       THEN LeaveGate(ch)
       ELSE gate' = [gate EXCEPT ![ch] = "send"] /\ UNCHANGED <<pc, mode, want>>
  /\ UNCHANGED <<identifying, led_on, lamp>>

GateSend(ch) ==
  /\ gate[ch] = "send"
  /\ lamp' = want[ch]
  /\ gate' = [gate EXCEPT ![ch] = "store"]
  /\ UNCHANGED <<pc, mode, identifying, led_on, want>>

GateStore(ch) ==
  /\ gate[ch] = "store"
  /\ led_on' = want[ch]
  /\ LeaveGate(ch)
  /\ UNCHANGED <<identifying, lamp>>

Gate(ch) ==
  /\ GateLoad(ch) \/ GateCompare(ch) \/ GateSend(ch) \/ GateStore(ch)
  /\ UNCHANGED <<stop, shutdown, traffic, outdated, next, power, crossed>>

-----------------------------------------------------------------------------
(* run_arm_channel, run_eef_channel *)

SetState(ch, state) == power' = [power EXCEPT ![ch] = state]

Boot(ch) ==
  /\ pc[ch] = "start"
  /\ SetState(ch, StateForMode(ch, mode[ch]))
  /\ IF mode[ch] = "Identifying"
       THEN Goto(ch, "booting") /\ EnterGate(ch, TRUE)
       ELSE Goto(ch, "check") /\ UNCHANGED led
  /\ UNCHANGED <<stop, shutdown, mode, traffic, outdated, next>>

SameMode(ch) ==
  /\ Loops(ch) /\ NextMode(ch) = mode[ch]
  /\ TakeRequest(ch) /\ Goto(ch, "act")
  /\ UNCHANGED <<stop, shutdown, mode, queue, requests, commands, fed, outdated, next, power, led>>

ChangeMode(ch) ==
  /\ Loops(ch) /\ NextMode(ch) # mode[ch]
  /\ TakeRequest(ch)
  /\ next' = [next EXCEPT ![ch] = NextMode(ch)]
  /\ IF mode[ch] = "Identifying"
       THEN Goto(ch, "leaving") /\ EnterGate(ch, FALSE)
       ELSE Goto(ch, "power") /\ UNCHANGED led
  /\ UNCHANGED <<stop, shutdown, mode, queue, requests, commands, fed, outdated, power>>

SwitchPower(ch) ==
  /\ pc[ch] = "power"
  /\ SetState(ch, StateForMode(ch, next[ch]))
  /\ IF next[ch] = "Identifying"
       THEN Goto(ch, "switching") /\ EnterGate(ch, TRUE) /\ UNCHANGED mode
       ELSE Goto(ch, "act") /\ mode' = [mode EXCEPT ![ch] = next[ch]] /\ UNCHANGED led
  /\ UNCHANGED <<stop, shutdown, traffic, outdated, next>>

(* Mutant: commands are left alone while nobody follows them. *)
UndrainedUnlessFollowing(ch) ==
  IF mode[ch] = "CommandFollowing" THEN {} ELSE Topic(ch)

(* Commands that a tick leaves where they are: in every mode, none. *)
Undrained(ch) == {}

(* The arm submits each kind; of the end effector's the MIT command wins. *)
Submitted(ch) ==
  IF mode[ch] # "CommandFollowing" THEN {}
  ELSE IF ch = "eef" /\ "parallel_mit" \in Waiting(ch) THEN {"parallel_mit"}
  ELSE Waiting(ch)

Act(ch) ==
  /\ pc[ch] = "act"
  /\ DrainCommands(ch, Undrained(ch), Submitted(ch))
  /\ Goto(ch, "check")
  /\ UNCHANGED <<stop, shutdown, mode, requested, requests, commands, fed, next, power, led>>

Exit(ch) ==
  /\ Leaves(ch)
  /\ Goto(ch, "exiting") /\ EnterGate(ch, FALSE)
  /\ UNCHANGED <<stop, shutdown, mode, traffic, outdated, next, power>>

(* Mutant: a thread leaves without disabling its motors. *)
DisableNot(ch) ==
  /\ pc[ch] = "disable"
  /\ Goto(ch, "done")
  /\ UNCHANGED <<stop, shutdown, mode, traffic, outdated, next, power, led>>

Disable(ch) ==
  /\ pc[ch] = "disable"
  /\ SetState(ch, "Disabled")
  /\ Goto(ch, "done")
  /\ UNCHANGED <<stop, shutdown, mode, traffic, outdated, next, led>>

AirbotFail(ch) ==
  /\ Fail(ch)
  /\ gate' = [gate EXCEPT ![ch] = "idle"]
  /\ UNCHANGED <<next, power, identifying, led_on, lamp, want, crossed>>

AirbotThread(ch) ==
  \/ Boot(ch) \/ SameMode(ch) \/ ChangeMode(ch) \/ SwitchPower(ch) \/ Act(ch)
  \/ Exit(ch) \/ Disable(ch)
  \/ Gate(ch)

AirbotNext ==
  \/ Outside /\ UNCHANGED <<next, power, led>>
  \/ \E ch \in Channel : AirbotThread(ch) \/ AirbotFail(ch)

-----------------------------------------------------------------------------
AirbotOK ==
  /\ next \in [Channel -> Mode]
  /\ power \in [Channel -> {"Disabled", "Enabled", "FreeDrive", "CommandFollowing"}]
  /\ identifying \in [Channel -> BOOLEAN] /\ want \in [Channel -> BOOLEAN]
  /\ led_on \in BOOLEAN /\ lamp \in BOOLEAN /\ crossed \in BOOLEAN
  /\ gate \in [Channel -> {"idle", "load", "compare", "send", "store"}]

(* The thread is in the loop and its mode is settled. *)
Settled(ch) == pc[ch] \in {"check", "act"}

(* The LED is on exactly while a channel is in identifying mode, "either   *)
(* the arm or EEF" (device.rs:198), and off when both are gone; unless two *)
(* calls of the gate have met, whose check and act are not atomic.         *)
LedHonest ==
  (~crossed /\ \A ch \in Channel : Settled(ch) \/ pc[ch] \in {"absent", "done"})
    => (lamp <=> \E ch \in Channel : Settled(ch) /\ mode[ch] = "Identifying")

(* The motors are in the state of the channel's mode whenever commands are *)
(* handled, and disabled when the thread has left in order.                *)
MotorsAsMode ==
  \A ch \in Channel :
    /\ Settled(ch) => power[ch] = StateForMode(ch, mode[ch])
    /\ pc[ch] = "done" => power[ch] = "Disabled"

=============================================================================
