------------------------------ MODULE Drivers ------------------------------
(***************************************************************************)
(* The two robot drivers of DriverThreads, and what is asked of both.  A   *)
(* process runs one driver; the variables of the other stay as they are.   *)
(***************************************************************************)
EXTENDS Airbot, Nero

CONSTANT Layout   \* configurations: a driver, the modes of its channels, those with a router

ASSUME LayoutAssumption ==
  Layout \subseteq
    {"airbot", "nero"} \X (UNION {[chs -> Mode] : chs \in SUBSET Channel}) \X SUBSET Channel

VARIABLE driver

vars == <<driver, airbotVars, neroVars>>
airbotOnly == <<next, power, led>>
neroOnly == <<arm, identify_started>>

Init ==
  \E layout \in Layout :
    /\ driver = layout[1] /\ fed = layout[3]
    /\ \/ /\ driver = "airbot" /\ AirbotInit(layout[2])
          /\ ArmInit /\ angle = HoldQ /\ sensed = FALSE /\ identify_started = FALSE
       \/ /\ driver = "nero" /\ NeroInit(layout[2])
          /\ LedInit /\ MotorsInit

Thread(ch) ==
  \/ driver = "airbot" /\ AirbotThread(ch) /\ UNCHANGED <<driver, neroOnly>>
  \/ driver = "nero" /\ NeroThread(ch) /\ UNCHANGED <<driver, airbotOnly>>

(* Every thread is joined: the process ends. *)
Joined == (\A ch \in Channel : Ended(ch)) /\ UNCHANGED vars

Next ==
  \/ driver = "airbot" /\ AirbotNext /\ UNCHANGED <<driver, neroOnly>>
  \/ driver = "nero" /\ NeroNext /\ UNCHANGED <<driver, airbotOnly>>
  \/ Joined

Spec == Init /\ [][Next]_vars /\ \A ch \in Channel : WF_vars(Thread(ch))

-----------------------------------------------------------------------------
TypeOK == driver \in {"airbot", "nero"} /\ DriverOK /\ AirbotOK /\ NeroOK

(* What a driver throws away it never obeys: a command that waited through *)
(* a tick in a mode that drains its topic is not applied later.  The AIRBOT *)
(* driver drains in every mode.  The gripper of the Nero does not while it *)
(* identifies, nor a position behind an MIT command; its arm polls only    *)
(* what it follows, and nothing is claimed for it.                         *)
CommandsDiscarded ==
  \A ch \in Channel :
    outdated[ch] \subseteq CASE driver = "airbot" -> {}
                           [] driver = "nero" /\ ch = "eef" -> {"Identifying", "CommandFollowing"}
                           [] driver = "nero" /\ ch = "arm" -> Mode

(* The hardware is in the state its channels ask for, during the session   *)
(* and when the process ends.                                              *)
DriverSound ==
  /\ TypeOK
  /\ driver = "airbot" => (LedHonest /\ MotorsAsMode)
  /\ driver = "nero" => (HomedAtExit /\ IdentifyHasStart /\ GoalOfThisStay)

(* A signal, Shutdown or the failure of one thread ends every thread; with *)
(* the homing of the Nero in between.                                      *)
StopEndsDriver ==
  (stop \/ shutdown \/ \E ch \in Channel : pc[ch] = "failed")
    ~> \A ch \in Channel : Ended(ch)

=============================================================================
