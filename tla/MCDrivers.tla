----------------------------- MODULE MCDrivers -----------------------------
(* Values for the constants of Drivers that a configuration cannot write.  *)
(* The threads of the AIRBOT driver share the LED, and run together without *)
(* commands.  For the rest a driver's threads share nothing but `stop`,    *)
(* which a signal sets too, and run alone.                                 *)
EXTENDS Drivers

Some == {"Identifying", "CommandFollowing"}
Both == {[arm |-> m, eef |-> "Identifying"] : m \in Some}
One == [{"arm"} -> {"CommandFollowing", "Disabled"}] \cup [{"eef"} -> Some]

MCLayout ==
  ({"airbot"} \X Both \X {{}}) \cup ({"airbot", "nero"} \X One \X {Channel})
=============================================================================
