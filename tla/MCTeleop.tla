------------------------------ MODULE MCTeleop ------------------------------
(* Values for the constants of TeleopRouter that a configuration cannot write. *)
EXTENDS TeleopRouter

MCIdentity == [a \in Axis |-> a]
MCMirrored == [a \in Axis |-> -1]     \* a joint mounted the other way round
=============================================================================
