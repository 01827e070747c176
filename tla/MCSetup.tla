------------------------------ MODULE MCSetup ------------------------------
(***************************************************************************)
(* Two arms, which discovery pairs, for model checking.                    *)
(***************************************************************************)
EXTENDS SetupWizard

BothArms == <<"arm_1", "arm_2">>
=============================================================================
