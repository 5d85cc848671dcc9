-------------------------------- MODULE MCCli --------------------------------
(***************************************************************************)
(* The instance of Cli that TLC checks: two versions as model values.      *)
(***************************************************************************)
EXTENDS Cli

CONSTANTS v1, v2
=============================================================================
