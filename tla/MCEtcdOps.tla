----------------------------- MODULE MCEtcdOps -----------------------------
(***************************************************************************)
(* The instance TLC checks: two versions as model values, every other      *)
(* parameter in the configuration of the run.                              *)
(***************************************************************************)
EXTENDS EtcdOps, TLC

CONSTANTS v1, v2

\* No definition compares versions otherwise than for equality.  Used by the
\* runs that check no liveness property.
VersionSymmetry == Permutations(Versions)
=============================================================================
