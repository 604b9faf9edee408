----------------------------- MODULE MCResticPod -----------------------------
(***************************************************************************)
(* Instances of ResticPod for TLC.                                         *)
(***************************************************************************)
EXTENDS ResticPod

CONSTANTS b1, b2, r1

=============================================================================
