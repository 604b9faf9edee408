---------------------------- MODULE MCMaintenance ----------------------------
(***************************************************************************)
(* Instances of Maintenance for TLC; every constant is a number.           *)
(***************************************************************************)
EXTENDS Maintenance, TLC

=============================================================================
