----------------------------- MODULE MCKopiaPod -----------------------------
(***************************************************************************)
(* Instances of KopiaPod for TLC.                                          *)
(***************************************************************************)
EXTENDS KopiaPod, TLC

CONSTANTS b1, b2, r1, x1

\* Restores and deletes are for the first backup.
FirstBackup == [j \in Restores \cup Deletes |-> b1]

=============================================================================
