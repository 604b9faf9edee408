---------------------------- MODULE MCKopiaDelete ----------------------------
(***************************************************************************)
(* Instances of KopiaDelete for TLC: two requests for one snapshot and one *)
(* for another.                                                            *)
(***************************************************************************)
EXTENDS KopiaDelete, TLC

CONSTANTS r1, r2, r3, s1, s2

TwoForOne == r1 :> s1 @@ r2 :> s1 @@ r3 :> s2

=============================================================================
