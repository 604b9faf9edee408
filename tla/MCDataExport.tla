---------------------------- MODULE MCDataExport ----------------------------
(***************************************************************************)
(* Instances of DataExport for TLC: the claims of the model values.        *)
(***************************************************************************)
EXTENDS DataExport, TLC

CONSTANTS d1, d2, d3, p1, p2

\* Every DataExport has a claim of its own, or d1 and d2 share one.
OwnClaims   == [d \in DataExports |-> d]
SharedClaim == [d \in DataExports |-> IF d \in {d1, d2} THEN p1 ELSE p2]

=============================================================================
