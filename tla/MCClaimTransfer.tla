--------------------------- MODULE MCClaimTransfer ---------------------------
(***************************************************************************)
(* Instances of ClaimTransfer for TLC: two DataExports and one claim, which*)
(* a restore writes over.                                                  *)
(***************************************************************************)
EXTENDS ClaimTransfer, TLC

CONSTANTS d1, d2, c1

OneClaim == [d \in DataExports |-> c1]

\* Two DataExports that share a job, or one with a job of its own next to one
\* that never has any.
Pairs == {d1 :> p[1] @@ d2 :> p[2] :
            p \in {<<"backup", "backup">>, <<"half-typed rsync", "half-typed rsync">>,
                   <<"rsync", "backup">>, <<"rsync", "restore">>}}

\* The source and the destination have names and no type, as those of the test.
Bare == {d1 :> "rsync"}

=============================================================================
