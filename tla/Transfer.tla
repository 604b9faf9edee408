------------------------------ MODULE Transfer ------------------------------
(***************************************************************************)
(* What the DataExport controller promises its users, without stages,      *)
(* workers, secrets and retries.  A request is open until its data has     *)
(* been moved, then transferred, and succeeded once everything that worked *)
(* for it is gone; or it has failed.  A verdict is never taken back, and   *)
(* only the user removes a request.                                        *)
(*                                                                         *)
(* Two requests that read one claim never work at the same time.  A        *)
(* failure promises nothing about what still works: there the code makes   *)
(* no promise either.                                                      *)
(***************************************************************************)
CONSTANTS
  Requests,    \* the transfers asked for
  Readers,     \* those that have their claim to themselves
  ClaimOf,     \* the claim of each
  Traceless    \* those whose success leaves nothing behind

VARIABLES
  phase,       \* "open", "transferred", "succeeded", "failed" or "removed"
  working,     \* requests a job exists for
  traces,      \* traceless requests that have left something behind
  moved        \* requests whose data has arrived

vars == <<phase, working, traces, moved>>

Init ==
  /\ phase = [r \in Requests |-> "open"]
  /\ working = {} /\ traces = {} /\ moved = {}

To(r, p) == phase' = [phase EXCEPT ![r] = p]

\* Whatever is done for a request is done while its outcome is open.
Prepare(r) ==
  /\ phase[r] = "open" /\ r \in Traceless
  /\ traces' = traces \cup {r} /\ UNCHANGED <<phase, working, moved>>

Begin(r) ==
  /\ phase[r] = "open"
  /\ r \in Readers => \A e \in Readers \ {r} : ClaimOf[e] = ClaimOf[r] => e \notin working
  /\ working' = working \cup {r}
  /\ traces' = traces \cup ({r} \cap Traceless)
  /\ UNCHANGED <<phase, moved>>

Move(r) ==
  /\ phase[r] = "open" \/ r \in working
  /\ moved' = moved \cup {r} /\ UNCHANGED <<phase, working, traces>>

Transferred(r) ==
  /\ phase[r] = "open" /\ r \in moved
  /\ To(r, "transferred") /\ UNCHANGED <<working, traces, moved>>

\* The job goes, and later the last of the traces.
Release(r) ==
  /\ working' \in {working, working \ {r}}
  /\ traces' \in {traces, traces \ {r}}
  /\ UNCHANGED <<phase, moved>>

Succeed(r) ==
  /\ phase[r] = "transferred" /\ r \notin traces
  /\ To(r, "succeeded") /\ UNCHANGED <<working, traces, moved>>

Fail(r) ==
  /\ phase[r] \in {"open", "transferred"}
  /\ To(r, "failed") /\ UNCHANGED <<working, traces, moved>>

Remove(r) == To(r, "removed") /\ UNCHANGED <<working, traces, moved>>

Next ==
  \E r \in Requests :
    \/ Prepare(r) \/ Begin(r) \/ Move(r) \/ Transferred(r) \/ Release(r)
    \/ Succeed(r) \/ Fail(r) \/ Remove(r)

Spec == Init /\ [][Next]_vars

\* Every request gets its verdict.
FairSpec == /\ Spec
            /\ \A r \in Requests : WF_vars(Transferred(r) \/ Succeed(r) \/ Fail(r))

=============================================================================
