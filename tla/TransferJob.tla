----------------------------- MODULE TransferJob -----------------------------
(***************************************************************************)
(* What the DataExport controller may expect of the job of a backup or of  *)
(* a restore, without commands, containers and polls.  A job reports what  *)
(* it has done in the VolumeBackup of its backup; it moves its data before *)
(* it reports the snapshot, and reports it before it is complete.          *)
(*                                                                         *)
(* It is the line between two models: KopiaPod's containers keep to it,    *)
(* and DataExport lets a job do what it says, and nothing else.            *)
(***************************************************************************)
CONSTANTS
  Backups, Restores  \* the jobs

VARIABLES
  state,   \* "pending", "running", "complete" or "failed"
  report,  \* of a backup: "none", "empty", "error" or "saved"
  moved    \* jobs whose data has been moved

vars == <<state, report, moved>>

Jobs == Backups \cup Restores

Init ==
  /\ state = [j \in Jobs |-> "pending"]
  /\ report = [b \in Backups |-> "none"]
  /\ moved = {}

SetState(j, from, to) ==
  /\ state[j] = from
  /\ state' = [state EXCEPT ![j] = to] /\ UNCHANGED <<report, moved>>

Start(j) == SetState(j, "pending", "running")

\* An error that is reported may be withdrawn, a snapshot may not.
SetReport(b, old, new) ==
  /\ b \in Backups /\ state[b] = "running" /\ report[b] \in old
  /\ report' = [report EXCEPT ![b] = new] /\ UNCHANGED <<state, moved>>

Report(b) ==
  \/ SetReport(b, {"none", "error"}, "empty")
  \/ SetReport(b, {"empty"}, "error")
  \/ b \in moved /\ SetReport(b, {"empty", "error"}, "saved")

Move(j) ==
  /\ state[j] = "running"
  /\ j \in Backups => report[j] \in {"empty", "error"}
  /\ moved' = moved \cup {j} /\ UNCHANGED <<state, report>>

Complete(j) ==
  /\ j \in moved /\ (j \in Backups => report[j] = "saved")
  /\ SetState(j, "running", "complete")

Fail(j) == SetState(j, "running", "failed")

Work(j) == Report(j) \/ Move(j) \/ Complete(j) \/ Fail(j)

Next == \E j \in Jobs : Start(j) \/ Work(j)

Spec == Init /\ [][Next]_vars

=============================================================================
