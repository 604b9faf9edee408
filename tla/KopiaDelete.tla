------------------------------ MODULE KopiaDelete ------------------------------
(***************************************************************************)
(* The driver of the jobs that delete kopia snapshots (pkg/drivers/        *)
(* kopiadelete).  No controller of this repository calls it: a backup      *)
(* service asks for the deletion of a snapshot, repeats the request until  *)
(* a job is there, polls the job and deletes it.                           *)
(*                                                                         *)
(* All requests share a mutex and a limit on the jobs of all namespaces.   *)
(* A job and its VolumeBackupDelete bear the name of the snapshot, so two  *)
(* requests for one snapshot share them.  What happens inside the pod is   *)
(* module KopiaPod's; here it fails, with or without a word, or succeeds.  *)
(*                                                                         *)
(* An operator that stands just before another one and extends its name is *)
(* a faulty variant of it, the bug a property is there to catch.           *)
(***************************************************************************)
EXTENDS Naturals, FiniteSets

CONSTANTS
  Requests,      \* the requests of the backup service
  Snapshots,     \* the snapshots of the repository
  SnapshotOf,    \* which one a request wants deleted
  JobLimit,      \* how many delete jobs there may be
  BackOffLimit,  \* how often the pod of a job is started again
  Nobody,        \* holds the mutex when no request does
  MaxFaults      \* bound: failed calls and crashes in a behaviour

ASSUME SnapshotAssumption == SnapshotOf \in [Requests -> Snapshots]
ASSUME LimitAssumption == /\ JobLimit \in Nat \ {0}
                          /\ BackOffLimit \in Nat /\ MaxFaults \in Nat
ASSUME NobodyAssumption == Nobody \notin Requests

VARIABLES
  pc,        \* where a request, or the call of the driver it makes, is
  lock,      \* who holds deleteJobLock
  job,       \* the jobs, by snapshot
  restarts,  \* how often the pod of a job has been started again
  vbd,       \* the VolumeBackupDelete objects, by snapshot
  faults     \* how many faults may still happen

vars == <<pc, lock, job, restarts, vbd, faults>>

Starting == {"check", "create", "job", "refused"}
Labels == {"wanted"} \cup Starting \cup {"polling", "ended", "delete", "done"}

TypeOK ==
  /\ pc \in [Requests -> Labels]
  /\ lock \in Requests \cup {Nobody}
  /\ job \in [Snapshots -> {"none", "running", "complete", "failed"}]
  /\ restarts \in [Snapshots -> 0..BackOffLimit]
  /\ vbd \in [Snapshots -> {"none", "new", "failed"}]
  /\ faults \in 0..MaxFaults

Init ==
  /\ pc = [r \in Requests |-> "wanted"] /\ lock = Nobody
  /\ job = [s \in Snapshots |-> "none"]
  /\ restarts = [s \in Snapshots |-> 0]
  /\ vbd = [s \in Snapshots |-> "none"]
  /\ faults = MaxFaults

Goto(r, label) == pc' = [pc EXCEPT ![r] = label]

Fault == faults > 0 /\ faults' = faults - 1

-----------------------------------------------------------------------------
(* StartJob                                                                *)

AcquireLockAlways(r) ==
  /\ pc[r] = "wanted"
  /\ lock' = r /\ Goto(r, "check")
  /\ UNCHANGED <<job, restarts, vbd, faults>>

AcquireLock(r) ==
  /\ pc[r] = "wanted" /\ lock = Nobody
  /\ lock' = r /\ Goto(r, "check")
  /\ UNCHANGED <<job, restarts, vbd, faults>>

\* All jobs count that are not complete, failed ones and its own too.
CanJobBeScheduled ==
  Cardinality({s \in Snapshots : job[s] \in {"running", "failed"}}) < JobLimit

CheckLimit(r) ==
  /\ pc[r] = "check"
  /\ Goto(r, IF CanJobBeScheduled THEN "create" ELSE "refused")
  /\ UNCHANGED <<lock, job, restarts, vbd, faults>>

\* What is there already is taken for what is to be created, here and below.
CreateVolumeBackupDelete(r) ==
  /\ pc[r] = "create"
  /\ vbd' = [vbd EXCEPT ![SnapshotOf[r]] = IF @ = "none" THEN "new" ELSE @]
  /\ Goto(r, "job")
  /\ UNCHANGED <<lock, job, restarts, faults>>

NewJob(s) ==
  /\ job' = [job EXCEPT ![s] = IF @ = "none" THEN "running" ELSE @]
  /\ restarts' = [restarts EXCEPT ![s] = IF job[s] = "none" THEN 0 ELSE @]

\* The mutex is released when StartJob returns, here with the job's id.
CreateJob(r) ==
  /\ pc[r] = "job"
  /\ NewJob(SnapshotOf[r])
  /\ lock' = Nobody /\ Goto(r, "polling")
  /\ UNCHANGED <<vbd, faults>>

RefuseHolding(r) ==
  /\ pc[r] = "refused"
  /\ Goto(r, "wanted")
  /\ UNCHANGED <<lock, job, restarts, vbd, faults>>

\* ErrOutOfJobResources, or an error: the request is repeated.
Refuse(r) ==
  /\ pc[r] = "refused"
  /\ lock' = Nobody /\ Goto(r, "wanted")
  /\ UNCHANGED <<job, restarts, vbd, faults>>

\* A call fails, possibly after it took effect.
StartFails(r) ==
  /\ Fault
  /\ \/ /\ pc[r] \in {"check", "create", "job"}
        /\ UNCHANGED <<job, restarts, vbd>>
     \/ /\ pc[r] = "create"
        /\ vbd' = [vbd EXCEPT ![SnapshotOf[r]] = IF @ = "none" THEN "new" ELSE @]
        /\ UNCHANGED <<job, restarts>>
     \/ pc[r] = "job" /\ NewJob(SnapshotOf[r]) /\ UNCHANGED vbd
  /\ Goto(r, "refused")
  /\ UNCHANGED lock

-----------------------------------------------------------------------------
(* JobStatus and DeleteJob                                                 *)

\* The job has ended, or another request has deleted it.
SeeEnd(r) ==
  /\ pc[r] = "polling" /\ job[SnapshotOf[r]] # "running"
  /\ Goto(r, "ended")
  /\ UNCHANGED <<lock, job, restarts, vbd, faults>>

\* The service has waited for too long and deletes a job that runs.
GiveUp(r) ==
  /\ pc[r] = "polling" /\ job[SnapshotOf[r]] = "running"
  /\ Goto(r, "ended")
  /\ UNCHANGED <<lock, job, restarts, vbd, faults>>

\* What is gone already is as good as deleted, here and below.
DeleteVolumeBackupDelete(r) ==
  /\ pc[r] = "ended"
  /\ vbd' = [vbd EXCEPT ![SnapshotOf[r]] = "none"]
  /\ Goto(r, "delete")
  /\ UNCHANGED <<lock, job, restarts, faults>>

DeleteJob(r) ==
  /\ pc[r] = "delete"
  /\ job' = [job EXCEPT ![SnapshotOf[r]] = "none"]
  /\ Goto(r, "done")
  /\ UNCHANGED <<lock, restarts, vbd, faults>>

\* A call fails, possibly after it took effect: DeleteJob is repeated.
DeleteFails(r) ==
  /\ pc[r] \in {"ended", "delete"} /\ Fault
  /\ Goto(r, "ended")
  /\ vbd' \in {vbd, IF pc[r] = "ended" THEN [vbd EXCEPT ![SnapshotOf[r]] = "none"] ELSE vbd}
  /\ job' \in {job, IF pc[r] = "delete" THEN [job EXCEPT ![SnapshotOf[r]] = "none"] ELSE job}
  /\ UNCHANGED <<lock, restarts>>

\* The process restarts: a call that has not returned is made again.
Crash ==
  /\ \E r \in Requests : pc[r] \in Starting \cup {"delete"}
  /\ Fault
  /\ lock' = Nobody
  /\ pc' = [r \in Requests |-> CASE pc[r] \in Starting -> "wanted"
                                 [] pc[r] = "delete"   -> "ended"
                                 [] OTHER              -> pc[r]]
  /\ UNCHANGED <<job, restarts, vbd>>

-----------------------------------------------------------------------------
(* The job                                                                 *)

SetJob(s, state) ==
  /\ job[s] = "running"
  /\ job' = [job EXCEPT ![s] = state]
  /\ UNCHANGED <<pc, lock, restarts, vbd, faults>>

CompleteJob(s) == SetJob(s, "complete")

WriteStatusAnyway(s) == vbd' = [vbd EXCEPT ![s] = "failed"]

\* WriteVolumeBackupDeleteStatus reads the object and updates it.  No program
\* writes another status than this one.
WriteStatus(s) == vbd' = [vbd EXCEPT ![s] = IF @ = "none" THEN @ ELSE "failed"]

\* runDelete fails and writes why, or the container is killed before it does.
PodFailsAgain(s) ==
  /\ job[s] = "running"
  /\ restarts' = [restarts EXCEPT ![s] = @ + 1]
  /\ UNCHANGED job
  /\ WriteStatus(s) \/ UNCHANGED vbd
  /\ UNCHANGED <<pc, lock, faults>>

PodFails(s) ==
  /\ job[s] = "running"
  /\ IF restarts[s] < BackOffLimit
       THEN restarts' = [restarts EXCEPT ![s] = @ + 1] /\ UNCHANGED job
       ELSE job' = [job EXCEPT ![s] = "failed"] /\ UNCHANGED restarts
  /\ WriteStatus(s) \/ UNCHANGED vbd
  /\ UNCHANGED <<pc, lock, faults>>

-----------------------------------------------------------------------------
(* The specification                                                       *)

StartJob(r) ==
  \/ CheckLimit(r) \/ CreateVolumeBackupDelete(r) \/ CreateJob(r) \/ Refuse(r)

FollowJob(r) == SeeEnd(r) \/ DeleteVolumeBackupDelete(r) \/ DeleteJob(r)

Pod(s) == CompleteJob(s) \/ PodFails(s)

Next ==
  \/ Crash
  \/ \E r \in Requests :
       \/ AcquireLock(r) \/ StartJob(r) \/ FollowJob(r) \/ GiveUp(r)
       \/ StartFails(r) \/ DeleteFails(r)
  \/ \E s \in Snapshots : Pod(s)

Spec == Init /\ [][Next]_vars

\* A call of the driver goes on, a job ends, and a request that is repeated gets
\* the mutex, which Go hands to whoever has waited for long, in the end.
Fairness ==
  /\ \A r \in Requests :
       SF_vars(AcquireLock(r)) /\ WF_vars(StartJob(r) \/ FollowJob(r))
  /\ \A s \in Snapshots : WF_vars(Pod(s))

FairSpec == Spec /\ Fairness

-----------------------------------------------------------------------------
(* Properties                                                              *)

\* CanJobBeScheduled reads the number of jobs two calls before the job is
\* created; still there are never more than the limit says.
JobLimitRespected ==
  Cardinality({s \in Snapshots : job[s] \in {"running", "failed"}}) <= JobLimit

\* When all requests for a snapshot have deleted their job, neither it nor the
\* VolumeBackupDelete is left or comes back: DeleteJob deletes the object before
\* the job, whose pod may still run for another request, and calls are repeated.
NothingLeft ==
  \A s \in Snapshots :
    (\A r \in Requests : SnapshotOf[r] = s => pc[r] = "done") =>
      job[s] = "none" /\ vbd[s] = "none"

\* A job nobody will delete: it has failed, and no request knows its id or is
\* past the check of the limit and about to learn it.
Abandoned(s) ==
  /\ job[s] = "failed"
  /\ \A r \in Requests :
       SnapshotOf[r] = s => pc[r] \in {"wanted", "check", "refused", "done"}

\* Whatever fails or restarts, a request ends with its job deleted; only failed
\* jobs whose ids were lost, which take their slots for ever, can prevent it.
EventuallyDone ==
  \A r \in Requests :
    <>(pc[r] = "done" \/ \E s \in Snapshots : Abandoned(s))

=============================================================================
