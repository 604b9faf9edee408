---------------------------- MODULE ClaimTransfer ----------------------------
(***************************************************************************)
(* The DataExport controller driving rsync and restic jobs (pkg/drivers/   *)
(* rsync, resticbackup, resticrestore).                                    *)
(*                                                                         *)
(* These drivers name what they create after a claim, not after the        *)
(* DataExport as kopia's do: DataExports of one claim share the job, the   *)
(* service account, the secret and the VolumeBackup.  They have no mutex,  *)
(* no limit on the jobs and no look for a job that is there already.       *)
(*                                                                         *)
(* Workers are split as in module DataExport, which also has what is not   *)
(* peculiar to these drivers and left out here: the snapshot stages, the   *)
(* TLS certificate secret, which their pods do not mount, and the updates  *)
(* that are never accepted.  What happens inside a restic pod is module    *)
(* ResticPod's.  All objects live in one namespace.                        *)
(*                                                                         *)
(* An operator that stands just before another one and extends its name is *)
(* a faulty variant of it, the bug a property is there to catch.           *)
(***************************************************************************)
EXTENDS Naturals

CONSTANTS
  DataExports,  \* the DataExport objects
  Claims,       \* the claims
  Mixes,        \* bound: which kinds of DataExports occur together
  Source,       \* the claim that is read, for a restore the one backed up
  Destination,  \* the claim a restore writes
  Deletable,    \* the DataExports a user may delete
  MaxFaults     \* bound: failed calls and crashes in a behaviour

\* The type and the references of a DataExport.  A half-typed rsync has a
\* source with a kind but no apiVersion.
Kinds == {"rsync", "half-typed rsync", "backup", "restore"}

ASSUME MixesAssumption == Mixes \subseteq [DataExports -> Kinds]
ASSUME ClaimsAssumption == /\ Source \in [DataExports -> Claims]
                           /\ Destination \in [DataExports -> Claims]
ASSUME BoundAssumption == Deletable \subseteq DataExports /\ MaxFaults \in Nat

VARIABLES
  \* the DataExport objects
  kind,        \* of the specification; does not change
  life,        \* "new" (no finalizer), "live", "deleting" or "gone"
  stage, status,
  transferID,  \* those with Status.TransferID set
  \* the controller's workers
  pc,          \* where the worker of a DataExport is
  goal,        \* what its cleanUp is for: the Cleanup stage or the deletion
  \* the cluster, by name
  job, done,   \* the jobs, and those whose pod has moved its data
  secret, sa, vb,
  faults       \* how many faults may still happen

deVars      == <<kind, life, stage, status, transferID>>
workerVars  == <<pc, goal>>
clusterVars == <<job, done, secret, sa, vb>>
vars        == <<deVars, workerVars, clusterVars, faults>>

Rsyncs  == {d \in DataExports : kind[d] \in {"rsync", "half-typed rsync"}}
Restics == DataExports \ Rsyncs
Backups == {d \in Restics : kind[d] = "backup"}

\* toJobName of the drivers: also the name of the job's service account, and
\* of the VolumeBackup of a backup.
JobName(d) ==
  CASE kind[d] = "backup"  -> <<"resticbackup", Source[d]>>
    [] kind[d] = "restore" -> <<"resticrestore", Destination[d]>>
    [] OTHER               -> <<"import-rsync", Source[d]>>

VolumeBackup(d) == <<"resticbackup", Source[d]>>

\* A restore names its secret after its source, which is the VolumeBackup, but
\* deletes one of the name of its job.
SecretName(d) ==
  IF kind[d] = "restore" THEN <<"resticrestore", VolumeBackup(d)>> ELSE JobName(d)

VolumeBackups == {"resticbackup"} \X Claims
JobNames      == {"resticbackup", "resticrestore", "import-rsync"} \X Claims
SecretNames   == VolumeBackups \cup ({"resticrestore"} \X VolumeBackups)

Stages   == {"", "Initial", "TransferScheduled", "TransferInProgress", "Cleanup", "Final"}
Statuses == {"", "Initial", "InProgress", "Successful", "Failed"}
Starting == {"secret", "sa", "token", "create"}
Cleaning == {"delsecret", "delsa", "deljob"}
Labels   == {"idle"} \cup Starting \cup Cleaning \cup {"started", "failed", "cleaned"}

TypeOK ==
  /\ kind \in Mixes
  /\ life \in [DataExports -> {"new", "live", "deleting", "gone"}]
  /\ stage \in [DataExports -> Stages] /\ status \in [DataExports -> Statuses]
  /\ transferID \in SUBSET DataExports
  /\ pc \in [DataExports -> Labels] /\ goal \in [DataExports -> {"final", "remove"}]
  /\ job \in [JobNames -> {"none", "pending", "running", "complete", "failed"}]
  /\ done \in SUBSET JobNames
  /\ secret \in SUBSET SecretNames /\ sa \in SUBSET JobNames
  /\ vb \in [VolumeBackups -> {"none", "empty", "saved"}]
  /\ faults \in 0..MaxFaults

\* A claim that is restored may have been backed up before.  A backup meets an
\* earlier one of its claim in any case, that of its namesake.
Init ==
  /\ kind \in Mixes
  /\ life = [d \in DataExports |-> "new"]
  /\ stage = [d \in DataExports |-> ""] /\ status = [d \in DataExports |-> ""]
  /\ transferID = {}
  /\ pc = [d \in DataExports |-> "idle"] /\ goal = [d \in DataExports |-> "final"]
  /\ job = [n \in JobNames |-> "none"] /\ done = {}
  /\ secret = {} /\ sa = {}
  /\ \E old \in SUBSET {d \in Restics : kind[d] = "restore"} :
       vb = [n \in VolumeBackups |->
               IF n \in {VolumeBackup(d) : d \in old} THEN "saved" ELSE "none"]
  /\ faults = MaxFaults

-----------------------------------------------------------------------------
(* Steps of a worker                                                       *)

Goto(d, label) == pc' = [pc EXCEPT ![d] = label] /\ UNCHANGED goal

SetStatus(d, st, s) ==
  /\ stage' = [stage EXCEPT ![d] = st]
  /\ status' = [status EXCEPT ![d] = s]
  /\ UNCHANGED <<kind, life, transferID>>

\* A reconcile step whose only effect is on the object's stage and status.
Record(d, st, s) ==
  SetStatus(d, st, s) /\ UNCHANGED <<workerVars, clusterVars, faults>>

SetLife(d, l) ==
  /\ life' = [life EXCEPT ![d] = l]
  /\ UNCHANGED <<kind, stage, status, transferID>>

Fault == faults > 0 /\ faults' = faults - 1

At(d, st) == pc[d] = "idle" /\ life[d] = "live" /\ stage[d] = st

-----------------------------------------------------------------------------
(* The object's life and the stage Initial                                 *)

Delete(d) ==
  /\ d \in Deletable /\ life[d] \in {"new", "live"}
  /\ SetLife(d, IF life[d] = "new" THEN "gone" ELSE "deleting")
  /\ UNCHANGED <<workerVars, clusterVars, faults>>

SetFinalizer(d) ==
  /\ pc[d] = "idle" /\ life[d] = "new"
  /\ SetLife(d, "live") /\ UNCHANGED <<workerVars, clusterVars, faults>>

EnterInitial(d) ==
  /\ pc[d] = "idle" /\ life[d] \in {"live", "deleting"} /\ stage[d] = ""
  /\ Record(d, "Initial", "Initial")

DeleteInitialByDriver(d) ==
  /\ pc[d] = "idle" /\ life[d] = "deleting" /\ stage[d] = "Initial"
  /\ kind[d] # "rsync"
  /\ SetLife(d, "gone") /\ UNCHANGED <<workerVars, clusterVars, faults>>

\* Nothing has been created yet; the driver is not asked for.
DeleteInitial(d) ==
  /\ pc[d] = "idle" /\ life[d] = "deleting" /\ stage[d] = "Initial"
  /\ SetLife(d, "gone") /\ UNCHANGED <<workerVars, clusterVars, faults>>

\* getDriverType takes a source that is a claim for a backup and wants a
\* BackupLocation as its destination, of every type: an rsync from claim to
\* claim is refused, unless its source is not recognised as a claim.
HasDriver(d) == kind[d] # "rsync"

\* checkClaims finds pods that mount the claim, checkGenericRestore no VolumeBackup.
MayPass(d) ==
  /\ HasDriver(d)
  /\ d \in Rsyncs => job[JobName(d)] # "running"
  /\ kind[d] = "restore" => vb[VolumeBackup(d)] # "none"

\* A failed check is repeated at the next resync.
StageInitial(d, reply) ==
  /\ At(d, "Initial")
  /\ \/ /\ status[d] = "Successful" /\ HasDriver(d)
        /\ Record(d, "TransferScheduled", "Initial")
     \/ /\ status[d] # "Successful"
        /\ reply = "ok" => MayPass(d)
        /\ Record(d, "Initial", IF reply = "ok" THEN "Successful" ELSE "Failed")

-----------------------------------------------------------------------------
(* StartJob: stage TransferScheduled                                       *)

LeaveTransferScheduled(d) ==
  /\ At(d, "TransferScheduled")
  /\ \/ status[d] = "Successful" /\ Record(d, "TransferInProgress", "Initial")
     \/ status[d] = "Failed" /\ Record(d, "Cleanup", "Failed")

BeginTransfer(d) ==
  /\ At(d, "TransferScheduled") /\ status[d] \notin {"Successful", "Failed"}
  /\ Goto(d, IF d \in Rsyncs THEN "sa" ELSE "secret")
  /\ UNCHANGED <<deVars, clusterVars, faults>>

\* What is there already is taken for what is to be created, here and below.
CreateSecret(d) ==
  /\ pc[d] = "secret"
  /\ secret' = secret \cup {SecretName(d)}
  /\ Goto(d, "sa")
  /\ UNCHANGED <<deVars, job, done, sa, vb, faults>>

CreateServiceAccount(d) ==
  /\ pc[d] = "sa"
  /\ sa' = sa \cup {JobName(d)}
  /\ Goto(d, "token")
  /\ UNCHANGED <<deVars, job, done, secret, vb, faults>>

\* SetupServiceAccount waits for the token of the account, which another
\* DataExport may have deleted in the meantime.
AwaitToken(d) ==
  /\ pc[d] = "token"
  /\ Goto(d, IF JobName(d) \in sa THEN "create" ELSE "failed")
  /\ UNCHANGED <<deVars, clusterVars, faults>>

CreateJob(d) ==
  /\ pc[d] = "create"
  /\ job' = [job EXCEPT ![JobName(d)] = IF @ = "none" THEN "pending" ELSE @]
  /\ Goto(d, "started")
  /\ UNCHANGED <<deVars, done, secret, sa, vb, faults>>

\* A call of StartJob fails, possibly after it took effect.
StartFails(d) ==
  /\ pc[d] \in Starting /\ Fault
  /\ Goto(d, "failed")
  /\ secret' \in {secret, IF pc[d] = "secret" THEN secret \cup {SecretName(d)} ELSE secret}
  /\ sa' \in {sa, IF pc[d] = "sa" THEN sa \cup {JobName(d)} ELSE sa}
  /\ job' \in {job, [job EXCEPT ![JobName(d)] =
                       IF pc[d] = "create" /\ @ = "none" THEN "pending" ELSE @]}
  /\ UNCHANGED <<deVars, done, vb>>

RecordTransfer(d) ==
  /\ pc[d] = "started"
  /\ transferID' = transferID \cup {d}
  /\ status' = [status EXCEPT ![d] = "Successful"]
  /\ Goto(d, "idle")
  /\ UNCHANGED <<kind, life, stage, clusterVars, faults>>

RecordFailure(d) ==
  /\ pc[d] = "failed"
  /\ SetStatus(d, stage[d], "Failed")
  /\ Goto(d, "idle")
  /\ UNCHANGED <<clusterVars, faults>>

-----------------------------------------------------------------------------
(* JobStatus: stage TransferInProgress                                     *)

\* No job, or a failed one, is a failure for all drivers.  The condition of an
\* rsync job that is complete is left empty, and the job taken for running.
RsyncAnswer(d) ==
  IF job[JobName(d)] \in {"none", "failed"} THEN "Failed" ELSE "InProgress"

\* For a backup, no VolumeBackup is a failure too, be its pod yet to start.
BackupAnswer(d) ==
  IF job[JobName(d)] \in {"none", "failed"} \/ vb[VolumeBackup(d)] = "none" THEN "Failed"
  ELSE IF job[JobName(d)] = "complete" THEN "Complete" ELSE "InProgress"

RestoreAnswer(d) ==
  IF job[JobName(d)] = "complete" THEN "Complete" ELSE RsyncAnswer(d)

DriverAnswer(d) ==
  CASE d \in Rsyncs            -> RsyncAnswer(d)
    [] d \in Backups           -> BackupAnswer(d)
    [] d \in Restics \ Backups -> RestoreAnswer(d)

AnswerCondition(d) ==
  IF job[JobName(d)] = "complete" THEN "Complete" ELSE DriverAnswer(d)

AnswerNoFailure(d) ==
  IF \/ job[JobName(d)] = "none"
     \/ d \in Backups /\ vb[VolumeBackup(d)] = "none"
  THEN "Failed" ELSE "InProgress"

\* For a complete job the controller reads a VolumeBackup, of the name that only
\* kopia's drivers report: it does not find it.
Answer(d) == IF DriverAnswer(d) = "Complete" THEN "Failed" ELSE DriverAnswer(d)

StageTransferInProgressAgain(d) ==
  /\ At(d, "TransferInProgress")
  /\ \/ /\ status[d] \in {"Successful", "Failed"}
        /\ Record(d, "Cleanup", status[d])
     \/ Record(d, stage[d], Answer(d))

StageTransferInProgress(d) ==
  /\ At(d, "TransferInProgress")
  /\ \/ /\ status[d] \in {"Successful", "Failed"}
        /\ Record(d, "Cleanup", status[d])
     \/ /\ status[d] \notin {"Successful", "Failed"}
        /\ Record(d, stage[d], Answer(d))

\* The node of the job is gone, or a read fails.
PollFails(d) ==
  /\ At(d, "TransferInProgress") /\ status[d] \notin {"Successful", "Failed"}
  /\ Fault
  /\ SetStatus(d, stage[d], "Failed")
  /\ UNCHANGED <<workerVars, clusterVars>>

-----------------------------------------------------------------------------
(* DeleteJob: stage Cleanup, or the deletion of an object past Initial     *)

\* restic: secret, service account, job; rsync: job, service account.
BeginCleanUp(d) ==
  /\ pc[d] = "idle"
  /\ \/ /\ life[d] = "live" /\ stage[d] = "Cleanup"
        /\ goal' = [goal EXCEPT ![d] = "final"]
     \/ /\ life[d] = "deleting" /\ stage[d] \notin {"", "Initial"}
        /\ goal' = [goal EXCEPT ![d] = "remove"]
  /\ pc' = [pc EXCEPT ![d] = IF d \notin transferID THEN "cleaned"
                             ELSE IF d \in Rsyncs THEN "deljob" ELSE "delsecret"]
  /\ UNCHANGED <<deVars, clusterVars, faults>>

DeleteSecretOnce(d) ==
  /\ pc[d] = "delsecret"
  /\ secret' = secret \ {JobName(d)}
  /\ Goto(d, IF d \in Backups /\ JobName(d) \notin secret THEN "cleaned" ELSE "delsa")
  /\ UNCHANGED <<deVars, job, done, sa, vb, faults>>

\* What is gone already is as good as deleted, here and below.
DeleteSecret(d) ==
  /\ pc[d] = "delsecret"
  /\ secret' = secret \ {JobName(d)}
  /\ Goto(d, "delsa")
  /\ UNCHANGED <<deVars, job, done, sa, vb, faults>>

CleanServiceAccount(d) ==
  /\ pc[d] = "delsa"
  /\ sa' = sa \ {JobName(d)}
  /\ Goto(d, IF d \in Rsyncs THEN "cleaned" ELSE "deljob")
  /\ UNCHANGED <<deVars, job, done, secret, vb, faults>>

DeleteJob(d) ==
  /\ pc[d] = "deljob"
  /\ job' = [job EXCEPT ![JobName(d)] = "none"]
  /\ done' = done \ {JobName(d)}
  /\ Goto(d, IF d \in Rsyncs THEN "delsa" ELSE "cleaned")
  /\ UNCHANGED <<deVars, secret, sa, vb, faults>>

\* The stage is Final with the status of the transfer, or the finalizer goes.
FinishCleanUp(d) ==
  /\ pc[d] = "cleaned"
  /\ IF goal[d] = "final" THEN SetStatus(d, "Final", status[d]) ELSE SetLife(d, "gone")
  /\ Goto(d, "idle")
  /\ UNCHANGED <<clusterVars, faults>>

\* A delete fails: the Cleanup stage starts over until its time is up, a
\* deletion is left to the next reconcile.
CleanUpFails(d) ==
  /\ pc[d] \in Cleaning /\ Fault
  /\ \/ /\ goal[d] = "final" /\ UNCHANGED deVars
        /\ Goto(d, IF d \in Rsyncs THEN "deljob" ELSE "delsecret")
     \/ /\ goal[d] = "final" /\ SetStatus(d, "Final", "Failed")
        /\ Goto(d, "idle")
     \/ /\ goal[d] = "remove" /\ UNCHANGED deVars
        /\ Goto(d, "idle")
  /\ UNCHANGED clusterVars

\* The controller restarts.
Crash ==
  /\ \E d \in DataExports : pc[d] # "idle"
  /\ Fault
  /\ pc' = [d \in DataExports |-> "idle"]
  /\ UNCHANGED <<goal, deVars, clusterVars>>

-----------------------------------------------------------------------------
(* The job of a name: Kubernetes and the program in the pod                *)

SetJob(n, from, to) ==
  /\ job[n] = from
  /\ job' = [job EXCEPT ![n] = to]
  /\ UNCHANGED <<deVars, workerVars, done, secret, sa, vb, faults>>

\* The pod needs its service account and, with restic, the secret of the
\* DataExport whose StartJob created the job.
StartPod(d) ==
  /\ d \in Restics => SecretName(d) \in secret
  /\ JobName(d) \in sa
  /\ SetJob(JobName(d), "pending", "running")

SetVolumeBackup(n, old, new) ==
  /\ job[n] = "running" /\ n \in sa /\ vb[n] \in old
  /\ vb' = [vb EXCEPT ![n] = new]
  /\ UNCHANGED <<deVars, workerVars, job, secret, sa, faults>>

\* runBackup creates the VolumeBackup; if it finds no BackupLocation, it writes
\* an error without snapshot id into one that exists.
EmptyVolumeBackup(n) ==
  n \in VolumeBackups /\ SetVolumeBackup(n, {"none", "saved"}, "empty") /\ UNCHANGED done

\* The data has been moved, of a backup into a snapshot with an id.
MoveData(n) ==
  /\ n \notin done
  /\ done' = done \cup {n}
  /\ \/ n \in VolumeBackups /\ SetVolumeBackup(n, {"empty"}, "saved")
     \/ /\ n \notin VolumeBackups /\ job[n] = "running"
        /\ UNCHANGED <<deVars, workerVars, job, secret, sa, vb, faults>>

CompleteJob(n) ==
  /\ n \in done
  /\ n \in VolumeBackups => vb[n] = "saved"
  /\ SetJob(n, "running", "complete")

\* The backoff limit of the job is reached; a backup that finds a snapshot id
\* of another one in its VolumeBackup always ends so.
FailJob(n) == SetJob(n, "running", "failed")

-----------------------------------------------------------------------------
(* The specification                                                       *)

Reconcile(d, reply) ==
  \/ SetFinalizer(d) \/ EnterInitial(d) \/ DeleteInitial(d)
  \/ StageInitial(d, reply) \/ LeaveTransferScheduled(d) \/ BeginTransfer(d)
  \/ StageTransferInProgress(d) \/ BeginCleanUp(d)

Continue(d) ==
  \/ CreateSecret(d) \/ CreateServiceAccount(d) \/ AwaitToken(d) \/ CreateJob(d)
  \/ RecordTransfer(d) \/ RecordFailure(d)
  \/ DeleteSecret(d) \/ CleanServiceAccount(d) \/ DeleteJob(d) \/ FinishCleanUp(d)

WorkerFails(d) == StartFails(d) \/ PollFails(d) \/ CleanUpFails(d)

\* The pod of its job starts if it can, and ends, well or not.
JobStep(d) == StartPod(d) \/ CompleteJob(JobName(d)) \/ FailJob(JobName(d))

Next ==
  \/ Crash
  \/ \E d \in DataExports :
       \/ Delete(d) \/ Continue(d) \/ WorkerFails(d) \/ JobStep(d)
       \/ \E reply \in {"ok", "fail"} : Reconcile(d, reply)
  \/ \E n \in JobNames : EmptyVolumeBackup(n) \/ MoveData(n)

Spec == Init /\ [][Next]_vars

\* Objects are requeued until they are Final, the cluster's checks succeed in
\* the end, pods start that can and containers end.
Fairness ==
  \A d \in DataExports :
    WF_vars(Reconcile(d, "ok") \/ Continue(d)) /\ WF_vars(JobStep(d))

FairSpec == Spec /\ Fairness

-----------------------------------------------------------------------------
(* Properties                                                              *)

\* From TransferScheduled on, a failure that has been reported stays, although
\* the job that failed may be replaced by that of another DataExport, under
\* the same name.
FailureIsFinal ==
  [][\A d \in DataExports :
       status[d] = "Failed" /\ stage[d] \notin {"", "Initial"} => status'[d] = "Failed"]_vars

Namesakes(d) == {e \in DataExports : JobName(e) = JobName(d)}

\* Nothing was started for it, or its transfer was recorded.
Accounted(d) == life[d] = "gone" /\ (d \in transferID \/ stage[d] \in {"", "Initial"})

\* When all DataExports of a name have been removed, no job, secret or service
\* account of that name is left, in whatever order they created, shared and
\* deleted them.
RemovedLeavesNothing ==
  \A d \in DataExports :
    (\A e \in Namesakes(d) : Accounted(e)) =>
      job[JobName(d)] = "none" /\ JobName(d) \notin secret \cup sa

\* A deleted DataExport is removed, also one that hangs.  A restic DataExport
\* that has no namesake ends once its transfer has begun: neither a failed call
\* nor a restart leaves it waiting for a job that cannot start.  With a namesake
\* it may wait for ever.
EventuallySettled ==
  \A d \in DataExports :
    \/ life[d] = "deleting"
    \/ d \in Restics /\ Namesakes(d) = {d} /\ stage[d] = "TransferScheduled"
    ~> life[d] = "gone" \/ (life[d] = "live" /\ stage[d] = "Final")

-----------------------------------------------------------------------------
(* What the repository says and the code does not do                       *)

\* "ExpectedStatus: v1alpha1.ExportStatus{ Stage: v1alpha1.DataExportStageFinal,
\* Status: v1alpha1.DataExportStatusSuccessful" (test/e2e/
\* dataexport_rsync_test.go:145): an rsync between two claims succeeds.
RsyncSucceeds ==
  \A d \in DataExports :
    <>(d \in Rsyncs => stage[d] = "Final" /\ status[d] = "Successful")

=============================================================================
