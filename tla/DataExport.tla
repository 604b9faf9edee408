----------------------------- MODULE DataExport -----------------------------
(***************************************************************************)
(* The DataExport controller of kdmp (pkg/controllers/dataexport) driving  *)
(* kopia backup and restore jobs (pkg/drivers/kopiabackup, kopiarestore)   *)
(* in a Kubernetes cluster.                                                *)
(*                                                                         *)
(* Reconcile runs one worker per DataExport object at a time, several      *)
(* objects concurrently.  A worker is split at every call that changes the *)
(* cluster, so that crashes, failed calls, user deletions and the steps of *)
(* other workers fall between them; reading the object and writing its     *)
(* status (updateStatus: Get, assign, Update, retried) is one step.        *)
(*                                                                         *)
(* All objects live in one namespace.  Jobs, secrets and service accounts  *)
(* carry the name of their DataExport, so they are sets of DataExports;    *)
(* the TLS certificate secret has one fixed name and is shared.            *)
(*                                                                         *)
(* An operator that stands just before another one and extends its name    *)
(* (CheckJobOnly before CheckJob) is a faulty variant of it: the bug a     *)
(* property is there to catch.  Nothing uses it.                           *)
(***************************************************************************)
EXTENDS Naturals, FiniteSets

CONSTANTS
  DataExports,    \* the DataExport objects
  Restores,       \* those whose driver is kopiarestore; the others back up
  Snapshots,      \* backups with Spec.SnapshotStorageClass set
  LocalRestores,  \* restores with Status.LocalSnapshotRestore set
  PvcOf,          \* the claim that is backed up or restored to
  JobLimit,       \* KDMP_BACKUP_JOB_LIMIT = KDMP_RESTORE_JOB_LIMIT
  SSL,            \* SSL_CERT_DIR is set: jobs mount the certificate secret
  Deletable,      \* the DataExports a user may delete
  MaxFaults       \* bound: failed calls, crashes and outages in a behaviour

ASSUME KindsAssumption == /\ Restores \subseteq DataExports
                          /\ Snapshots \subseteq DataExports \ Restores
                          /\ LocalRestores \subseteq Restores
                          /\ Deletable \subseteq DataExports
ASSUME PvcAssumption   == DOMAIN PvcOf = DataExports
ASSUME SSLAssumption   == SSL \in BOOLEAN
ASSUME BoundAssumption == JobLimit \in Nat /\ MaxFaults \in Nat

VARIABLES
  \* the DataExport objects
  life,        \* "new" (no finalizer), "live", "deleting" or "gone"
  stage,       \* Status.Stage
  status,      \* Status.Status
  transferID,  \* those with Status.TransferID set
  snapPVCName, \* those with Status.SnapshotPVCName set
  snapshotID,  \* Status.SnapshotID: of a volume snapshot or of kopia's
  \* the controller's workers
  pc,          \* where the worker of a DataExport is
  goal,        \* what its cleanUp is for: the Cleanup stage or the deletion
  \* the cluster
  job, vb, cred, sa, cert, snapPVC, localCopy, data,
  faults       \* how many faults may still happen

deVars      == <<life, stage, status, transferID, snapPVCName, snapshotID>>
workerVars  == <<pc, goal>>
clusterVars == <<job, vb, cred, sa, cert, snapPVC, localCopy, data>>
vars        == <<deVars, workerVars, clusterVars, faults>>

Backups == DataExports \ Restores

\* The DataExports handled by the same driver, hence by the same mutex.
SameKind(d) == IF d \in Restores THEN Restores ELSE Backups

Stages == {"", "Initial", "SnapshotScheduled", "SnapshotInProgress",
           "SnapshotRestore", "SnapshotRestoreInProgress",
           "LocalSnapshotRestore", "LocalSnapshotRestoreInProgress",
           "TransferScheduled", "TransferInProgress", "Cleanup", "Final"}

\* The stages whose status is the verdict on the transfer.
Reporting == {"TransferScheduled", "TransferInProgress", "Cleanup", "Final"}

Statuses == {"", "Initial", "InProgress", "Successful", "Failed"}

\* A worker between two calls of a job start, holding the driver's mutex in
\* Critical, and of a cleanUp.
Critical == {"check", "sa", "create"}
Starting == {"cred", "lock"} \cup Critical
Cleaning == {"snap", "cert", "vb", "delcred", "delsa", "deljob"}
\* A worker whose next step is to write the outcome of its calls.
Recording == {"named", "unnamed", "started", "failed", "cleaned"}
Labels    == {"idle"} \cup Starting \cup Cleaning \cup Recording

JobStates == {"none", "pending", "running", "complete", "reaped", "failed"}
VBStates  == {"none", "empty", "error", "saved"}

TypeOK ==
  /\ life \in [DataExports -> {"new", "live", "deleting", "gone"}]
  /\ stage \in [DataExports -> Stages]
  /\ status \in [DataExports -> Statuses]
  /\ transferID \in SUBSET DataExports
  /\ snapPVCName \in SUBSET DataExports
  /\ snapshotID \in [DataExports -> {"none", "volume", "kopia"}]
  /\ pc \in [DataExports -> Labels]
  /\ goal \in [DataExports -> {"final", "remove"}]
  /\ job \in [DataExports -> JobStates]
  /\ vb \in [DataExports -> VBStates]
  /\ cred \in SUBSET DataExports
  /\ sa \in SUBSET DataExports
  /\ cert \in BOOLEAN
  /\ snapPVC \in SUBSET DataExports
  /\ localCopy \in SUBSET DataExports
  /\ data \in SUBSET DataExports
  /\ faults \in 0..MaxFaults

\* A restore reads the VolumeBackup of an earlier backup.
Init ==
  /\ life = [d \in DataExports |-> "new"]
  /\ stage = [d \in DataExports |-> ""]
  /\ status = [d \in DataExports |-> ""]
  /\ transferID = {} /\ snapPVCName = {}
  /\ snapshotID = [d \in DataExports |-> "none"]
  /\ pc = [d \in DataExports |-> "idle"]
  /\ goal = [d \in DataExports |-> "final"]
  /\ job = [d \in DataExports |-> "none"]
  /\ vb = [d \in DataExports |-> IF d \in Restores THEN "saved" ELSE "none"]
  /\ cred = {} /\ sa = {} /\ cert = FALSE
  /\ snapPVC = {} /\ localCopy = {} /\ data = {}
  /\ faults = MaxFaults

-----------------------------------------------------------------------------
(* updateStatus and the calls of a worker                                  *)

Goto(d, label) == pc' = [pc EXCEPT ![d] = label] /\ UNCHANGED goal

\* updateStatus with a stage and a status: the other fields stay.
SetStatus(d, st, s) ==
  /\ stage' = [stage EXCEPT ![d] = st]
  /\ status' = [status EXCEPT ![d] = s]
  /\ UNCHANGED <<life, transferID, snapPVCName, snapshotID>>

\* A reconcile step whose only effect is on the object's stage and status.
Record(d, st, s) ==
  SetStatus(d, st, s) /\ UNCHANGED <<workerVars, clusterVars, faults>>

\* What the cluster answers to a worker's question, and the status it becomes.
Replies == {"ok", "wait", "fail"}
StatusOfPending == [reply \in Replies |-> CASE reply = "ok"   -> "Successful"
                                              [] reply = "wait" -> "Pending"
                                              [] OTHER          -> "Failed"]
StatusOf == [reply \in Replies |-> CASE reply = "ok"   -> "Successful"
                                       [] reply = "wait" -> "InProgress"
                                       [] OTHER          -> "Failed"]

\* Move on when the stage's own status is Successful.
Advance(d, next) == status[d] = "Successful" /\ Record(d, next, "Initial")

\* Otherwise ask the cluster and note the answer in the status.
Ask(d, reply) ==
  status[d] # "Successful" /\ Record(d, stage[d], StatusOf[reply])

\* One unit of the fault budget is spent.
Fault == faults > 0 /\ faults' = faults - 1

At(d, st) == pc[d] = "idle" /\ life[d] = "live" /\ stage[d] = st

-----------------------------------------------------------------------------
(* The object's life: user, finalizer, first stage                         *)

\* The user deletes the object; without finalizer it goes at once.
Delete(d) ==
  /\ d \in Deletable /\ life[d] \in {"new", "live"}
  /\ life' = [life EXCEPT ![d] = IF @ = "new" THEN "gone" ELSE "deleting"]
  /\ UNCHANGED <<stage, status, transferID, snapPVCName, snapshotID,
                 workerVars, clusterVars, faults>>

SetFinalizer(d) ==
  /\ pc[d] = "idle" /\ life[d] = "new"
  /\ life' = [life EXCEPT ![d] = "live"]
  /\ UNCHANGED <<stage, status, transferID, snapPVCName, snapshotID,
                 workerVars, clusterVars, faults>>

EnterInitialLive(d) ==
  /\ pc[d] = "idle" /\ life[d] = "live" /\ stage[d] = ""
  /\ Record(d, "Initial", "Initial")

\* Also taken by an object that is already being deleted.
EnterInitial(d) ==
  /\ pc[d] = "idle" /\ life[d] \in {"live", "deleting"} /\ stage[d] = ""
  /\ Record(d, "Initial", "Initial")

\* In the first stage nothing has been created yet: no cleanUp.
DeleteInitial(d) ==
  /\ pc[d] = "idle" /\ life[d] = "deleting" /\ stage[d] = "Initial"
  /\ life' = [life EXCEPT ![d] = "gone"]
  /\ UNCHANGED <<stage, status, transferID, snapPVCName, snapshotID,
                 workerVars, clusterVars, faults>>

\* A failed check is repeated at the next resync.
StageInitial(d, reply) ==
  /\ At(d, "Initial")
  /\ \/ Advance(d, CASE d \in LocalRestores -> "LocalSnapshotRestore"
                     [] d \in Snapshots     -> "SnapshotScheduled"
                     [] OTHER               -> "TransferScheduled")
     \/ reply # "wait" /\ Ask(d, reply)

-----------------------------------------------------------------------------
(* Backup from a volume snapshot                                           *)

\* CreateSnapshot accepts a snapshot of the same name, so it can be repeated.
StageSnapshotScheduled(d, reply) ==
  /\ At(d, "SnapshotScheduled")
  /\ \/ Advance(d, "SnapshotInProgress")
     \/ reply = "fail" /\ Ask(d, reply)
     \/ /\ reply = "ok" /\ status[d] # "Successful"
        /\ snapshotID' = [snapshotID EXCEPT ![d] = "volume"]
        /\ status' = [status EXCEPT ![d] = "Successful"]
        /\ UNCHANGED <<life, stage, transferID, snapPVCName,
                       workerVars, clusterVars, faults>>

StageSnapshotInProgress(d, reply) ==
  /\ At(d, "SnapshotInProgress")
  /\ Advance(d, "SnapshotRestore") \/ Ask(d, reply)

\* RestoreVolumeClaim returns the claim it created.  When the claim exists
\* already it returns the empty object of the failed Create call.
StageSnapshotRestore(d, reply) ==
  /\ At(d, "SnapshotRestore")
  /\ \/ Advance(d, "SnapshotRestoreInProgress")
     \/ reply = "fail" /\ Ask(d, reply)
     \/ /\ reply = "ok" /\ status[d] # "Successful"
        /\ snapPVC' = snapPVC \cup {d}
        /\ Goto(d, IF d \in snapPVC THEN "unnamed" ELSE "named")
        /\ UNCHANGED <<deVars, job, vb, cred, sa, cert, localCopy, data, faults>>

RecordSnapshotPVCNamed(d) ==
  /\ pc[d] \in {"named", "unnamed"}
  /\ snapPVCName' = IF pc[d] = "named" THEN snapPVCName \cup {d} ELSE snapPVCName
  /\ status' = [status EXCEPT ![d] = IF pc[d] = "named" THEN "Successful" ELSE "Failed"]
  /\ Goto(d, "idle")
  /\ UNCHANGED <<life, stage, transferID, snapshotID, clusterVars, faults>>

\* updateStatus ignores an empty snapshotPVCName.
RecordSnapshotPVC(d) ==
  /\ pc[d] \in {"named", "unnamed"}
  /\ snapPVCName' = IF pc[d] = "named" THEN snapPVCName \cup {d} ELSE snapPVCName
  /\ status' = [status EXCEPT ![d] = "Successful"]
  /\ Goto(d, "idle")
  /\ UNCHANGED <<life, stage, transferID, snapshotID, clusterVars, faults>>

StageSnapshotRestoreInProgress(d, reply) ==
  /\ At(d, "SnapshotRestoreInProgress")
  /\ Advance(d, "TransferScheduled") \/ Ask(d, reply)

-----------------------------------------------------------------------------
(* Restore from a local volume snapshot, the object store as fallback      *)

\* cleanupLocalRestoredSnapshotResources may fail; the restore goes on anyway.
FallBack(d) ==
  /\ status[d] = "Failed"
  /\ SetStatus(d, "TransferScheduled", "Initial")
  /\ \/ vb[d] # "none" /\ localCopy' = localCopy \ {d} /\ UNCHANGED faults
     \/ vb[d] = "none" /\ UNCHANGED <<localCopy, faults>>
     \/ Fault /\ UNCHANGED localCopy
  /\ UNCHANGED <<workerVars, job, vb, cred, sa, cert, snapPVC, data>>

\* RestoreFromLocalSnapshot may fail after creating part of its objects.
StageLocalSnapshotRestore(d, reply) ==
  /\ At(d, "LocalSnapshotRestore")
  /\ \/ Advance(d, "LocalSnapshotRestoreInProgress")
     \/ FallBack(d)
     \/ /\ status[d] = "Initial" /\ reply # "wait"
        /\ LET answer == IF vb[d] = "none" THEN "fail" ELSE reply
           IN  SetStatus(d, stage[d], StatusOf[answer])
        /\ localCopy' \in {localCopy \cup {d}} \cup
                          (IF reply = "fail" \/ vb[d] = "none" THEN {localCopy} ELSE {})
        /\ UNCHANGED <<workerVars, job, vb, cred, sa, cert, snapPVC, data, faults>>

\* A restored volume needs no transfer: straight to Cleanup.
StageLocalSnapshotRestoreInProgress(d, reply) ==
  /\ At(d, "LocalSnapshotRestoreInProgress")
  /\ \/ status[d] = "Successful" /\ Record(d, "Cleanup", "Successful")
     \/ FallBack(d)
     \/ /\ status[d] \in {"Initial", "InProgress"}
        /\ SetStatus(d, stage[d], StatusOf[reply])
        /\ data' = IF reply = "ok" THEN data \cup {d} ELSE data
        /\ UNCHANGED <<workerVars, job, vb, cred, sa, cert, snapPVC,
                       localCopy, faults>>

-----------------------------------------------------------------------------
(* Start the transfer: stage TransferScheduled                             *)

\* The stage's own outcome is known: move on, or give up.
LeaveTransferScheduled(d) ==
  /\ At(d, "TransferScheduled")
  /\ \/ Advance(d, "TransferInProgress")
     \/ status[d] = "Failed" /\ Record(d, "Cleanup", "Failed")

CreateCertificateSecretAgain(d) ==
  /\ At(d, "TransferScheduled") /\ status[d] # "Successful"
  /\ cert' = (cert \/ SSL)
  /\ Goto(d, "cred")
  /\ UNCHANGED <<deVars, job, vb, cred, sa, snapPVC, localCopy, data, faults>>

\* A failed call returns an error and changes nothing: the stage is retried.
CreateCertificateSecret(d) ==
  /\ At(d, "TransferScheduled") /\ status[d] \notin {"Successful", "Failed"}
  /\ cert' = (cert \/ SSL)
  /\ Goto(d, "cred")
  /\ UNCHANGED <<deVars, job, vb, cred, sa, snapPVC, localCopy, data, faults>>

\* checkPVCIgnoringJobMounts: a pod of another job has the claim mounted.  The
\* pod of a pending job may not exist yet.
MountedByOther(d, states) ==
  \E e \in DataExports \ {d} : PvcOf[e] = PvcOf[d] /\ job[e] \in states

\* A restore first reads its VolumeBackup, creates and checks the claim.
CreateCredentialsSecret(d) ==
  /\ pc[d] = "cred"
  /\ \/ /\ d \in Restores => /\ vb[d] # "none"
                             /\ ~MountedByOther(d, {"running", "complete"})
        /\ cred' = cred \cup {d}
        /\ Goto(d, "lock")
     \/ /\ d \in Restores
        /\ vb[d] = "none" \/ MountedByOther(d, {"pending", "running", "complete"})
        /\ UNCHANGED cred
        /\ Goto(d, "failed")
  /\ UNCHANGED <<deVars, job, vb, sa, cert, snapPVC, localCopy, data, faults>>

LockAlwaysFree(d) == d \in DataExports

\* backupJobLock and restoreJobLock are held for the whole of StartJob.
LockFree(d) == \A e \in SameKind(d) : pc[e] \notin Critical

AcquireLock(d) ==
  /\ pc[d] = "lock" /\ LockFree(d)
  /\ Goto(d, "check")
  /\ UNCHANGED <<deVars, clusterVars, faults>>

JobForPvcExistsRunning(d) ==
  \E e \in Backups : PvcOf[e] = PvcOf[d] /\ job[e] = "running"

\* IsJobForPvcAlreadyRunning: a job for the claim exists, in whatever state.
JobForPvcExists(d) == \E e \in Backups : PvcOf[e] = PvcOf[d] /\ job[e] # "none"

\* getJobCountByType leaves out the jobs that are complete.
JobCount(kind) ==
  Cardinality({e \in kind : job[e] \notin {"none", "complete", "reaped"}})

CanOneMoreBeScheduled(d) == JobCount(SameKind(d)) <= JobLimit
CanJobBeScheduled(d) == JobCount(SameKind(d)) < JobLimit

CheckJobOnly(d) ==
  /\ pc[d] = "check"
  /\ Goto(d, IF d \in Backups /\ job[d] # "none"         THEN "started"
             ELSE IF d \in Backups /\ JobForPvcExists(d) THEN "idle"
             ELSE IF ~CanJobBeScheduled(d)               THEN "idle"
             ELSE "create")
  /\ UNCHANGED <<deVars, clusterVars, faults>>

\* The checks of StartJob.  Only a backup looks for its own job; being refused
\* is retried at the next reconcile and leaves the status alone.
CheckJob(d) ==
  /\ pc[d] = "check"
  /\ Goto(d, IF d \in Backups /\ job[d] # "none"         THEN "started"
             ELSE IF d \in Backups /\ JobForPvcExists(d) THEN "idle"
             ELSE IF ~CanJobBeScheduled(d)               THEN "idle"
             ELSE IF d \in Restores /\ vb[d] = "none"    THEN "failed"
             ELSE "sa")
  /\ UNCHANGED <<deVars, clusterVars, faults>>

SetupServiceAccount(d) ==
  /\ pc[d] = "sa"
  /\ sa' = sa \cup {d}
  /\ Goto(d, "create")
  /\ UNCHANGED <<deVars, job, vb, cred, cert, snapPVC, localCopy, data, faults>>

\* A job of the same name is taken for the one to be created.
CreateJob(d) ==
  /\ pc[d] = "create"
  /\ job' = [job EXCEPT ![d] = IF @ = "none" THEN "pending" ELSE @]
  /\ Goto(d, "started")
  /\ UNCHANGED <<deVars, vb, cred, sa, cert, snapPVC, localCopy, data, faults>>

\* A call of the start fails, possibly after it took effect; so do the checks
\* of StartJob and a backup of a claim whose pod is pending.
StartFails(d) ==
  /\ pc[d] \in {"cred"} \cup Critical /\ Fault
  /\ Goto(d, "failed")
  /\ cred' \in {cred, IF pc[d] = "cred" THEN cred \cup {d} ELSE cred}
  /\ sa' \in {sa, IF pc[d] = "sa" THEN sa \cup {d} ELSE sa}
  /\ job' \in {job, [job EXCEPT ![d] = IF pc[d] = "create" /\ @ = "none"
                                       THEN "pending" ELSE @]}
  /\ UNCHANGED <<deVars, vb, cert, snapPVC, localCopy, data>>

RecordTransfer(d) ==
  /\ pc[d] = "started"
  /\ transferID' = transferID \cup {d}
  /\ status' = [status EXCEPT ![d] = "Successful"]
  /\ Goto(d, "idle")
  /\ UNCHANGED <<life, stage, snapPVCName, snapshotID, clusterVars, faults>>

RecordFailure(d) ==
  /\ pc[d] = "failed"
  /\ SetStatus(d, stage[d], "Failed")
  /\ Goto(d, "idle")
  /\ UNCHANGED <<clusterVars, faults>>

-----------------------------------------------------------------------------
(* Poll the transfer: stage TransferInProgress                             *)

BackupAnswerJobDone(d) ==
  CASE job[d] = "none"                   -> "fail"
    [] job[d] \in {"pending", "running"} -> "wait"
    [] OTHER                             -> "ok"

BackupAnswerNoFailure(d) ==
  CASE job[d] = "none"                             -> "fail"
    [] job[d] \in {"pending", "running", "failed"} -> "wait"
    [] OTHER                                       -> "ok"

\* JobStatus of kopiabackup, then the switch over its answer.  Unless the job
\* has a condition, the answer is "in progress" whatever the VolumeBackup says.
BackupAnswer(d) ==
  CASE job[d] \in {"none", "failed"}     -> "fail"
    [] job[d] \in {"pending", "running"} -> "wait"
    [] OTHER -> CASE vb[d] = "saved" -> "ok"
                  [] vb[d] = "empty" -> "wait"
                  [] OTHER           -> "fail"

RestoreAnswerJobDone(d) ==
  CASE job[d] = "none"                             -> "fail"
    [] job[d] \in {"pending", "running", "reaped"} -> "wait"
    [] OTHER                                       -> "ok"

\* JobStatus of kopiarestore: a job without pods counts as pending, even when
\* it is complete.
RestoreAnswer(d) ==
  CASE job[d] \in {"none", "failed"}               -> "fail"
    [] job[d] \in {"pending", "running", "reaped"} -> "wait"
    [] OTHER -> IF vb[d] = "none" THEN "fail" ELSE "ok"

TransferAnswer(d) == IF d \in Restores THEN RestoreAnswer(d) ELSE BackupAnswer(d)

\* The snapshot id of the VolumeBackup is recorded with the success.
StageTransferInProgress(d) ==
  /\ At(d, "TransferInProgress")
  /\ \/ /\ status[d] \in {"Successful", "Failed"}
        /\ Record(d, "Cleanup", status[d])
     \/ /\ status[d] \in {"Initial", "InProgress"}
        /\ status' = [status EXCEPT ![d] = StatusOf[TransferAnswer(d)]]
        /\ snapshotID' = [snapshotID EXCEPT
             ![d] = IF TransferAnswer(d) = "ok" /\ vb[d] = "saved"
                    THEN "kopia" ELSE @]
        /\ UNCHANGED <<life, stage, transferID, snapPVCName,
                       workerVars, clusterVars, faults>>

\* The node of the job is gone or not ready, its container has terminated
\* before the VolumeBackup exists, or a read fails for longer than the retries.
PollFails(d) ==
  /\ At(d, "TransferInProgress") /\ status[d] \in {"Initial", "InProgress"}
  /\ Fault
  /\ SetStatus(d, stage[d], "Failed")
  /\ UNCHANGED <<workerVars, clusterVars>>

-----------------------------------------------------------------------------
(* cleanUp: stage Cleanup, or the deletion of an object past Initial       *)

BeginCleanUpFinal(d) ==
  /\ pc[d] = "idle"
  /\ \/ /\ life[d] = "live" /\ stage[d] = "Cleanup"
        /\ goal' = [goal EXCEPT ![d] = "final"]
     \/ /\ life[d] = "deleting" /\ stage[d] = "Final"
        /\ goal' = [goal EXCEPT ![d] = "remove"]
  /\ pc' = [pc EXCEPT ![d] = "snap"]
  /\ UNCHANGED <<deVars, clusterVars, faults>>

BeginCleanUp(d) ==
  /\ pc[d] = "idle"
  /\ \/ /\ life[d] = "live" /\ stage[d] = "Cleanup"
        /\ goal' = [goal EXCEPT ![d] = "final"]
     \/ /\ life[d] = "deleting" /\ stage[d] \notin {"", "Initial"}
        /\ goal' = [goal EXCEPT ![d] = "remove"]
  /\ pc' = [pc EXCEPT ![d] = "snap"]
  /\ UNCHANGED <<deVars, clusterVars, faults>>

\* The temporary objects of the volume snapshots.  The credential secret is
\* read for RetainLocalSnapshots: if it is gone, cleanUp returns at once.  An
\* error of getSnapshotDriverName is taken for nothing to clean up.
CleanUpSnapshot(d) ==
  /\ pc[d] = "snap"
  /\ \/ /\ d \notin LocalRestores \cup (Snapshots \cap snapPVCName)
        /\ Goto(d, "cert") /\ UNCHANGED <<snapPVC, localCopy, faults>>
     \/ /\ d \in LocalRestores /\ vb[d] # "none"
        /\ localCopy' = localCopy \ {d}
        /\ Goto(d, "cert") /\ UNCHANGED <<snapPVC, faults>>
     \/ /\ d \in LocalRestores /\ Fault
        /\ Goto(d, "cert") /\ UNCHANGED <<snapPVC, localCopy>>
     \/ /\ d \in Snapshots \cap snapPVCName
        /\ IF d \in cred
           THEN snapPVC' = snapPVC \ {d} /\ Goto(d, "cert")
           ELSE UNCHANGED snapPVC /\ Goto(d, "cleaned")
        /\ UNCHANGED <<localCopy, faults>>
  /\ UNCHANGED <<deVars, job, vb, cred, sa, cert, data>>

\* DeleteJob only runs for a recorded transfer.
DeleteCertificateSecret(d) ==
  /\ pc[d] = "cert"
  /\ cert' = FALSE
  /\ Goto(d, IF d \notin transferID THEN "cleaned"
             ELSE IF d \in Backups THEN "vb" ELSE "delcred")
  /\ UNCHANGED <<deVars, job, vb, cred, sa, snapPVC, localCopy, data, faults>>

DeleteVolumeBackup(d) ==
  /\ pc[d] = "vb"
  /\ vb' = [vb EXCEPT ![d] = "none"]
  /\ Goto(d, "delcred")
  /\ UNCHANGED <<deVars, job, cred, sa, cert, snapPVC, localCopy, data, faults>>

DeleteCredentialsSecret(d) ==
  /\ pc[d] = "delcred"
  /\ cred' = cred \ {d}
  /\ Goto(d, "delsa")
  /\ UNCHANGED <<deVars, job, vb, sa, cert, snapPVC, localCopy, data, faults>>

CleanServiceAccount(d) ==
  /\ pc[d] = "delsa"
  /\ sa' = sa \ {d}
  /\ Goto(d, "deljob")
  /\ UNCHANGED <<deVars, job, vb, cred, cert, snapPVC, localCopy, data, faults>>

DeleteJob(d) ==
  /\ pc[d] = "deljob"
  /\ job' = [job EXCEPT ![d] = "none"]
  /\ Goto(d, "cleaned")
  /\ UNCHANGED <<deVars, vb, cred, sa, cert, snapPVC, localCopy, data, faults>>

\* The stage is Final with the status of the transfer, or the finalizer goes.
FinishCleanUp(d) ==
  /\ pc[d] = "cleaned"
  /\ IF goal[d] = "final"
     THEN SetStatus(d, "Final", status[d])
     ELSE /\ life' = [life EXCEPT ![d] = "gone"]
          /\ UNCHANGED <<stage, status, transferID, snapPVCName, snapshotID>>
  /\ Goto(d, "idle")
  /\ UNCHANGED <<clusterVars, faults>>

CleanUpErrorKept(d) ==
  /\ \/ /\ goal[d] = "final"
        /\ Goto(d, "idle") /\ SetStatus(d, "Final", status[d])
     \/ /\ goal[d] = "remove"
        /\ Goto(d, "idle") /\ UNCHANGED deVars
  /\ UNCHANGED clusterVars

\* cleanUp returns an error: the Cleanup stage starts over until its time is up
\* and fails the DataExport, a deletion is left to the next reconcile.
CleanUpError(d) ==
  /\ \/ /\ goal[d] = "final"
        /\ Goto(d, "snap") /\ UNCHANGED deVars
     \/ /\ goal[d] = "final"
        /\ Goto(d, "idle") /\ SetStatus(d, "Final", "Failed")
     \/ /\ goal[d] = "remove"
        /\ Goto(d, "idle") /\ UNCHANGED deVars
  /\ UNCHANGED clusterVars

\* cleanupLocalRestoredSnapshotResources needs the VolumeBackup.
CleanUpBlocked(d) ==
  /\ pc[d] = "snap" /\ d \in LocalRestores /\ vb[d] = "none"
  /\ CleanUpError(d) /\ UNCHANGED faults

CleanUpFails(d) == pc[d] \in Cleaning /\ Fault /\ CleanUpError(d)

-----------------------------------------------------------------------------
(* Failures of the controller: a restart, an update that is never accepted *)

Crash ==
  /\ \E d \in DataExports : pc[d] # "idle"
  /\ Fault
  /\ pc' = [d \in DataExports |-> "idle"]
  /\ UNCHANGED <<goal, deVars, clusterVars>>

LoseUpdate(d) ==
  /\ pc[d] \in Recording /\ Fault
  /\ Goto(d, "idle")
  /\ UNCHANGED <<deVars, clusterVars>>

-----------------------------------------------------------------------------
(* The job: Kubernetes and the executor in the job's pod                   *)

\* The pod needs its service account and the secrets it mounts.
StartPod(d) ==
  /\ job[d] = "pending"
  /\ d \in cred \cap sa /\ (SSL => cert)
  /\ job' = [job EXCEPT ![d] = "running"]
  /\ UNCHANGED <<deVars, workerVars, vb, cred, sa, cert, snapPVC, localCopy,
                 data, faults>>

\* The executor may use the API as long as its service account exists.
SetVolumeBackup(d, old, new) ==
  /\ d \in Backups \cap sa /\ job[d] = "running" /\ vb[d] \in old
  /\ vb' = [vb EXCEPT ![d] = new]
  /\ UNCHANGED <<deVars, workerVars, job, cred, sa, cert, snapPVC, localCopy,
                 data, faults>>

CreateVolumeBackup(d) == SetVolumeBackup(d, {"none"}, "empty")
WriteError(d)         == SetVolumeBackup(d, {"empty"}, "error")
ClearError(d)         == SetVolumeBackup(d, {"error"}, "empty")
WriteSnapshotID(d)    == d \in data /\ SetVolumeBackup(d, {"empty", "error"}, "saved")

\* kopia has stored the snapshot, or has restored one into the claim.
TransferData(d) ==
  /\ job[d] = "running" /\ d \notin data
  /\ d \in Restores \/ vb[d] \in {"empty", "error"}
  /\ data' = data \cup {d}
  /\ UNCHANGED <<deVars, workerVars, job, vb, cred, sa, cert, snapPVC,
                 localCopy, faults>>

SetJob(d, from, to) ==
  /\ job[d] = from
  /\ job' = [job EXCEPT ![d] = to]
  /\ UNCHANGED <<deVars, workerVars, vb, cred, sa, cert, snapPVC, localCopy, data>>

CompleteJob(d) ==
  /\ d \in data /\ (d \in Backups => vb[d] = "saved")
  /\ SetJob(d, "running", "complete") /\ UNCHANGED faults

\* The backoff limit of the job is reached.
FailJob(d) == SetJob(d, "running", "failed") /\ UNCHANGED faults

\* The pods of a complete job are collected.
ReapPods(d) == SetJob(d, "complete", "reaped") /\ Fault

\* Somebody deletes the VolumeBackup a restore reads.
LoseSource(d) ==
  /\ d \in Restores /\ vb[d] # "none" /\ Fault
  /\ vb' = [vb EXCEPT ![d] = "none"]
  /\ UNCHANGED <<deVars, workerVars, job, cred, sa, cert, snapPVC, localCopy, data>>

-----------------------------------------------------------------------------
(* The specification                                                       *)

\* One reconcile of an idle worker; reply is what the cluster answers.
Reconcile(d, reply) ==
  \/ SetFinalizer(d) \/ EnterInitial(d) \/ DeleteInitial(d)
  \/ StageInitial(d, reply)
  \/ StageSnapshotScheduled(d, reply) \/ StageSnapshotInProgress(d, reply)
  \/ StageSnapshotRestore(d, reply) \/ StageSnapshotRestoreInProgress(d, reply)
  \/ StageLocalSnapshotRestore(d, reply)
  \/ StageLocalSnapshotRestoreInProgress(d, reply)
  \/ LeaveTransferScheduled(d) \/ CreateCertificateSecret(d)
  \/ StageTransferInProgress(d) \/ BeginCleanUp(d)

\* The worker goes on with what it has begun.
Continue(d) ==
  \/ RecordSnapshotPVC(d) \/ CreateCredentialsSecret(d)
  \/ CheckJob(d) \/ SetupServiceAccount(d) \/ CreateJob(d)
  \/ RecordTransfer(d) \/ RecordFailure(d)
  \/ CleanUpSnapshot(d) \/ DeleteCertificateSecret(d) \/ DeleteVolumeBackup(d)
  \/ DeleteCredentialsSecret(d) \/ CleanServiceAccount(d) \/ DeleteJob(d)
  \/ FinishCleanUp(d) \/ CleanUpBlocked(d)

WorkerFails(d) ==
  StartFails(d) \/ PollFails(d) \/ CleanUpFails(d) \/ LoseUpdate(d)

\* The job gets on; the rest of what can happen to it is in JobMishap.
JobStep(d) ==
  \/ StartPod(d) \/ CreateVolumeBackup(d) \/ TransferData(d)
  \/ WriteSnapshotID(d) \/ CompleteJob(d)

JobMishap(d) ==
  \/ WriteError(d) \/ ClearError(d) \/ FailJob(d) \/ ReapPods(d) \/ LoseSource(d)

Next ==
  \/ Crash
  \/ \E d \in DataExports :
       \/ Delete(d) \/ AcquireLock(d) \/ Continue(d) \/ WorkerFails(d)
       \/ \E reply \in Replies : Reconcile(d, reply)
       \/ JobStep(d) \/ JobMishap(d)

Spec == Init /\ [][Next]_vars

\* Objects are requeued until they are Final; sync.Mutex hands itself over to a
\* waiter that has waited for long, which makes its fairness strong; a job that
\* can get on does; the cluster's checks succeed in the end.
Fairness ==
  \A d \in DataExports :
    /\ WF_vars(Reconcile(d, "ok")) /\ WF_vars(Continue(d))
    /\ SF_vars(AcquireLock(d))
    /\ WF_vars(JobStep(d))

FairSpec == Spec /\ Fairness

-----------------------------------------------------------------------------
(* Properties                                                              *)

\* A DataExport reported as Successful after its transfer has its data: a
\* restore in its claim, a backup in the repository under the snapshot id the
\* object carries (and not under that of the volume snapshot).
SuccessIsBacked ==
  \A d \in DataExports :
    /\ status[d] = "Successful"
    /\ stage[d] \in {"TransferInProgress", "Cleanup", "Final"}
    => d \in data /\ (d \in Backups => snapshotID[d] = "kopia")

\* As long as a transfer is polled, its job, its credential secret and its service
\* account are there and its id is recorded: no lost update, restart or repeated
\* start has cost it what is its own.  The certificate secret is shared and not
\* covered: the cleanUp of another DataExport may delete it.
TransferHasResources ==
  \A d \in DataExports :
    /\ life[d] = "live" /\ stage[d] = "TransferInProgress"
    /\ status[d] \in {"Initial", "InProgress"}
    => job[d] # "none" /\ d \in transferID \cap cred \cap sa

\* Two backups of one claim never have jobs at the same time, although each
\* worker looks for the other's job before it creates its own.
OneJobPerClaim ==
  \A d, e \in Backups :
    d # e /\ PvcOf[d] = PvcOf[e] => job[d] = "none" \/ job[e] = "none"

\* The jobs of a driver that are not complete stay within the limit.
JobLimitRespected == JobCount(Backups) <= JobLimit /\ JobCount(Restores) <= JobLimit

\* From TransferScheduled on, a failure that has been reported stays: no retry,
\* late answer of a job or cleanUp turns it into a success.
FailureIsFinal ==
  [][\A d \in DataExports :
       /\ status[d] = "Failed"
       /\ stage[d] \in Reporting
       => status'[d] = "Failed"]_vars

Leftovers(d) ==
  \/ job[d] # "none"
  \/ d \in cred \cup sa \cup snapPVC \cup localCopy
  \/ d \in Backups /\ vb[d] # "none"

\* A plain backup or restore that ends in success has removed its job, secret,
\* service account and VolumeBackup, whatever failed or restarted on the way.
SuccessLeavesNothing ==
  \A d \in DataExports \ (Snapshots \cup LocalRestores) :
    stage[d] = "Final" /\ status[d] = "Successful" => ~Leftovers(d)

\* Every DataExport becomes Final, or is removed.
EventuallyDone ==
  \A d \in DataExports : <>(stage[d] = "Final" \/ life[d] = "gone")

\* A deleted DataExport is removed: its finalizer does not stay for ever.
DeletionCompletes ==
  \A d \in DataExports : life[d] = "deleting" ~> life[d] = "gone"

-----------------------------------------------------------------------------
(* Inductive invariants                                                    *)

\* Two workers of one driver are never both inside StartJob.
MutualExclusion ==
  \A d \in DataExports : \A e \in SameKind(d) :
    d # e /\ pc[d] \in Critical => pc[e] \notin Critical

\* What the holder of the lock has seen stays true until it creates its job.
StartSeesNoJob ==
  \A d, e \in Backups :
    d # e /\ PvcOf[e] = PvcOf[d] /\ pc[d] \in {"sa", "create"} => job[e] = "none"

\* The mutex and the look for another job in the same claim give OneJobPerClaim.
ClaimInv == MutualExclusion /\ StartSeesNoJob /\ OneJobPerClaim

\* A worker in the middle of a stage finds its object in that stage, and is
\* there because the stage has no outcome yet.
WorkerStage ==
  \A d \in DataExports :
    /\ pc[d] \in Starting \cup {"started", "failed"}
       => stage[d] = "TransferScheduled" /\ status[d] \notin {"Successful", "Failed"}
    /\ pc[d] \in {"named", "unnamed"} => stage[d] = "SnapshotRestore"
    /\ pc[d] \in Cleaning \cup {"cleaned"} /\ goal[d] = "final"
       => stage[d] = "Cleanup"

\* Only a local restore passes through these stages; its success is the data.
LocalStage ==
  \A d \in DataExports :
    stage[d] \in {"LocalSnapshotRestore", "LocalSnapshotRestoreInProgress"}
    => /\ d \in LocalRestores
       /\ stage[d] = "LocalSnapshotRestoreInProgress" /\ status[d] = "Successful"
          => d \in data

\* The job and its VolumeBackup only report what has been transferred.
ReportIsBacked ==
  \A d \in DataExports :
    /\ d \in Backups /\ vb[d] = "saved" => d \in data
    /\ job[d] \in {"complete", "reaped"} => d \in data

BackedInv == WorkerStage /\ LocalStage /\ ReportIsBacked /\ SuccessIsBacked

-----------------------------------------------------------------------------
(* What a DataExport promises (module Transfer)                            *)

\* The verdict a user reads from stage and status.
Phase(d) ==
  CASE life[d] = "gone" -> "removed"
    [] life[d] # "gone" /\ stage[d] \in Reporting /\ status[d] = "Failed" -> "failed"
    [] life[d] # "gone" /\ stage[d] = "Final" /\ status[d] # "Failed" -> "succeeded"
    [] life[d] # "gone" /\ stage[d] \in {"TransferInProgress", "Cleanup"}
                        /\ status[d] = "Successful" -> "transferred"
    [] OTHER -> "open"

Promise == INSTANCE Transfer WITH
  Requests  <- DataExports,
  Readers   <- Backups,
  ClaimOf   <- PvcOf,
  Traceless <- DataExports \ (Snapshots \cup LocalRestores),
  phase     <- [d \in DataExports |-> Phase(d)],
  working   <- {d \in DataExports : job[d] # "none"},
  traces    <- {d \in DataExports \ (Snapshots \cup LocalRestores) : Leftovers(d)},
  moved     <- data

\* The controller and its drivers keep what module Transfer promises: a verdict
\* is given once, a success has its data and has left nothing, jobs that read
\* one claim exclude each other, and nothing is started after the verdict.
KeepsPromise == Promise!Spec

\* They also give the verdict in the end.
KeepsPromiseInTime == Promise!FairSpec

-----------------------------------------------------------------------------
(* What a job may do (module TransferJob)                                  *)

\* The containers of KopiaPod keep to TransferJob.
Job == INSTANCE TransferJob WITH
  state <- job, report <- [b \in Backups |-> vb[b]], moved <- data

-----------------------------------------------------------------------------
(* What the repository says and the code does not do                       *)

\* "If secret is not found, we assume, it is retry" (reconcile.go:1118): the
\* temporary claim of an object that is gone was removed by the earlier try.
RemovedLeavesNoSnapshotPVC ==
  \A d \in Snapshots : life[d] = "gone" => d \notin snapPVC

=============================================================================
