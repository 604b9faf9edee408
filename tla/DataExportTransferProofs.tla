----------------------- MODULE DataExportTransferProofs -----------------------
(***************************************************************************)
(* DataExport implements Transfer: every step of the controller, of its    *)
(* drivers and of their jobs is a step of Transfer or changes nothing      *)
(* there.                                                                  *)
(*                                                                         *)
(* Before that, what a DataExport has in the cluster at each stage:        *)
(* all that it has of its own while the transfer is polled (not the shared *)
(* certificate secret), and nothing any more once a plain backup or        *)
(* restore has ended in success.                                           *)
(***************************************************************************)
EXTENDS DataExportClaimProofs

Plain == DataExports \ (Snapshots \cup LocalRestores)

\* A worker is busy only for an object that exists, and removes what belongs to
\* it only after its transfer or its deletion.
WorkerLife ==
  \A d \in DataExports :
    /\ pc[d] # "idle" => life[d] \in {"live", "deleting"}
    /\ pc[d] \in Cleaning \cup {"cleaned"} /\ goal[d] = "remove"
       => life[d] = "deleting"

\* Only a backup of a volume snapshot passes through these stages, only it and
\* a local restore have temporary volumes, and a verdict leads to Cleanup.
StagesTaken ==
  \A d \in DataExports :
    /\ stage[d] \in {"SnapshotScheduled", "SnapshotInProgress",
                     "SnapshotRestore", "SnapshotRestoreInProgress"}
       => d \in Snapshots
    /\ d \in Plain => d \notin snapPVC \cup localCopy
    /\ stage[d] \in {"Cleanup", "Final"}
       => status[d] \in {"Successful", "Failed"}

\* Until its Cleanup, a job that exists has its own credential secret and service
\* account; a start that goes on has put them there first; a start that has succeeded
\* has its job and its TransferID.
HasResources ==
  \A d \in DataExports :
    /\ \/ stage[d] = "TransferScheduled" /\ status[d] = "Successful"
       \/ stage[d] = "TransferInProgress"
       => d \in transferID
    /\ life[d] \in {"new", "live"} /\ stage[d] \notin {"Cleanup", "Final"}
       => /\ job[d] # "none" => d \in cred \cap sa
          /\ pc[d] \in {"lock", "started"} \cup Critical => d \in cred
          /\ pc[d] = "create" => d \in sa
          /\ \/ pc[d] = "started"
             \/ stage[d] = "TransferScheduled" /\ status[d] = "Successful"
             \/ stage[d] = "TransferInProgress"
             => job[d] # "none"

\* A transfer that succeeded has no job left that could still write, and the
\* cleanUp behind it removes one thing after the other.
CleansUp ==
  \A d \in Plain :
    /\ stage[d] \in {"TransferInProgress", "Cleanup", "Final"}
    /\ status[d] = "Successful"
    => /\ d \in transferID /\ job[d] \in {"none", "complete", "reaped"}
       /\ pc[d] \in {"delcred", "delsa", "deljob", "cleaned"}
          => (d \in Backups => vb[d] = "none")
       /\ pc[d] \in {"delsa", "deljob", "cleaned"} => d \notin cred
       /\ pc[d] \in {"deljob", "cleaned"} => d \notin sa
       /\ pc[d] = "cleaned" => job[d] = "none"

ResourceInv == /\ WorkerLife /\ StagesTaken /\ HasResources /\ CleansUp
               /\ SuccessLeavesNothing

-----------------------------------------------------------------------------
(* What the steps of the worker and of the job do to the resources         *)

\* The user, the finalizer and the first stages.
LEMMA LifeResources ==
  ASSUME TypeOK, BackedInv, ResourceInv, NEW d \in DataExports,
         NEW reply \in Replies,
         \/ Delete(d) \/ SetFinalizer(d) \/ EnterInitial(d)
         \/ DeleteInitial(d) \/ StageInitial(d, reply)
  PROVE  ResourceInv'
<1> USE DEF ResourceInv, WorkerLife, StagesTaken, HasResources, CleansUp,
          SuccessLeavesNothing, Leftovers, Plain, BackedInv, WorkerStage,
          TypeOK, deVars, workerVars, clusterVars, Starting, Critical,
          Cleaning, Backups
<1>1. CASE Delete(d)
  BY <1>1 DEF Delete
<1>2. CASE SetFinalizer(d)
  BY <1>2 DEF SetFinalizer
<1>3. CASE EnterInitial(d)
  <2>1. /\ stage' = [stage EXCEPT ![d] = "Initial"]
        /\ status' = [status EXCEPT ![d] = "Initial"]
        /\ UNCHANGED <<life, transferID, pc, goal, job, vb, cred, sa, snapPVC,
                       localCopy>>
        /\ pc[d] = "idle"
    BY <1>3 DEF EnterInitial, Record, SetStatus
  <2>2. stage[d] \notin {"Cleanup", "Final"}
    BY <1>3, Zenon DEF EnterInitial
  <2>3. WorkerLife' /\ StagesTaken'
    BY <2>1
  <2>4. HasResources'
    BY <2>1, <2>2
  <2>5. CleansUp' /\ SuccessLeavesNothing'
    BY <2>1
  <2> QED
    BY <2>3, <2>4, <2>5
<1>4. CASE DeleteInitial(d)
  BY <1>4 DEF DeleteInitial
<1>5. CASE StageInitial(d, reply)
BY <1>5, KindsAssumption DEF StageInitial, At, Advance, Ask, Record,
     SetStatus, StatusOf, Replies
<1> QED
  BY <1>1, <1>2, <1>3, <1>4, <1>5

\* The stages of a volume snapshot, local or not: they start nothing.
LEMMA SnapshotResources ==
  ASSUME TypeOK, BackedInv, ResourceInv, NEW d \in DataExports,
         NEW reply \in Replies,
         \/ StageSnapshotScheduled(d, reply)
         \/ StageSnapshotInProgress(d, reply)
         \/ StageSnapshotRestore(d, reply) \/ RecordSnapshotPVC(d)
         \/ StageSnapshotRestoreInProgress(d, reply)
         \/ StageLocalSnapshotRestore(d, reply)
         \/ StageLocalSnapshotRestoreInProgress(d, reply)
  PROVE  ResourceInv'
<1> USE DEF ResourceInv, WorkerLife, StagesTaken, HasResources, CleansUp,
          SuccessLeavesNothing, Leftovers, Plain, BackedInv, WorkerStage,
          TypeOK, deVars, workerVars, clusterVars, Starting, Critical,
          Cleaning, Backups
<1>1. CASE StageSnapshotScheduled(d, reply)
BY <1>1 DEF StageSnapshotScheduled, At, Advance, Ask, Record, SetStatus,
     StatusOf, Replies
<1>2. CASE StageSnapshotInProgress(d, reply)
BY <1>2 DEF StageSnapshotInProgress, At, Advance, Ask, Record, SetStatus,
     StatusOf, Replies
<1>3. CASE StageSnapshotRestore(d, reply)
BY <1>3 DEF StageSnapshotRestore, Goto, At, Advance, Ask, Record, SetStatus,
     StatusOf, Replies
<1>4. CASE RecordSnapshotPVC(d)
  BY <1>4 DEF RecordSnapshotPVC, Goto
<1>5. CASE StageSnapshotRestoreInProgress(d, reply)
BY <1>5 DEF StageSnapshotRestoreInProgress, At, Advance, Ask, Record,
     SetStatus, StatusOf, Replies
<1>6. CASE StageLocalSnapshotRestore(d, reply)
BY <1>6 DEF StageLocalSnapshotRestore, LocalStage, FallBack, At, Advance, Ask,
     Record, SetStatus, StatusOf, Replies
<1>7. CASE StageLocalSnapshotRestoreInProgress(d, reply)
BY <1>7 DEF StageLocalSnapshotRestoreInProgress, LocalStage, FallBack, At,
     Advance, Ask, Record, SetStatus, StatusOf, Replies
<1> QED
  BY <1>1, <1>2, <1>3, <1>4, <1>5, <1>6, <1>7

\* The start of a transfer puts the secret and the service account in place
\* before the job.
LEMMA StartResources ==
  ASSUME TypeOK, BackedInv, ResourceInv, NEW d \in DataExports,
         \/ LeaveTransferScheduled(d) \/ CreateCertificateSecret(d)
         \/ CreateCredentialsSecret(d) \/ AcquireLock(d) \/ CheckJob(d)
         \/ SetupServiceAccount(d) \/ CreateJob(d) \/ StartFails(d)
         \/ RecordTransfer(d) \/ RecordFailure(d) \/ PollFails(d)
         \/ LoseUpdate(d)
  PROVE  ResourceInv'
<1> USE DEF ResourceInv, WorkerLife, StagesTaken, HasResources, CleansUp,
          SuccessLeavesNothing, Leftovers, Plain, BackedInv, WorkerStage,
          TypeOK, deVars, workerVars, clusterVars, Starting, Critical,
          Cleaning, Backups
<1>1. CASE LeaveTransferScheduled(d)
  BY <1>1 DEF LeaveTransferScheduled, At, Advance, Record, SetStatus
<1>2. CASE CreateCertificateSecret(d)
  BY <1>2 DEF CreateCertificateSecret, At, Goto
<1>3. CASE CreateCredentialsSecret(d)
  BY <1>3 DEF CreateCredentialsSecret, Goto
<1>4. CASE AcquireLock(d)
  BY <1>4 DEF AcquireLock, Goto
<1>5. CASE CheckJob(d)
  BY <1>5 DEF CheckJob, Goto
<1>6. CASE SetupServiceAccount(d)
  BY <1>6 DEF SetupServiceAccount, Goto
<1>7. CASE CreateJob(d)
  BY <1>7 DEF CreateJob, Goto, JobStates
<1>8. CASE StartFails(d)
  BY <1>8 DEF StartFails, Goto, Fault, JobStates
<1>9. CASE RecordTransfer(d)
  BY <1>9 DEF RecordTransfer, Goto
<1>10. CASE RecordFailure(d)
  BY <1>10 DEF RecordFailure, Goto, SetStatus
<1>11. CASE PollFails(d)
  BY <1>11 DEF PollFails, At, SetStatus
<1>12. CASE LoseUpdate(d)
  BY <1>12 DEF LoseUpdate, Goto, Recording
<1> QED
  BY <1>1, <1>2, <1>3, <1>4, <1>5, <1>6, <1>7, <1>8, <1>9, <1>10, <1>11, <1>12

\* A cleanUp takes away only what no transfer needs any more, and a success
\* only behind the last of it.
LEMMA CleanUpResources ==
  ASSUME TypeOK, BackedInv, ResourceInv, NEW d \in DataExports,
         \/ BeginCleanUp(d) \/ CleanUpSnapshot(d)
         \/ DeleteCertificateSecret(d) \/ DeleteVolumeBackup(d)
         \/ DeleteCredentialsSecret(d) \/ CleanServiceAccount(d)
         \/ DeleteJob(d) \/ FinishCleanUp(d) \/ CleanUpBlocked(d)
         \/ CleanUpFails(d)
  PROVE  ResourceInv'
<1> USE DEF ResourceInv, WorkerLife, StagesTaken, HasResources, CleansUp,
          SuccessLeavesNothing, Leftovers, Plain, BackedInv, WorkerStage,
          TypeOK, deVars, workerVars, clusterVars, Starting, Critical,
          Cleaning, Backups
<1>1. CASE BeginCleanUp(d)
  <2>1. /\ pc[d] = "idle" /\ pc' = [pc EXCEPT ![d] = "snap"]
        /\ UNCHANGED <<life, stage, status, transferID, job, vb, cred, sa,
                       snapPVC, localCopy>>
    BY <1>1 DEF BeginCleanUp
  <2>2. \E g \in {"final", "remove"} :
          /\ goal' = [goal EXCEPT ![d] = g]
          /\ life[d] \in {"live", "deleting"}
          /\ g = "remove" => life[d] = "deleting"
    BY <1>1 DEF BeginCleanUp
  <2>3. WorkerLife' /\ StagesTaken'
    BY <2>1, <2>2
  <2>4. HasResources'
    BY <2>1
  <2>5. CleansUp' /\ SuccessLeavesNothing'
    BY <2>1
  <2> QED
    BY <2>3, <2>4, <2>5
<1>2. CASE CleanUpSnapshot(d)
  BY <1>2 DEF CleanUpSnapshot, Goto
<1>3. CASE DeleteCertificateSecret(d)
  BY <1>3 DEF DeleteCertificateSecret, Goto
<1>4. CASE DeleteVolumeBackup(d)
  BY <1>4 DEF DeleteVolumeBackup, Goto
<1>5. CASE DeleteCredentialsSecret(d)
  BY <1>5 DEF DeleteCredentialsSecret, Goto
<1>6. CASE CleanServiceAccount(d)
  BY <1>6 DEF CleanServiceAccount, Goto
<1>7. CASE DeleteJob(d)
  BY <1>7 DEF DeleteJob, Goto
<1>8. CASE FinishCleanUp(d)
  BY <1>8 DEF FinishCleanUp, Goto, SetStatus
<1>9. CASE CleanUpBlocked(d)
  BY <1>9 DEF CleanUpBlocked, CleanUpError, Goto, SetStatus
<1>10. CASE CleanUpFails(d)
  BY <1>10 DEF CleanUpFails, CleanUpError, Goto, SetStatus
<1> QED
  BY <1>1, <1>2, <1>3, <1>4, <1>5, <1>6, <1>7, <1>8, <1>9, <1>10

\* The job removes nothing, and a complete job writes nothing.
LEMMA JobResources ==
  ASSUME TypeOK, BackedInv, ResourceInv, NEW d \in DataExports,
         \/ StartPod(d) \/ CreateVolumeBackup(d) \/ WriteError(d)
         \/ ClearError(d) \/ WriteSnapshotID(d) \/ TransferData(d)
         \/ CompleteJob(d) \/ FailJob(d) \/ ReapPods(d) \/ LoseSource(d)
  PROVE  ResourceInv'
<1> USE DEF ResourceInv, WorkerLife, StagesTaken, HasResources, CleansUp,
          SuccessLeavesNothing, Leftovers, Plain, BackedInv, WorkerStage,
          TypeOK, deVars, workerVars, clusterVars, Starting, Critical,
          Cleaning, Backups
<1>1. CASE StartPod(d)
  BY <1>1 DEF StartPod
<1>2. CASE CreateVolumeBackup(d)
  BY <1>2 DEF CreateVolumeBackup, SetVolumeBackup
<1>3. CASE WriteError(d) \/ ClearError(d)
  BY <1>3 DEF WriteError, ClearError, SetVolumeBackup
<1>4. CASE WriteSnapshotID(d)
  BY <1>4 DEF WriteSnapshotID, SetVolumeBackup
<1>5. CASE TransferData(d)
  BY <1>5 DEF TransferData
<1>6. CASE CompleteJob(d)
  BY <1>6 DEF CompleteJob, SetJob
<1>7. CASE FailJob(d)
  BY <1>7 DEF FailJob, SetJob
<1>8. CASE ReapPods(d)
  BY <1>8 DEF ReapPods, SetJob
<1>9. CASE LoseSource(d)
  BY <1>9 DEF LoseSource
<1> QED
  BY <1>1, <1>2, <1>3, <1>4, <1>5, <1>6, <1>7, <1>8, <1>9

-----------------------------------------------------------------------------
(* The poll of a transfer                                                  *)

\* The answer "ok" is given only for a job that is complete.
LEMMA OkIsComplete ==
  ASSUME TypeOK, NEW d \in DataExports, TransferAnswer(d) = "ok"
  PROVE  job[d] \in {"complete", "reaped"}
<1>1. job[d] \in JobStates
  BY DEF TypeOK
<1>2. CASE d \in Restores
  <2>1. RestoreAnswer(d) = "ok"
    BY <1>2 DEF TransferAnswer
  <2> QED
    BY <1>1, <2>1 DEF RestoreAnswer, JobStates
<1>3. CASE d \notin Restores
  <2>1. BackupAnswer(d) = "ok"
    BY <1>3 DEF TransferAnswer
  <2>2. job[d] \notin {"none", "failed", "pending", "running"}
    BY <2>1 DEF BackupAnswer
  <2> QED
    BY <1>1, <2>2 DEF JobStates
<1> QED
  BY <1>2, <1>3

LEMMA PollResources ==
  ASSUME TypeOK, BackedInv, ResourceInv, NEW d \in DataExports,
         StageTransferInProgress(d)
  PROVE  ResourceInv'
<1>1. At(d, "TransferInProgress")
  BY DEF StageTransferInProgress
<1>2. CASE /\ status[d] \in {"Successful", "Failed"}
           /\ Record(d, "Cleanup", status[d])
  BY <1>1, <1>2 DEF At, Record, SetStatus, ResourceInv, WorkerLife,
     StagesTaken, HasResources, CleansUp, SuccessLeavesNothing, Leftovers,
     Plain, TypeOK, workerVars, clusterVars, Critical, Cleaning, Backups
<1>3. CASE status[d] \in {"Initial", "InProgress"}
  <2>1. PICK s \in {"Successful", "InProgress", "Failed"} :
          /\ status' = [status EXCEPT ![d] = s]
          /\ s = "Successful" => job[d] \in {"complete", "reaped"}
    <3>1. TransferAnswer(d) \in Replies
      BY DEF TransferAnswer, BackupAnswer, RestoreAnswer, Replies
    <3>2. /\ StatusOf[TransferAnswer(d)] \in {"Successful", "InProgress", "Failed"}
          /\ StatusOf[TransferAnswer(d)] = "Successful" => TransferAnswer(d) = "ok"
      BY <3>1 DEF StatusOf, Replies
    <3>3. status' = [status EXCEPT ![d] = StatusOf[TransferAnswer(d)]]
      BY <1>3 DEF StageTransferInProgress
    <3> QED
      BY <3>2, <3>3, OkIsComplete
  <2>2. UNCHANGED <<life, stage, transferID, snapPVCName, workerVars, clusterVars>>
    BY <1>3 DEF StageTransferInProgress
  <2> QED
    BY <1>1, <2>1, <2>2 DEF At, ResourceInv, WorkerLife, StagesTaken,
       HasResources, CleansUp, SuccessLeavesNothing, Leftovers, Plain, TypeOK,
       workerVars, clusterVars, Critical, Cleaning, Backups
<1> QED
  BY <1>2, <1>3 DEF StageTransferInProgress

-----------------------------------------------------------------------------
(* The theorems                                                            *)

LEMMA InitResourceInv == Init => ResourceInv
<1> SUFFICES ASSUME Init PROVE ResourceInv
  OBVIOUS
<1>1. ASSUME NEW d \in DataExports
      PROVE  /\ pc[d] = "idle" /\ job[d] = "none"
             /\ stage[d] \notin {"SnapshotScheduled", "SnapshotInProgress",
                                "SnapshotRestore", "SnapshotRestoreInProgress",
                                "TransferScheduled", "TransferInProgress",
                                "Cleanup", "Final"}
             /\ d \notin snapPVC \cup localCopy
  BY Zenon DEF Init
<1> QED
  BY <1>1 DEF ResourceInv, WorkerLife, StagesTaken, HasResources, CleansUp,
     SuccessLeavesNothing, Plain, Critical, Cleaning

LEMMA NextResourceInv ==
  TypeOK /\ BackedInv /\ ResourceInv /\ [Next]_vars => ResourceInv'
<1> SUFFICES ASSUME TypeOK, BackedInv, ResourceInv, [Next]_vars
             PROVE  ResourceInv'
  OBVIOUS
<1>1. CASE Crash
  BY <1>1 DEF Crash, ResourceInv, WorkerLife, StagesTaken, HasResources,
     CleansUp, SuccessLeavesNothing, Leftovers, Plain, TypeOK, deVars,
     clusterVars, Critical, Cleaning, Backups
<1>2. ASSUME NEW d \in DataExports,
             Delete(d) \/ AcquireLock(d) \/ Continue(d) \/ WorkerFails(d)
      PROVE  ResourceInv'
  BY <1>2, LifeResources, SnapshotResources, StartResources, CleanUpResources
     DEF Continue, WorkerFails, Replies
<1>3. ASSUME NEW d \in DataExports, NEW reply \in Replies, Reconcile(d, reply)
      PROVE  ResourceInv'
  BY <1>3, LifeResources, SnapshotResources, StartResources, PollResources,
     CleanUpResources DEF Reconcile
<1>4. ASSUME NEW d \in DataExports, JobStep(d) \/ JobMishap(d)
      PROVE  ResourceInv'
  BY <1>4, JobResources DEF JobStep, JobMishap
<1>5. CASE UNCHANGED vars
  BY <1>5 DEF ResourceInv, WorkerLife, StagesTaken, HasResources, CleansUp,
     SuccessLeavesNothing, Leftovers, vars, deVars, workerVars, clusterVars
<1> QED
  BY <1>1, <1>2, <1>3, <1>4, <1>5 DEF Next

LEMMA ResourceInvHolds == Spec => []ResourceInv
BY TypeCorrect, BackedInvHolds, InitResourceInv, NextResourceInv, PTL DEF Spec

\* As long as a transfer is polled it has what is its own: its job, credential
\* secret and service account go only with the Cleanup stage or the deletion.
THEOREM TransferIsSupplied == Spec => []TransferHasResources
<1>1. ResourceInv => TransferHasResources
  BY DEF ResourceInv, HasResources, TransferHasResources
<1> QED
  BY ResourceInvHolds, <1>1, PTL

\* A plain backup or restore that ends in success leaves no job, secret, service
\* account or VolumeBackup: a cleanUp that was cut short starts over, and the
\* complete job behind it writes nothing back.
THEOREM SuccessIsTidy == Spec => []SuccessLeavesNothing
<1>1. ResourceInv => SuccessLeavesNothing
  BY DEF ResourceInv
<1> QED
  BY ResourceInvHolds, <1>1, PTL

-----------------------------------------------------------------------------
(* The refinement                                                          *)
(*                                                                         *)
(* A step of one DataExport leaves what Transfer sees of the others alone, *)
(* so each action is only compared at its own DataExport.                  *)

\* What Transfer sees of the job and of the leftovers of d.
Works(d)       == job[d] # "none"
LeavesTrace(d) == d \in Plain /\ Leftovers(d)

\* A step of d: everything Phase, Works and LeavesTrace look at stays for the
\* other DataExports.
OthersStay(d) ==
  /\ \A e \in DataExports \ {d} :
       /\ life'[e] = life[e] /\ stage'[e] = stage[e] /\ status'[e] = status[e]
       /\ job'[e] = job[e] /\ vb'[e] = vb[e]
       /\ (e \in cred') = (e \in cred) /\ (e \in sa') = (e \in sa)
       /\ (e \in snapPVC') = (e \in snapPVC)
       /\ (e \in localCopy') = (e \in localCopy)
  /\ data' \ {d} = data \ {d}

\* The same step compared with the actions of Transfer, in its order; Released
\* is also a step that Transfer does not see.
Same(d) == /\ Works(d)' = Works(d) /\ LeavesTrace(d)' = LeavesTrace(d)
           /\ data' = data

Prepared(d) == /\ Phase(d) = "open" /\ Phase(d)' = "open" /\ data' = data
               /\ Works(d)' = Works(d) /\ LeavesTrace(d)'

Begun(d) == /\ Phase(d) = "open" /\ Phase(d)' = "open" /\ data' = data
            /\ Works(d)' /\ LeavesTrace(d)' = (d \in Plain)
            /\ d \in Backups =>
                 \A e \in Backups \ {d} : PvcOf[e] = PvcOf[d] => job[e] = "none"

MovedData(d) == /\ Phase(d)' = Phase(d) /\ (Phase(d) = "open" \/ Works(d))
                /\ Works(d)' = Works(d) /\ LeavesTrace(d)' = LeavesTrace(d)
                /\ d \in data'

Released(d) == /\ Phase(d)' = Phase(d) /\ data' = data
               /\ Works(d)' => Works(d)
               /\ LeavesTrace(d)' => LeavesTrace(d)

Judged(d) == /\ Same(d)
             /\ \/ Phase(d) = "open" /\ Phase(d)' = "transferred" /\ d \in data
                \/ /\ Phase(d) = "transferred" /\ Phase(d)' = "succeeded"
                   /\ ~LeavesTrace(d)
                \/ Phase(d) \in {"open", "transferred"} /\ Phase(d)' = "failed"
                \/ Phase(d)' = "removed"

Matches(d) ==
  /\ OthersStay(d)
  /\ \/ Prepared(d) \/ Begun(d) \/ MovedData(d) \/ Released(d) \/ Judged(d)

PhaseBar   == [d \in DataExports |-> Phase(d)]
WorkingBar == {d \in DataExports : job[d] # "none"}
TracesBar  == {d \in DataExports \ (Snapshots \cup LocalRestores) : Leftovers(d)}

-----------------------------------------------------------------------------
(* From one DataExport to all                                              *)

LEMMA OthersUnseen ==
  ASSUME NEW d \in DataExports, OthersStay(d), NEW e \in DataExports, e # d
  PROVE  /\ Phase(e)' = Phase(e)
         /\ (e \in WorkingBar') = (e \in WorkingBar)
         /\ (e \in TracesBar') = (e \in TracesBar)
<1>1. /\ life'[e] = life[e] /\ stage'[e] = stage[e] /\ status'[e] = status[e]
      /\ job'[e] = job[e] /\ vb'[e] = vb[e]
      /\ (e \in cred') = (e \in cred) /\ (e \in sa') = (e \in sa)
      /\ (e \in snapPVC') = (e \in snapPVC)
      /\ (e \in localCopy') = (e \in localCopy)
  BY DEF OthersStay
<1>2. Phase(e)' = Phase(e)
  BY <1>1 DEF Phase
<1>3. (e \in WorkingBar') = (e \in WorkingBar)
  BY <1>1 DEF WorkingBar
<1>4. (e \in TracesBar') = (e \in TracesBar)
  BY <1>1 DEF TracesBar, Leftovers
<1> QED
  BY <1>2, <1>3, <1>4

LEMMA BarsAt ==
  ASSUME NEW d \in DataExports
  PROVE  /\ PhaseBar[d] = Phase(d)
         /\ d \in WorkingBar <=> Works(d)
         /\ d \in TracesBar <=> LeavesTrace(d)
BY DEF PhaseBar, WorkingBar, TracesBar, Works, LeavesTrace, Plain

LEMMA MatchIsStep ==
  ASSUME NEW d \in DataExports, Matches(d)
  PROVE  [Promise!Next]_(Promise!vars)
<1>1. PhaseBar' = [PhaseBar EXCEPT ![d] = Phase(d)']
  BY OthersUnseen DEF PhaseBar, Matches
<1>2. /\ Works(d)' => WorkingBar' = WorkingBar \cup {d}
      /\ ~Works(d)' => WorkingBar' = WorkingBar \ {d}
      /\ Works(d)' = Works(d) => WorkingBar' = WorkingBar
  BY OthersUnseen DEF WorkingBar, Works, Matches
<1>3. /\ LeavesTrace(d)' => TracesBar' = TracesBar \cup {d}
      /\ ~LeavesTrace(d)' => TracesBar' = TracesBar \ {d}
      /\ LeavesTrace(d)' = LeavesTrace(d) => TracesBar' = TracesBar
  BY OthersUnseen DEF TracesBar, LeavesTrace, Plain, Matches
<1>4. Phase(d)' = Phase(d) => PhaseBar' = PhaseBar
  BY <1>1, BarsAt DEF PhaseBar
<1>5. Promise!Next \/ UNCHANGED Promise!vars
  <2>1. CASE Prepared(d)
    <3>1. Promise!Prepare(d)
      BY <1>2, <1>3, <1>4, <2>1, BarsAt DEF Prepared, Promise!Prepare,
         PhaseBar, WorkingBar, TracesBar, LeavesTrace, Plain
    <3> QED
      BY <3>1 DEF Promise!Next
  <2>2. CASE Begun(d)
    <3>1. Promise!Begin(d)
      BY <1>2, <1>3, <1>4, <2>2, BarsAt DEF Begun, Promise!Begin, PhaseBar,
         WorkingBar, TracesBar, LeavesTrace, Plain
    <3> QED
      BY <3>1 DEF Promise!Next
  <2>3. CASE MovedData(d)
    <3>1. data' = data \cup {d}
      BY <2>3 DEF MovedData, Matches, OthersStay
    <3>2. Promise!Move(d)
      BY <1>2, <1>3, <1>4, <2>3, <3>1, BarsAt
         DEF MovedData, Promise!Move, PhaseBar, WorkingBar, TracesBar
    <3> QED
      BY <3>2 DEF Promise!Next
  <2>4. CASE Released(d)
    <3>1. Promise!Release(d)
      BY <1>2, <1>3, <1>4, <2>4, BarsAt
         DEF Released, Promise!Release, PhaseBar, WorkingBar, TracesBar
    <3> QED
      BY <3>1 DEF Promise!Next
  <2>5. CASE Judged(d)
    <3>1. \/ Promise!Transferred(d) \/ Promise!Succeed(d) \/ Promise!Fail(d)
          \/ Promise!Remove(d)
      BY <1>1, <1>2, <1>3, <2>5, BarsAt
         DEF Judged, Same, Promise!Transferred, Promise!Succeed, Promise!Fail,
             Promise!Remove, Promise!To, PhaseBar, WorkingBar, TracesBar
    <3> QED
      BY <3>1 DEF Promise!Next
  <2> QED
    BY <2>1, <2>2, <2>3, <2>4, <2>5 DEF Matches
<1> QED
  BY <1>5

-----------------------------------------------------------------------------
(* Each action at its own DataExport                                       *)

\* The user, the finalizer and the first stages.
LEMMA LifeMatches ==
  ASSUME TypeOK, BackedInv, ResourceInv, NEW d \in DataExports,
         NEW reply \in Replies,
         \/ Delete(d) \/ SetFinalizer(d) \/ EnterInitial(d)
         \/ DeleteInitial(d) \/ StageInitial(d, reply)
  PROVE  Matches(d)
<1> USE DEF Matches, OthersStay, Phase, Reporting, Works, LeavesTrace,
          Leftovers, Plain, BackedInv, WorkerStage, LocalStage, ResourceInv,
          WorkerLife, StagesTaken, TypeOK, deVars, workerVars, clusterVars,
          Starting, Critical, Cleaning, Backups
<1>1. CASE Delete(d)
  BY <1>1 DEF Delete, Released, Judged, Same
<1>2. CASE SetFinalizer(d)
  BY <1>2 DEF SetFinalizer, Released
<1>3. CASE EnterInitial(d)
  BY <1>3 DEF EnterInitial, Record, SetStatus, Released
<1>4. CASE DeleteInitial(d)
  BY <1>4 DEF DeleteInitial, Judged, Same
<1>5. CASE StageInitial(d, reply)
  BY <1>5, KindsAssumption DEF StageInitial, At, Advance, Ask, Record,
     SetStatus, StatusOf, Replies, Released
<1> QED
  BY <1>1, <1>2, <1>3, <1>4, <1>5

\* The stages of a volume snapshot are not seen, but for the data of a local
\* restore and its verdict.
LEMMA SnapshotMatches ==
  ASSUME TypeOK, BackedInv, ResourceInv, NEW d \in DataExports,
         NEW reply \in Replies,
         \/ StageSnapshotScheduled(d, reply)
         \/ StageSnapshotInProgress(d, reply)
         \/ StageSnapshotRestore(d, reply) \/ RecordSnapshotPVC(d)
         \/ StageSnapshotRestoreInProgress(d, reply)
         \/ StageLocalSnapshotRestore(d, reply)
         \/ StageLocalSnapshotRestoreInProgress(d, reply)
  PROVE  Matches(d)
<1> USE DEF Matches, OthersStay, Phase, Reporting, Works, LeavesTrace,
          Leftovers, Plain, BackedInv, WorkerStage, LocalStage, ResourceInv,
          WorkerLife, StagesTaken, TypeOK, deVars, workerVars, clusterVars,
          Starting, Critical, Cleaning, Backups
<1>1. CASE StageSnapshotScheduled(d, reply)
  BY <1>1 DEF StageSnapshotScheduled, At, Advance, Ask, Record, SetStatus,
     StatusOf, Replies, Released
<1>2. CASE StageSnapshotInProgress(d, reply)
  BY <1>2 DEF StageSnapshotInProgress, At, Advance, Ask, Record, SetStatus,
     StatusOf, Replies, Released
<1>3. CASE StageSnapshotRestore(d, reply)
  BY <1>3 DEF StageSnapshotRestore, Goto, At, Advance, Ask, Record, SetStatus,
     StatusOf, Replies, Released
<1>4. CASE RecordSnapshotPVC(d)
  BY <1>4 DEF RecordSnapshotPVC, Goto, Released
<1>5. CASE StageSnapshotRestoreInProgress(d, reply)
  BY <1>5 DEF StageSnapshotRestoreInProgress, At, Advance, Ask, Record,
     SetStatus, StatusOf, Replies, Released
<1>6. CASE StageLocalSnapshotRestore(d, reply)
  BY <1>6 DEF StageLocalSnapshotRestore, FallBack, At, Advance, Ask, Record,
     SetStatus, StatusOf, Replies, Released
<1>7. CASE StageLocalSnapshotRestoreInProgress(d, reply)
  BY <1>7 DEF StageLocalSnapshotRestoreInProgress, FallBack, At, Advance, Ask,
     Record, SetStatus, StatusOf, Replies, Released, MovedData, Judged, Same
<1> QED
  BY <1>1, <1>2, <1>3, <1>4, <1>5, <1>6, <1>7

\* The start of a transfer: Prepared until its job exists, Begun with it.
LEMMA StartMatches ==
  ASSUME TypeOK, BackedInv, ResourceInv, ClaimInv, NEW d \in DataExports,
         \/ LeaveTransferScheduled(d) \/ CreateCertificateSecret(d)
         \/ CreateCredentialsSecret(d) \/ AcquireLock(d) \/ CheckJob(d)
         \/ SetupServiceAccount(d) \/ CreateJob(d) \/ StartFails(d)
         \/ RecordTransfer(d) \/ RecordFailure(d) \/ PollFails(d)
         \/ LoseUpdate(d)
  PROVE  Matches(d)
<1> USE DEF Matches, OthersStay, Phase, Reporting, Works, LeavesTrace,
          Leftovers, Plain, BackedInv, WorkerStage, LocalStage, ResourceInv,
          WorkerLife, StagesTaken, TypeOK, deVars, workerVars, clusterVars,
          Starting, Critical, Cleaning, Backups
<1>1. CASE LeaveTransferScheduled(d)
  BY <1>1 DEF LeaveTransferScheduled, At, Advance, Record, SetStatus, Released
<1>2. CASE CreateCertificateSecret(d)
  BY <1>2 DEF CreateCertificateSecret, At, Goto, Released
<1>3. CASE CreateCredentialsSecret(d)
  BY <1>3 DEF CreateCredentialsSecret, Goto, Released, Prepared
<1>4. CASE AcquireLock(d)
  BY <1>4 DEF AcquireLock, Goto, Released
<1>5. CASE CheckJob(d)
  BY <1>5 DEF CheckJob, Goto, Released
<1>6. CASE SetupServiceAccount(d)
  BY <1>6 DEF SetupServiceAccount, Goto, Released, Prepared
<1>7. CASE CreateJob(d)
  BY <1>7 DEF CreateJob, Goto, JobStates, ClaimInv, StartSeesNoJob, Released,
     Begun
<1>8. CASE StartFails(d)
  BY <1>8 DEF StartFails, Goto, Fault, JobStates, ClaimInv, StartSeesNoJob,
     Released, Prepared, Begun
<1>9. CASE RecordTransfer(d)
  BY <1>9 DEF RecordTransfer, Goto, Released
<1>10. CASE RecordFailure(d)
  BY <1>10 DEF RecordFailure, Goto, SetStatus, Released, Judged, Same
<1>11. CASE PollFails(d)
  BY <1>11 DEF PollFails, At, SetStatus, Judged, Same
<1>12. CASE LoseUpdate(d)
  BY <1>12 DEF LoseUpdate, Goto, Recording, Released
<1> QED
  BY <1>1, <1>2, <1>3, <1>4, <1>5, <1>6, <1>7, <1>8, <1>9, <1>10, <1>11, <1>12

\* A cleanUp releases one thing after the other, then the verdict stands.
LEMMA CleanUpMatches ==
  ASSUME TypeOK, BackedInv, ResourceInv, NEW d \in DataExports,
         \/ BeginCleanUp(d) \/ CleanUpSnapshot(d)
         \/ DeleteCertificateSecret(d) \/ DeleteVolumeBackup(d)
         \/ DeleteCredentialsSecret(d) \/ CleanServiceAccount(d)
         \/ DeleteJob(d) \/ FinishCleanUp(d) \/ CleanUpBlocked(d)
         \/ CleanUpFails(d)
  PROVE  Matches(d)
<1> USE DEF Matches, OthersStay, Phase, Reporting, Works, LeavesTrace,
          Leftovers, Plain, BackedInv, WorkerStage, LocalStage, ResourceInv,
          WorkerLife, StagesTaken, TypeOK, deVars, workerVars, clusterVars,
          Starting, Critical, Cleaning, Backups
<1>1. CASE BeginCleanUp(d)
  BY <1>1 DEF BeginCleanUp, Released
<1>2. CASE CleanUpSnapshot(d)
  BY <1>2 DEF CleanUpSnapshot, Goto, Released
<1>3. CASE DeleteCertificateSecret(d)
  BY <1>3 DEF DeleteCertificateSecret, Goto, Released
<1>4. CASE DeleteVolumeBackup(d)
  BY <1>4 DEF DeleteVolumeBackup, Goto, Released
<1>5. CASE DeleteCredentialsSecret(d)
  BY <1>5 DEF DeleteCredentialsSecret, Goto, Released
<1>6. CASE CleanServiceAccount(d)
  BY <1>6 DEF CleanServiceAccount, Goto, Released
<1>7. CASE DeleteJob(d)
  BY <1>7 DEF DeleteJob, Goto, Released
<1>8. CASE FinishCleanUp(d)
  BY <1>8 DEF FinishCleanUp, CleansUp, Goto, SetStatus, Released, Judged, Same
<1>9. CASE CleanUpBlocked(d)
  BY <1>9 DEF CleanUpBlocked, CleanUpError, Goto, SetStatus, Released, Judged,
     Same
<1>10. CASE CleanUpFails(d)
  BY <1>10 DEF CleanUpFails, CleanUpError, Goto, SetStatus, Released, Judged,
     Same
<1> QED
  BY <1>1, <1>2, <1>3, <1>4, <1>5, <1>6, <1>7, <1>8, <1>9, <1>10

\* The job moves the data; what else it does is not seen.
LEMMA JobMatches ==
  ASSUME TypeOK, BackedInv, ResourceInv, NEW d \in DataExports,
         \/ StartPod(d) \/ CreateVolumeBackup(d) \/ WriteError(d)
         \/ ClearError(d) \/ WriteSnapshotID(d) \/ TransferData(d)
         \/ CompleteJob(d) \/ FailJob(d) \/ ReapPods(d) \/ LoseSource(d)
  PROVE  Matches(d)
<1> USE DEF Matches, OthersStay, Phase, Reporting, Works, LeavesTrace,
          Leftovers, Plain, BackedInv, WorkerStage, LocalStage, ResourceInv,
          WorkerLife, StagesTaken, TypeOK, deVars, workerVars, clusterVars,
          Starting, Critical, Cleaning, Backups
<1>1. CASE StartPod(d)
  BY <1>1 DEF StartPod, Released
<1>2. CASE CreateVolumeBackup(d)
  BY <1>2 DEF CreateVolumeBackup, SetVolumeBackup, Released
<1>3. CASE WriteError(d) \/ ClearError(d)
  BY <1>3 DEF WriteError, ClearError, SetVolumeBackup, Released
<1>4. CASE WriteSnapshotID(d)
  BY <1>4 DEF WriteSnapshotID, SetVolumeBackup, Released
<1>5. CASE TransferData(d)
  BY <1>5 DEF TransferData, MovedData
<1>6. CASE CompleteJob(d)
  BY <1>6 DEF CompleteJob, SetJob, Released
<1>7. CASE FailJob(d)
  BY <1>7 DEF FailJob, SetJob, Released
<1>8. CASE ReapPods(d)
  BY <1>8 DEF ReapPods, SetJob, Released
<1>9. CASE LoseSource(d)
  BY <1>9 DEF LoseSource, Released
<1> QED
  BY <1>1, <1>2, <1>3, <1>4, <1>5, <1>6, <1>7, <1>8, <1>9

\* The poll of a transfer: a success is a verdict on data that has arrived.
LEMMA PollMatches ==
  ASSUME TypeOK, BackedInv, NEW d \in DataExports, StageTransferInProgress(d)
  PROVE  Matches(d)
<1> USE DEF Matches, OthersStay, Phase, Reporting, Works, LeavesTrace,
          Leftovers, Plain, At, TypeOK, workerVars, clusterVars
<1>1. At(d, "TransferInProgress")
  BY DEF StageTransferInProgress
<1>2. CASE /\ status[d] \in {"Successful", "Failed"}
           /\ Record(d, "Cleanup", status[d])
  BY <1>1, <1>2 DEF Record, SetStatus, Released
<1>3. CASE status[d] \in {"Initial", "InProgress"}
  <2>1. PICK s \in {"Successful", "InProgress", "Failed"} :
          /\ status' = [status EXCEPT ![d] = s]
          /\ s = "Successful" => d \in data
    <3>1. TransferAnswer(d) \in Replies
      BY DEF TransferAnswer, BackupAnswer, RestoreAnswer, Replies
    <3>2. /\ StatusOf[TransferAnswer(d)] \in {"Successful", "InProgress", "Failed"}
          /\ StatusOf[TransferAnswer(d)] = "Successful" => TransferAnswer(d) = "ok"
      BY <3>1 DEF StatusOf, Replies
    <3>3. status' = [status EXCEPT ![d] = StatusOf[TransferAnswer(d)]]
      BY <1>3 DEF StageTransferInProgress
    <3> QED
      BY <3>2, <3>3, OkIsBacked
  <2>2. UNCHANGED <<life, stage, transferID, snapPVCName, workerVars, clusterVars>>
    BY <1>3 DEF StageTransferInProgress
  <2> QED
    BY <1>1, <1>3, <2>1, <2>2 DEF Released, Judged, Same
<1> QED
  BY <1>2, <1>3 DEF StageTransferInProgress

-----------------------------------------------------------------------------
(* The refinement                                                          *)

LEMMA InitRefines == Init => Promise!Init
<1> SUFFICES ASSUME Init PROVE Promise!Init
  OBVIOUS
<1>1. ASSUME NEW d \in DataExports
      PROVE  Phase(d) = "open" /\ ~Works(d) /\ ~LeavesTrace(d)
  <2>1. life[d] # "gone" /\ stage[d] \notin Reporting
        /\ stage[d] \notin {"Final", "TransferInProgress", "Cleanup"}
    BY Zenon DEF Init, Reporting
  <2>2. Phase(d) = "open"
    BY <2>1 DEF Phase
  <2>3. ~Works(d) /\ ~LeavesTrace(d)
    BY DEF Init, Works, LeavesTrace, Leftovers, Backups
  <2> QED
    BY <2>2, <2>3
<1>2. data = {}
  BY DEF Init
<1> QED
  BY <1>1, <1>2 DEF Promise!Init, Works, LeavesTrace, Plain

LEMMA StutterRefines ==
  ASSUME UNCHANGED <<deVars, clusterVars>>
  PROVE  UNCHANGED Promise!vars
BY DEF Promise!vars, Phase, Leftovers, deVars, clusterVars

LEMMA NextRefines ==
  TypeOK /\ BackedInv /\ ResourceInv /\ ClaimInv /\ [Next]_vars
  => [Promise!Next]_(Promise!vars)
<1> SUFFICES ASSUME TypeOK, BackedInv, ResourceInv, ClaimInv, [Next]_vars
             PROVE  [Promise!Next]_(Promise!vars)
  OBVIOUS
<1>1. CASE Crash \/ UNCHANGED vars
  <2>1. UNCHANGED <<deVars, clusterVars>>
    BY <1>1 DEF Crash, vars
  <2> QED
    BY <2>1, StutterRefines
<1>2. ASSUME NEW d \in DataExports,
             Delete(d) \/ AcquireLock(d) \/ Continue(d) \/ WorkerFails(d)
      PROVE  Matches(d)
  BY <1>2, LifeMatches, SnapshotMatches, StartMatches, CleanUpMatches
     DEF Continue, WorkerFails, Replies
<1>3. ASSUME NEW d \in DataExports, NEW reply \in Replies, Reconcile(d, reply)
      PROVE  Matches(d)
  BY <1>3, LifeMatches, SnapshotMatches, StartMatches, PollMatches,
     CleanUpMatches DEF Reconcile
<1>4. ASSUME NEW d \in DataExports, JobStep(d) \/ JobMishap(d) PROVE Matches(d)
  BY <1>4, JobMatches DEF JobStep, JobMishap
<1> QED
  BY <1>1, <1>2, <1>3, <1>4, MatchIsStep DEF Next

\* The controller, its drivers and their jobs implement Transfer: a verdict is
\* given once and not taken back, a success has its data and leaves nothing,
\* backups of one claim exclude each other, and nothing is begun after the
\* verdict; for any number of DataExports, claims, restarts and failures.
THEOREM PromiseIsKept == Spec => KeepsPromise
<1>1. Spec => [](TypeOK /\ BackedInv /\ ResourceInv /\ ClaimInv)
  BY TypeCorrect, BackedInvHolds, ResourceInvHolds, ClaimInvHolds, PTL
<1>2. Spec => Promise!Init /\ [][Promise!Next]_(Promise!vars)
  BY <1>1, InitRefines, NextRefines, PTL DEF Spec
<1> QED
  BY <1>2 DEF KeepsPromise, Promise!Spec

=============================================================================
