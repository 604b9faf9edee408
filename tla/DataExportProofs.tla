-------------------------- MODULE DataExportProofs --------------------------
(***************************************************************************)
(* Proofs about DataExport, for any number of DataExports, any claims, any *)
(* limit and any number of faults: types, and the verdict.  A success is   *)
(* backed by data, a failure is final.  Every part of the invariant speaks *)
(* of one DataExport, and every action but a crash touches one; so each    *)
(* action is looked at by itself.                                          *)
(***************************************************************************)
EXTENDS DataExport, TLAPS

-----------------------------------------------------------------------------
(* Types                                                                   *)

LEMMA InitTypeOK == Init => TypeOK
<1> SUFFICES ASSUME Init PROVE TypeOK
  OBVIOUS
<1>1. faults = MaxFaults
  BY DEF Init
<1>2. faults \in 0..MaxFaults
  BY <1>1, BoundAssumption
<1> QED
  BY <1>2 DEF Init, TypeOK, Stages, Statuses, Labels, JobStates, VBStates

\* updateStatus, alone or with other effects, keeps the types of the object.
LEMMA SetStatusTypes ==
  ASSUME TypeOK, NEW d \in DataExports, NEW st \in Stages, NEW s \in Statuses,
         SetStatus(d, st, s)
  PROVE  /\ stage' \in [DataExports -> Stages]
         /\ status' \in [DataExports -> Statuses]
         /\ UNCHANGED <<life, transferID, snapPVCName, snapshotID>>
BY DEF TypeOK, SetStatus

LEMMA RecordTypes ==
  ASSUME TypeOK, NEW d \in DataExports, NEW st \in Stages, NEW s \in Statuses,
         Record(d, st, s)
  PROVE  TypeOK'
BY SetStatusTypes DEF TypeOK, Record, workerVars, clusterVars

LEMMA AdvanceTypes ==
  ASSUME TypeOK, NEW d \in DataExports, NEW st \in Stages, Advance(d, st)
  PROVE  TypeOK'
BY RecordTypes DEF Advance, Statuses

LEMMA AskTypes ==
  ASSUME TypeOK, NEW d \in DataExports, NEW reply \in Replies, Ask(d, reply)
  PROVE  TypeOK'
<1>1. StatusOf[reply] \in Statuses /\ stage[d] \in Stages
  BY DEF StatusOf, Statuses, TypeOK
<1> QED
  BY <1>1, RecordTypes DEF Ask

LEMMA FallBackTypes ==
  ASSUME TypeOK, NEW d \in DataExports, FallBack(d)
  PROVE  TypeOK'
<1>1. /\ stage' \in [DataExports -> Stages] /\ status' \in [DataExports -> Statuses]
      /\ UNCHANGED <<life, transferID, snapPVCName, snapshotID>>
  BY SetStatusTypes DEF FallBack, Stages, Statuses
<1>2. faults' \in 0..MaxFaults
  BY BoundAssumption DEF FallBack, Fault, TypeOK
<1> QED
  BY <1>1, <1>2 DEF FallBack, TypeOK, workerVars

LEMMA CleanUpErrorTypes ==
  ASSUME TypeOK, NEW d \in DataExports, CleanUpError(d), faults' \in 0..MaxFaults
  PROVE  TypeOK'
<1>1. CASE SetStatus(d, "Final", "Failed") /\ Goto(d, "idle")
  <2>1. /\ stage' \in [DataExports -> Stages] /\ status' \in [DataExports -> Statuses]
        /\ UNCHANGED <<life, transferID, snapPVCName, snapshotID>>
    BY <1>1, SetStatusTypes DEF Stages, Statuses
  <2> QED
    BY <1>1, <2>1 DEF CleanUpError, Goto, Labels, TypeOK, clusterVars
<1>2. CASE UNCHANGED deVars /\ (Goto(d, "idle") \/ Goto(d, "snap"))
  BY <1>2 DEF CleanUpError, Goto, Labels, Cleaning, TypeOK, deVars, clusterVars
<1> QED
  BY <1>1, <1>2 DEF CleanUpError

\* The user, the finalizer, the first stage.
LEMMA LifeTypes ==
  ASSUME TypeOK, NEW d \in DataExports,
         \/ Delete(d) \/ SetFinalizer(d) \/ EnterInitial(d)
         \/ DeleteInitial(d)
  PROVE  TypeOK'
<1>1. CASE Delete(d)
  BY <1>1 DEF Delete, TypeOK, deVars, workerVars, clusterVars
<1>2. CASE SetFinalizer(d)
  BY <1>2 DEF SetFinalizer, TypeOK, deVars, workerVars, clusterVars
<1>3. CASE EnterInitial(d)
  BY <1>3 DEF EnterInitial, Record, SetStatus, Stages, Statuses, TypeOK,
     deVars, workerVars, clusterVars
<1>4. CASE DeleteInitial(d)
  BY <1>4 DEF DeleteInitial, TypeOK, deVars, workerVars, clusterVars
<1> QED
  BY <1>1, <1>2, <1>3, <1>4

\* The stages whose outcome is an answer of the cluster.
LEMMA StageTypes ==
  ASSUME TypeOK, NEW d \in DataExports, NEW reply \in Replies,
         \/ StageInitial(d, reply) \/ StageSnapshotScheduled(d, reply)
         \/ StageSnapshotInProgress(d, reply) \/ StageSnapshotRestore(d, reply)
         \/ StageSnapshotRestoreInProgress(d, reply)
         \/ StageLocalSnapshotRestore(d, reply)
         \/ StageLocalSnapshotRestoreInProgress(d, reply)
         \/ StageTransferInProgress(d)
  PROVE  TypeOK'
<1>1. CASE StageInitial(d, reply)
  BY <1>1, AdvanceTypes, AskTypes DEF StageInitial, Stages
<1>2. CASE StageSnapshotScheduled(d, reply)
  <2>1. CASE Advance(d, "SnapshotInProgress") \/ Ask(d, reply)
    BY <2>1, AdvanceTypes, AskTypes DEF Stages
  <2>2. CASE ~(Advance(d, "SnapshotInProgress") \/ Ask(d, reply))
    BY <1>2, <2>2 DEF StageSnapshotScheduled, TypeOK, Statuses, workerVars,
       clusterVars
  <2> QED
    BY <2>1, <2>2
<1>3. CASE StageSnapshotInProgress(d, reply) \/ StageSnapshotRestoreInProgress(d, reply)
  BY <1>3, AdvanceTypes, AskTypes
     DEF StageSnapshotInProgress, StageSnapshotRestoreInProgress, Stages
<1>4. CASE StageSnapshotRestore(d, reply)
  <2>1. CASE Advance(d, "SnapshotRestoreInProgress") \/ Ask(d, reply)
    BY <2>1, AdvanceTypes, AskTypes DEF Stages
  <2>2. CASE ~(Advance(d, "SnapshotRestoreInProgress") \/ Ask(d, reply))
    BY <1>4, <2>2 DEF StageSnapshotRestore, Goto, Labels, Recording, TypeOK,
       deVars
  <2> QED
    BY <2>1, <2>2
<1>5. CASE StageLocalSnapshotRestore(d, reply)
  <2>1. CASE Advance(d, "LocalSnapshotRestoreInProgress") \/ FallBack(d)
    BY <2>1, AdvanceTypes, FallBackTypes DEF Stages
  <2>2. CASE ~(Advance(d, "LocalSnapshotRestoreInProgress") \/ FallBack(d))
    <3> DEFINE answer == IF vb[d] = "none" THEN "fail" ELSE reply
    <3>1. StatusOf[answer] \in Statuses /\ stage[d] \in Stages
      BY DEF StatusOf, Statuses, Replies, TypeOK
    <3>2. SetStatus(d, stage[d], StatusOf[answer])
      BY <1>5, <2>2 DEF StageLocalSnapshotRestore
    <3>3. /\ stage' \in [DataExports -> Stages] /\ status' \in [DataExports -> Statuses]
          /\ UNCHANGED <<life, transferID, snapPVCName, snapshotID>>
      BY <3>1, <3>2, SetStatusTypes
    <3>4. /\ localCopy' \in SUBSET DataExports
          /\ UNCHANGED <<workerVars, job, vb, cred, sa, cert, snapPVC, data, faults>>
      BY <1>5, <2>2 DEF StageLocalSnapshotRestore, TypeOK
    <3> QED
      BY <3>3, <3>4 DEF TypeOK, workerVars
  <2> QED
    BY <2>1, <2>2
<1>6. CASE StageLocalSnapshotRestoreInProgress(d, reply)
  <2>1. CASE Record(d, "Cleanup", "Successful") \/ FallBack(d)
    BY <2>1, RecordTypes, FallBackTypes DEF Stages, Statuses
  <2>2. CASE ~(Record(d, "Cleanup", "Successful") \/ FallBack(d))
    <3>1. StatusOf[reply] \in Statuses /\ stage[d] \in Stages
      BY DEF StatusOf, Statuses, TypeOK
    <3>2. SetStatus(d, stage[d], StatusOf[reply])
      BY <1>6, <2>2 DEF StageLocalSnapshotRestoreInProgress
    <3>3. /\ stage' \in [DataExports -> Stages] /\ status' \in [DataExports -> Statuses]
          /\ UNCHANGED <<life, transferID, snapPVCName, snapshotID>>
      BY <3>1, <3>2, SetStatusTypes
    <3>4. /\ data' \in SUBSET DataExports
          /\ UNCHANGED <<workerVars, job, vb, cred, sa, cert, snapPVC, localCopy, faults>>
      BY <1>6, <2>2 DEF StageLocalSnapshotRestoreInProgress, TypeOK
    <3> QED
      BY <3>3, <3>4 DEF TypeOK, workerVars
  <2> QED
    BY <2>1, <2>2
<1>7. CASE StageTransferInProgress(d)
  <2>1. CASE Record(d, "Cleanup", status[d])
    BY <2>1, RecordTypes DEF TypeOK, Stages
  <2>2. CASE ~Record(d, "Cleanup", status[d])
    <3>1. StatusOf[TransferAnswer(d)] \in Statuses
      BY DEF StatusOf, Replies, TransferAnswer, BackupAnswer, RestoreAnswer,
         Statuses
    <3> QED
      BY <1>7, <2>2, <3>1 DEF StageTransferInProgress, TypeOK, workerVars,
         clusterVars
  <2> QED
    BY <2>1, <2>2
<1> QED
  BY <1>1, <1>2, <1>3, <1>4, <1>5, <1>6, <1>7

\* The start of a transfer.
LEMMA StartTypes ==
  ASSUME TypeOK, NEW d \in DataExports,
         \/ RecordSnapshotPVC(d) \/ LeaveTransferScheduled(d)
         \/ CreateCertificateSecret(d) \/ CreateCredentialsSecret(d)
         \/ AcquireLock(d) \/ CheckJob(d) \/ SetupServiceAccount(d)
         \/ CreateJob(d) \/ StartFails(d) \/ RecordTransfer(d)
         \/ RecordFailure(d)
  PROVE  TypeOK'
<1>1. CASE RecordSnapshotPVC(d)
  BY <1>1 DEF RecordSnapshotPVC, Goto, Statuses, Labels, Starting, Critical,
     Cleaning, Recording, TypeOK, deVars, workerVars, clusterVars
<1>2. CASE LeaveTransferScheduled(d)
  BY <1>2 DEF LeaveTransferScheduled, Advance, Record, SetStatus, Stages,
     Statuses, TypeOK, deVars, workerVars, clusterVars
<1>3. CASE CreateCertificateSecret(d)
  BY <1>3, SSLAssumption DEF CreateCertificateSecret, Goto, Labels, Starting,
     Critical, Cleaning, Recording, TypeOK, deVars, workerVars, clusterVars
<1>4. CASE CreateCredentialsSecret(d)
  BY <1>4 DEF CreateCredentialsSecret, Goto, Labels, Starting, Critical,
     Cleaning, Recording, TypeOK, deVars, workerVars, clusterVars
<1>5. CASE AcquireLock(d)
  BY <1>5 DEF AcquireLock, Goto, Labels, Starting, Critical, Cleaning,
     Recording, TypeOK, deVars, workerVars, clusterVars
<1>6. CASE CheckJob(d)
  BY <1>6 DEF CheckJob, Goto, Labels, Starting, Critical, Cleaning, Recording,
     TypeOK, deVars, workerVars, clusterVars
<1>7. CASE SetupServiceAccount(d)
  BY <1>7 DEF SetupServiceAccount, Goto, Labels, Starting, Critical, Cleaning,
     Recording, TypeOK, deVars, workerVars, clusterVars
<1>8. CASE CreateJob(d)
  BY <1>8 DEF CreateJob, Goto, Labels, Starting, Critical, Cleaning,
     Recording, JobStates, TypeOK, deVars, workerVars, clusterVars
<1>9. CASE StartFails(d)
  BY <1>9, BoundAssumption DEF StartFails, Goto, Fault, Labels, Starting,
     Critical, Cleaning, Recording, JobStates, TypeOK, deVars, workerVars,
     clusterVars
<1>10. CASE RecordTransfer(d)
  BY <1>10 DEF RecordTransfer, Goto, Labels, Starting, Critical, Cleaning,
     Recording, Statuses, TypeOK, deVars, workerVars, clusterVars
<1>11. CASE RecordFailure(d)
  BY <1>11 DEF RecordFailure, SetStatus, Goto, Labels, Starting, Critical,
     Cleaning, Recording, Statuses, TypeOK, deVars, workerVars, clusterVars
<1> QED
  BY <1>1, <1>2, <1>3, <1>4, <1>5, <1>6, <1>7, <1>8, <1>9, <1>10, <1>11

\* cleanUp, and the failures of a worker.
LEMMA CleanUpTypes ==
  ASSUME TypeOK, NEW d \in DataExports,
         \/ BeginCleanUp(d) \/ CleanUpSnapshot(d)
         \/ DeleteCertificateSecret(d) \/ DeleteVolumeBackup(d)
         \/ DeleteCredentialsSecret(d) \/ CleanServiceAccount(d)
         \/ DeleteJob(d) \/ FinishCleanUp(d) \/ CleanUpBlocked(d)
         \/ CleanUpFails(d) \/ LoseUpdate(d) \/ PollFails(d)
  PROVE  TypeOK'
<1>1. CASE BeginCleanUp(d)
  BY <1>1 DEF BeginCleanUp, Labels, Starting, Critical, Cleaning, Recording,
     TypeOK, deVars, workerVars, clusterVars
<1>2. CASE CleanUpSnapshot(d)
  BY <1>2, BoundAssumption DEF CleanUpSnapshot, Goto, Fault, Labels, Starting,
     Critical, Cleaning, Recording, TypeOK, deVars, workerVars, clusterVars
<1>3. CASE DeleteCertificateSecret(d)
  BY <1>3 DEF DeleteCertificateSecret, Goto, Labels, Starting, Critical,
     Cleaning, Recording, TypeOK, deVars, workerVars, clusterVars
<1>4. CASE DeleteVolumeBackup(d)
  BY <1>4 DEF DeleteVolumeBackup, Goto, Labels, Starting, Critical, Cleaning,
     Recording, VBStates, TypeOK, deVars, workerVars, clusterVars
<1>5. CASE DeleteCredentialsSecret(d)
  BY <1>5 DEF DeleteCredentialsSecret, Goto, Labels, Starting, Critical,
     Cleaning, Recording, TypeOK, deVars, workerVars, clusterVars
<1>6. CASE CleanServiceAccount(d)
  BY <1>6 DEF CleanServiceAccount, Goto, Labels, Starting, Critical, Cleaning,
     Recording, TypeOK, deVars, workerVars, clusterVars
<1>7. CASE DeleteJob(d)
  BY <1>7 DEF DeleteJob, Goto, Labels, Starting, Critical, Cleaning,
     Recording, JobStates, TypeOK, deVars, workerVars, clusterVars
<1>8. CASE FinishCleanUp(d)
  <2>1. SetStatus(d, "Final", status[d]) => /\ stage' \in [DataExports -> Stages]
                                            /\ status' \in [DataExports -> Statuses]
    BY SetStatusTypes DEF TypeOK, Stages
  <2>2. /\ pc' \in [DataExports -> Labels] /\ UNCHANGED goal
        /\ life' \in [DataExports -> {"new", "live", "deleting", "gone"}]
        /\ UNCHANGED <<transferID, snapPVCName, snapshotID, clusterVars, faults>>
    BY <1>8 DEF FinishCleanUp, SetStatus, Goto, Labels, TypeOK
  <2> QED
    BY <1>8, <2>1, <2>2 DEF FinishCleanUp, TypeOK, clusterVars
<1>9. CASE CleanUpBlocked(d)
  BY <1>9, CleanUpErrorTypes DEF CleanUpBlocked, TypeOK
<1>10. CASE CleanUpFails(d)
  <2>1. CleanUpError(d) /\ faults' \in 0..MaxFaults
    BY <1>10, BoundAssumption DEF CleanUpFails, Fault, TypeOK
  <2> QED
    BY <2>1, CleanUpErrorTypes
<1>11. CASE LoseUpdate(d)
  BY <1>11, BoundAssumption DEF LoseUpdate, Goto, Fault, Labels, Starting,
     Critical, Cleaning, Recording, TypeOK, deVars, workerVars, clusterVars
<1>12. CASE PollFails(d)
  <2>1. /\ stage' \in [DataExports -> Stages] /\ status' \in [DataExports -> Statuses]
        /\ UNCHANGED <<life, transferID, snapPVCName, snapshotID>>
    BY <1>12, SetStatusTypes DEF PollFails, TypeOK, Statuses
  <2>2. faults' \in 0..MaxFaults
    BY <1>12, BoundAssumption DEF PollFails, Fault, TypeOK
  <2> QED
    BY <1>12, <2>1, <2>2 DEF PollFails, TypeOK, workerVars, clusterVars
<1> QED
  BY <1>1, <1>2, <1>3, <1>4, <1>5, <1>6, <1>7, <1>8, <1>9, <1>10, <1>11, <1>12

\* The job.
LEMMA JobTypes ==
  ASSUME TypeOK, NEW d \in DataExports,
         \/ StartPod(d) \/ CreateVolumeBackup(d) \/ WriteError(d)
         \/ ClearError(d) \/ WriteSnapshotID(d) \/ TransferData(d)
         \/ CompleteJob(d) \/ FailJob(d) \/ ReapPods(d) \/ LoseSource(d)
  PROVE  TypeOK'
<1>1. CASE StartPod(d)
  BY <1>1 DEF StartPod, JobStates, TypeOK, deVars, workerVars, clusterVars
<1>2. CASE CreateVolumeBackup(d)
  BY <1>2 DEF CreateVolumeBackup, SetVolumeBackup, VBStates, TypeOK, deVars,
     workerVars, clusterVars
<1>3. CASE WriteError(d) \/ ClearError(d)
  BY <1>3 DEF WriteError, ClearError, SetVolumeBackup, VBStates, TypeOK,
     deVars, workerVars, clusterVars
<1>4. CASE WriteSnapshotID(d)
  BY <1>4 DEF WriteSnapshotID, SetVolumeBackup, VBStates, TypeOK, deVars,
     workerVars, clusterVars
<1>5. CASE TransferData(d)
  BY <1>5 DEF TransferData, TypeOK, deVars, workerVars, clusterVars
<1>6. CASE CompleteJob(d)
  BY <1>6 DEF CompleteJob, SetJob, JobStates, TypeOK, deVars, workerVars,
     clusterVars
<1>7. CASE FailJob(d)
  BY <1>7 DEF FailJob, SetJob, JobStates, TypeOK, deVars, workerVars,
     clusterVars
<1>8. CASE ReapPods(d)
  BY <1>8, BoundAssumption DEF ReapPods, SetJob, Fault, JobStates, TypeOK,
     deVars, workerVars, clusterVars
<1>9. CASE LoseSource(d)
  BY <1>9, BoundAssumption DEF LoseSource, Fault, VBStates, TypeOK, deVars,
     workerVars, clusterVars
<1> QED
  BY <1>1, <1>2, <1>3, <1>4, <1>5, <1>6, <1>7, <1>8, <1>9

\* Every variable keeps its type, through every failure and restart.
THEOREM TypeCorrect == Spec => []TypeOK
<1>1. TypeOK /\ [Next]_vars => TypeOK'
  <2> SUFFICES ASSUME TypeOK, [Next]_vars PROVE TypeOK'
    OBVIOUS
  <2>1. CASE Crash
    BY <2>1, BoundAssumption DEF Crash, Fault, Labels, TypeOK, deVars,
       clusterVars
  <2>2. ASSUME NEW d \in DataExports, Delete(d) \/ AcquireLock(d) \/ Continue(d)
        PROVE  TypeOK'
    BY <2>2, LifeTypes, StartTypes, CleanUpTypes DEF Continue
  <2>3. ASSUME NEW d \in DataExports, WorkerFails(d) PROVE TypeOK'
    BY <2>3, StartTypes, CleanUpTypes DEF WorkerFails
  <2>4. ASSUME NEW d \in DataExports, NEW reply \in Replies, Reconcile(d, reply)
        PROVE  TypeOK'
    BY <2>4, LifeTypes, StageTypes, StartTypes, CleanUpTypes DEF Reconcile
  <2>5. ASSUME NEW d \in DataExports, JobStep(d) \/ JobMishap(d) PROVE TypeOK'
    BY <2>5, JobTypes DEF JobStep, JobMishap
  <2>6. CASE UNCHANGED vars
    BY <2>6 DEF TypeOK, vars, deVars, workerVars, clusterVars
  <2> QED
    BY <2>1, <2>2, <2>3, <2>4, <2>5, <2>6 DEF Next
<1> QED
  BY InitTypeOK, <1>1, PTL DEF Spec

-----------------------------------------------------------------------------
(* The verdict                                                             *)

\* One step of FailureIsFinal.
FailureStays ==
  \A d \in DataExports :
    /\ status[d] = "Failed"
    /\ stage[d] \in {"TransferScheduled", "TransferInProgress", "Cleanup", "Final"}
    => status'[d] = "Failed"

\* What a step keeps, and what it must not do.
Sound == BackedInv' /\ FailureStays

-----------------------------------------------------------------------------
(* What the steps of the worker and of the job do to a verdict             *)

\* The user, the finalizer and the first stages.
LEMMA LifeOutcome ==
  ASSUME TypeOK, BackedInv, NEW d \in DataExports, NEW reply \in Replies,
         \/ Delete(d) \/ SetFinalizer(d) \/ EnterInitial(d) \/ DeleteInitial(d)
         \/ StageInitial(d, reply)
  PROVE  Sound
<1> USE DEF Sound, FailureStays, BackedInv, WorkerStage, LocalStage,
          ReportIsBacked, SuccessIsBacked, TypeOK, deVars, workerVars,
          clusterVars, Starting, Critical, Cleaning, Backups
<1>1. CASE Delete(d)
  BY <1>1 DEF Delete
<1>2. CASE SetFinalizer(d)
  BY <1>2 DEF SetFinalizer
<1>3. CASE EnterInitial(d)
  BY <1>3 DEF EnterInitial, Record, SetStatus
<1>4. CASE DeleteInitial(d)
  BY <1>4 DEF DeleteInitial
<1>5. CASE StageInitial(d, reply)
  BY <1>5, KindsAssumption DEF StageInitial, At, Advance, Ask, Record,
     SetStatus, StatusOf, Replies
<1> QED
  BY <1>1, <1>2, <1>3, <1>4, <1>5

\* The stages of a volume snapshot, local or not.
LEMMA SnapshotOutcome ==
  ASSUME TypeOK, BackedInv, NEW d \in DataExports, NEW reply \in Replies,
         \/ StageSnapshotScheduled(d, reply)
         \/ StageSnapshotInProgress(d, reply)
         \/ StageSnapshotRestore(d, reply) \/ RecordSnapshotPVC(d)
         \/ StageSnapshotRestoreInProgress(d, reply)
         \/ StageLocalSnapshotRestore(d, reply)
         \/ StageLocalSnapshotRestoreInProgress(d, reply)
  PROVE  Sound
<1> USE DEF Sound, FailureStays, BackedInv, WorkerStage, LocalStage,
          ReportIsBacked, SuccessIsBacked, TypeOK, deVars, workerVars,
          clusterVars, Starting, Critical, Cleaning, Backups
<1>1. CASE StageSnapshotScheduled(d, reply)
  BY <1>1 DEF StageSnapshotScheduled, At, Advance, Ask, Record, SetStatus,
     StatusOf, Replies
<1>2. CASE StageSnapshotInProgress(d, reply)
  BY <1>2 DEF StageSnapshotInProgress, At, Advance, Ask, Record, SetStatus,
     StatusOf, Replies
<1>3. CASE StageSnapshotRestore(d, reply)
  BY <1>3 DEF StageSnapshotRestore, At, Advance, Ask, Record, Goto,
     SetStatus, StatusOf, Replies
<1>4. CASE RecordSnapshotPVC(d)
  BY <1>4 DEF RecordSnapshotPVC, Goto
<1>5. CASE StageSnapshotRestoreInProgress(d, reply)
  BY <1>5 DEF StageSnapshotRestoreInProgress, At, Advance, Ask, Record,
     SetStatus, StatusOf, Replies
<1>6. CASE StageLocalSnapshotRestore(d, reply)
  BY <1>6, KindsAssumption DEF StageLocalSnapshotRestore, At, Advance,
     FallBack, Record, SetStatus, StatusOf, Replies
<1>7. CASE StageLocalSnapshotRestoreInProgress(d, reply)
  BY <1>7, KindsAssumption DEF StageLocalSnapshotRestoreInProgress, At,
     FallBack, Record, SetStatus, StatusOf, Replies
<1> QED
  BY <1>1, <1>2, <1>3, <1>4, <1>5, <1>6, <1>7

\* The start of a transfer: RecordTransfer finds no failure to overwrite, since
\* the start began without one.
LEMMA StartOutcome ==
  ASSUME TypeOK, BackedInv, NEW d \in DataExports,
         \/ LeaveTransferScheduled(d) \/ CreateCertificateSecret(d)
         \/ CreateCredentialsSecret(d) \/ AcquireLock(d) \/ CheckJob(d)
         \/ SetupServiceAccount(d) \/ CreateJob(d) \/ StartFails(d)
         \/ RecordTransfer(d) \/ RecordFailure(d) \/ PollFails(d)
         \/ LoseUpdate(d)
  PROVE  Sound
<1> USE DEF Sound, FailureStays, BackedInv, WorkerStage, LocalStage,
          ReportIsBacked, SuccessIsBacked, TypeOK, deVars, workerVars,
          clusterVars, Starting, Critical, Cleaning, Backups
<1>1. CASE LeaveTransferScheduled(d)
  BY <1>1 DEF LeaveTransferScheduled, At, Advance, Record, SetStatus
<1>2. CASE CreateCertificateSecret(d)
  BY <1>2 DEF CreateCertificateSecret, At, Goto
<1>3. CASE CreateCredentialsSecret(d)
  BY <1>3 DEF CreateCredentialsSecret, Goto
<1>4. CASE AcquireLock(d)
  BY <1>4 DEF AcquireLock, Goto
<1>5. CASE CheckJob(d)
  BY <1>5 DEF CheckJob, Goto
<1>6. CASE SetupServiceAccount(d)
  BY <1>6 DEF SetupServiceAccount, Goto
<1>7. CASE CreateJob(d)
  BY <1>7 DEF CreateJob, Goto
<1>8. CASE StartFails(d)
  BY <1>8 DEF StartFails, Goto, Fault
<1>9. CASE RecordTransfer(d)
  BY <1>9 DEF RecordTransfer, Goto
<1>10. CASE RecordFailure(d)
  BY <1>10 DEF RecordFailure, Goto, SetStatus
<1>11. CASE PollFails(d)
  BY <1>11 DEF PollFails, At, SetStatus
<1>12. CASE LoseUpdate(d)
  BY <1>12 DEF LoseUpdate, Goto, Recording
<1> QED
  BY <1>1, <1>2, <1>3, <1>4, <1>5, <1>6, <1>7, <1>8, <1>9, <1>10, <1>11,
     <1>12

\* A cleanUp keeps the status or turns it into a failure.
LEMMA CleanUpOutcome ==
  ASSUME TypeOK, BackedInv, NEW d \in DataExports,
         \/ BeginCleanUp(d) \/ CleanUpSnapshot(d) \/ DeleteCertificateSecret(d)
         \/ DeleteVolumeBackup(d) \/ DeleteCredentialsSecret(d)
         \/ CleanServiceAccount(d) \/ DeleteJob(d) \/ FinishCleanUp(d)
         \/ CleanUpBlocked(d) \/ CleanUpFails(d)
  PROVE  Sound
<1> USE DEF Sound, FailureStays, BackedInv, WorkerStage, LocalStage,
          ReportIsBacked, SuccessIsBacked, TypeOK, deVars, workerVars,
          clusterVars, Starting, Critical, Cleaning, Backups
<1>1. CASE BeginCleanUp(d)
  BY <1>1 DEF BeginCleanUp
<1>2. CASE CleanUpSnapshot(d)
  BY <1>2 DEF CleanUpSnapshot, Goto
<1>3. CASE DeleteCertificateSecret(d)
  BY <1>3 DEF DeleteCertificateSecret, Goto
<1>4. CASE DeleteVolumeBackup(d)
  BY <1>4 DEF DeleteVolumeBackup, Goto
<1>5. CASE DeleteCredentialsSecret(d)
  BY <1>5 DEF DeleteCredentialsSecret, Goto
<1>6. CASE CleanServiceAccount(d)
  BY <1>6 DEF CleanServiceAccount, Goto
<1>7. CASE DeleteJob(d)
  BY <1>7 DEF DeleteJob, Goto
<1>8. CASE FinishCleanUp(d)
  BY <1>8 DEF FinishCleanUp, Goto, SetStatus
<1>9. CASE CleanUpBlocked(d)
  BY <1>9 DEF CleanUpBlocked, CleanUpError, Goto, SetStatus
<1>10. CASE CleanUpFails(d)
  BY <1>10 DEF CleanUpFails, CleanUpError, Goto, SetStatus
<1> QED
  BY <1>1, <1>2, <1>3, <1>4, <1>5, <1>6, <1>7, <1>8, <1>9, <1>10

\* The job: it reports only what is in data.
LEMMA JobOutcome ==
  ASSUME TypeOK, BackedInv, NEW d \in DataExports,
         \/ StartPod(d) \/ CreateVolumeBackup(d) \/ WriteError(d)
         \/ ClearError(d) \/ WriteSnapshotID(d) \/ TransferData(d)
         \/ CompleteJob(d) \/ FailJob(d) \/ ReapPods(d) \/ LoseSource(d)
  PROVE  Sound
<1> USE DEF Sound, FailureStays, BackedInv, WorkerStage, LocalStage,
          ReportIsBacked, SuccessIsBacked, TypeOK, deVars, workerVars,
          clusterVars, Starting, Critical, Cleaning, Backups
<1>1. CASE StartPod(d)
  BY <1>1 DEF StartPod
<1>2. CASE CreateVolumeBackup(d)
  BY <1>2 DEF CreateVolumeBackup, SetVolumeBackup
<1>3. CASE WriteError(d) \/ ClearError(d)
  BY <1>3 DEF WriteError, ClearError, SetVolumeBackup
<1>4. CASE WriteSnapshotID(d)
  BY <1>4 DEF WriteSnapshotID, SetVolumeBackup
<1>5. CASE TransferData(d)
  BY <1>5 DEF TransferData
<1>6. CASE CompleteJob(d)
  BY <1>6 DEF CompleteJob, SetJob
<1>7. CASE FailJob(d)
  BY <1>7 DEF FailJob, SetJob
<1>8. CASE ReapPods(d)
  BY <1>8 DEF ReapPods, SetJob
<1>9. CASE LoseSource(d)
  BY <1>9 DEF LoseSource
<1> QED
  BY <1>1, <1>2, <1>3, <1>4, <1>5, <1>6, <1>7, <1>8, <1>9

-----------------------------------------------------------------------------
(* The poll of a transfer                                                  *)

\* The answer "ok" is given only when the data is there.
LEMMA OkIsBacked ==
  ASSUME TypeOK, BackedInv, NEW d \in DataExports, TransferAnswer(d) = "ok"
  PROVE  d \in data /\ (d \in Backups => vb[d] = "saved")
<1>1. job[d] \in {"complete", "reaped"} /\ (d \in Backups => vb[d] = "saved")
  <2>1. CASE d \in Restores
    <3>1. RestoreAnswer(d) = "ok" /\ d \notin Backups
      BY <2>1 DEF TransferAnswer, Backups
    <3> QED
      BY <3>1 DEF RestoreAnswer, TypeOK, JobStates
  <2>2. CASE d \notin Restores
    <3>1. BackupAnswer(d) = "ok"
      BY <2>2 DEF TransferAnswer
    <3>2. job[d] \notin {"none", "failed", "pending", "running"} /\ vb[d] = "saved"
      BY <3>1 DEF BackupAnswer
    <3>3. job[d] \in JobStates
      BY DEF TypeOK
    <3> QED
      BY <3>2, <3>3 DEF JobStates
  <2> QED
    BY <2>1, <2>2
<1> QED
  BY <1>1 DEF BackedInv, ReportIsBacked

LEMMA PollOutcome ==
  ASSUME TypeOK, BackedInv, NEW d \in DataExports, StageTransferInProgress(d)
  PROVE  Sound
<1>1. At(d, "TransferInProgress") /\ d \in DataExports
  BY DEF StageTransferInProgress
<1>2. CASE /\ status[d] \in {"Successful", "Failed"}
           /\ Record(d, "Cleanup", status[d])
  BY <1>1, <1>2 DEF At, Record, SetStatus, Sound, FailureStays, BackedInv,
     WorkerStage, LocalStage, ReportIsBacked, SuccessIsBacked, TypeOK,
     workerVars, clusterVars, Starting, Critical, Cleaning, Backups
<1>3. CASE status[d] \in {"Initial", "InProgress"}
  <2>1. PICK s \in {"Successful", "InProgress", "Failed"}, id \in {"none", "volume", "kopia"} :
          /\ status' = [status EXCEPT ![d] = s]
          /\ snapshotID' = [snapshotID EXCEPT ![d] = id]
          /\ s = "Successful" => d \in data /\ (d \in Backups => id = "kopia")
    <3>1. TransferAnswer(d) \in Replies
      BY DEF TransferAnswer, BackupAnswer, RestoreAnswer, Replies
    <3>2. /\ StatusOf[TransferAnswer(d)] \in {"Successful", "InProgress", "Failed"}
          /\ StatusOf[TransferAnswer(d)] = "Successful" => TransferAnswer(d) = "ok"
      BY <3>1 DEF StatusOf, Replies
    <3>3. /\ status' = [status EXCEPT ![d] = StatusOf[TransferAnswer(d)]]
          /\ snapshotID' = [snapshotID EXCEPT
               ![d] = IF TransferAnswer(d) = "ok" /\ vb[d] = "saved"
                      THEN "kopia" ELSE @]
      BY <1>3 DEF StageTransferInProgress
    <3>4. snapshotID[d] \in {"none", "volume", "kopia"}
      BY DEF TypeOK
    <3> QED
      BY <3>2, <3>3, <3>4, OkIsBacked
  <2>2. UNCHANGED <<life, stage, transferID, snapPVCName, workerVars, clusterVars>>
    BY <1>3 DEF StageTransferInProgress
  <2> QED
    BY <1>1, <1>3, <2>1, <2>2 DEF At, Sound, FailureStays, BackedInv,
       WorkerStage, LocalStage, ReportIsBacked, SuccessIsBacked, TypeOK,
       workerVars, clusterVars, Starting, Critical, Cleaning, Backups
<1> QED
  BY <1>2, <1>3 DEF StageTransferInProgress

-----------------------------------------------------------------------------
(* The theorems                                                            *)

LEMMA InitBackedInv == Init => BackedInv
BY DEF Init, BackedInv, WorkerStage, LocalStage, ReportIsBacked,
   SuccessIsBacked, Backups, Starting, Critical, Cleaning

LEMMA NextIsSound == TypeOK /\ BackedInv /\ Next => Sound
<1> SUFFICES ASSUME TypeOK, BackedInv, Next PROVE Sound
  OBVIOUS
<1>1. CASE Crash
  BY <1>1 DEF Crash, Sound, FailureStays, BackedInv, WorkerStage, LocalStage,
     ReportIsBacked, SuccessIsBacked, TypeOK, deVars, clusterVars, Starting,
     Critical, Cleaning, Backups
<1>2. ASSUME NEW d \in DataExports,
             Delete(d) \/ AcquireLock(d) \/ Continue(d) \/ WorkerFails(d)
      PROVE  Sound
  BY <1>2, LifeOutcome, SnapshotOutcome, StartOutcome, CleanUpOutcome
     DEF Continue, WorkerFails, Replies
<1>3. ASSUME NEW d \in DataExports, NEW reply \in Replies, Reconcile(d, reply)
      PROVE  Sound
  BY <1>3, LifeOutcome, SnapshotOutcome, StartOutcome, CleanUpOutcome,
     PollOutcome DEF Reconcile
<1>4. ASSUME NEW d \in DataExports, JobStep(d) \/ JobMishap(d) PROVE Sound
  BY <1>4, JobOutcome DEF JobStep, JobMishap
<1> QED
  BY <1>1, <1>2, <1>3, <1>4 DEF Next

LEMMA StutterKeepsBackedInv == BackedInv /\ UNCHANGED vars => BackedInv'
BY DEF BackedInv, WorkerStage, LocalStage, ReportIsBacked, SuccessIsBacked,
   vars, deVars, workerVars, clusterVars

\* What a job, its VolumeBackup and its DataExport report is backed by data in
\* every state, and a worker always finds its object in the stage it left it in.
THEOREM BackedInvHolds == Spec => []BackedInv
<1>1. TypeOK /\ BackedInv /\ [Next]_vars => BackedInv'
  BY NextIsSound, StutterKeepsBackedInv DEF Sound
<1> QED
  BY TypeCorrect, InitBackedInv, <1>1, PTL DEF Spec

\* A DataExport reported as Successful has its data, whatever a job, a failed
\* call, a restart or a fallback did before: a success comes from a job that is
\* complete (and for a backup from a saved VolumeBackup) or from a volume that
\* was restored, and the stages behind it only hand it on.
THEOREM SuccessHasData == Spec => []SuccessIsBacked
<1>1. BackedInv => SuccessIsBacked
  BY DEF BackedInv
<1> QED
  BY BackedInvHolds, <1>1, PTL

\* From TransferScheduled on no step takes a reported failure back.
THEOREM FailureStaysFinal == Spec => FailureIsFinal
<1>1. TypeOK /\ BackedInv /\ [Next]_vars => [FailureStays]_vars
  BY NextIsSound DEF Sound
<1>2. Spec => [][FailureStays]_vars
  BY TypeCorrect, BackedInvHolds, <1>1, PTL DEF Spec
<1> QED
  BY <1>2 DEF FailureIsFinal, FailureStays, Reporting

-----------------------------------------------------------------------------
(* What the jobs may do                                                    *)

Contained(d) == Job!Start(d) \/ Job!Work(d)

LEMMA JobsAreContained ==
  ASSUME TypeOK, NEW d \in DataExports,
         JobStep(d) \/ WriteError(d) \/ ClearError(d) \/ FailJob(d)
  PROVE  Contained(d)
<1> DEFINE Said(f) == [b \in Backups |-> f[b]]
<1>1. d \in Job!Jobs /\ Backups \subseteq DataExports
  BY DEF Job!Jobs, Backups
<1>2. ASSUME UNCHANGED vb PROVE Said(vb') = Said(vb)
  BY <1>2
<1>3. ASSUME NEW old, NEW new, SetVolumeBackup(d, old, new)
      PROVE  Job!SetReport(d, old, new)
  <2>1. /\ d \in Backups /\ job[d] = "running" /\ vb[d] \in old
        /\ vb' = [vb EXCEPT ![d] = new] /\ UNCHANGED <<job, data>>
    BY <1>3 DEF SetVolumeBackup
  <2>2. Said(vb)[d] = vb[d] /\ Said(vb') = [Said(vb) EXCEPT ![d] = new]
    BY <1>1, <2>1 DEF TypeOK
  <2> QED
    BY <2>1, <2>2 DEF Job!SetReport
<1>4. CASE StartPod(d)
  BY <1>2, <1>4 DEF StartPod, Contained, Job!Start, Job!SetState
<1>5. CASE CreateVolumeBackup(d) \/ ClearError(d)
  <2>1. \/ Job!SetReport(d, {"none"}, "empty")
        \/ Job!SetReport(d, {"error"}, "empty")
    BY <1>3, <1>5 DEF CreateVolumeBackup, ClearError
  <2>2. Job!SetReport(d, {"none", "error"}, "empty")
    BY <2>1 DEF Job!SetReport
  <2> QED
    BY <2>2 DEF Contained, Job!Work, Job!Report
<1>6. CASE WriteError(d) \/ WriteSnapshotID(d)
  BY <1>3, <1>6 DEF WriteError, WriteSnapshotID, Contained, Job!Work,
     Job!Report
<1>7. CASE TransferData(d)
  <2>1. d \in Backups => Said(vb)[d] \in {"empty", "error"}
    BY <1>7 DEF TransferData, Backups
  <2> QED
    BY <1>2, <1>7, <2>1 DEF TransferData, Contained, Job!Work, Job!Move
<1>8. CASE CompleteJob(d)
  <2>1. d \in Backups => Said(vb)[d] = "saved"
    BY <1>8 DEF CompleteJob
  <2> QED
    BY <1>2, <1>8, <2>1 DEF CompleteJob, SetJob, Contained, Job!Work,
       Job!Complete, Job!SetState
<1>9. CASE FailJob(d)
  BY <1>2, <1>9 DEF FailJob, SetJob, Contained, Job!Work, Job!Fail,
     Job!SetState
<1> QED
  BY <1>4, <1>5, <1>6, <1>7, <1>8, <1>9 DEF JobStep

\* What DataExport lets a job do is what TransferJob says, in any state the
\* controller, its drivers and its cleanUp leave behind.
THEOREM JobsAreTransferJobs ==
  Spec => [][\A d \in DataExports :
               JobStep(d) \/ WriteError(d) \/ ClearError(d) \/ FailJob(d)
               => Job!Start(d) \/ Job!Work(d)]_vars
<1>1. TypeOK => \A d \in DataExports :
                  JobStep(d) \/ WriteError(d) \/ ClearError(d) \/ FailJob(d)
                  => Job!Start(d) \/ Job!Work(d)
  BY JobsAreContained DEF Contained
<1> QED
  BY <1>1, TypeCorrect, PTL DEF Spec

\* And all that TransferJob says a running job may do, DataExport lets it do; to
\* write, the job needs its service account.  With ContractIsKept of
\* KopiaPodProofs, nothing the containers do is missing in DataExport.
THEOREM TransferJobsMayWork ==
  ASSUME TypeOK, TypeOK', NEW d \in DataExports, Job!Work(d),
         vb' # vb => d \in sa, \A r \in Restores : vb'[r] = vb[r],
         UNCHANGED <<deVars, workerVars, cred, sa, cert, snapPVC, localCopy,
                     faults>>
  PROVE  [Next]_vars
<1> DEFINE Said(f) == [b \in Backups |-> f[b]]
<1>1. Backups \subseteq DataExports /\ DataExports \subseteq Backups \cup Restores
  BY DEF Backups
<1>2. ASSUME Said(vb') = Said(vb) PROVE vb' = vb
  <2>1. \A b \in Backups : vb'[b] = Said(vb')[b] /\ vb[b] = Said(vb)[b]
    OBVIOUS
  <2>2. \A e \in DataExports : vb'[e] = vb[e]
    BY <1>1, <1>2, <2>1
  <2> QED
    BY <2>2 DEF TypeOK
<1>3. ASSUME NEW old, NEW new, new \notin old, Job!SetReport(d, old, new)
      PROVE  SetVolumeBackup(d, old, new)
  <2>1. /\ d \in Backups /\ job[d] = "running" /\ vb[d] \in old
        /\ Said(vb') = [Said(vb) EXCEPT ![d] = new] /\ UNCHANGED <<job, data>>
    BY <1>3 DEF Job!SetReport
  <2>2. ASSUME NEW b \in Backups PROVE vb'[b] = IF b = d THEN new ELSE vb[b]
    <3>1. vb'[b] = Said(vb')[b]
      OBVIOUS
    <3> QED
      BY <2>1, <3>1
  <2>3. vb' = [vb EXCEPT ![d] = new]
    <3>1. \A e \in DataExports : vb'[e] = IF e = d THEN new ELSE vb[e]
      BY <1>1, <2>1, <2>2
    <3> QED
      BY <3>1 DEF TypeOK
  <2>4. d \in sa
    BY <1>1, <1>3, <2>1, <2>2
  <2> QED
    BY <2>1, <2>3, <2>4 DEF SetVolumeBackup
<1>4. CASE Job!Report(d)
  <2>1. CASE Job!SetReport(d, {"none", "error"}, "empty")
    <3>1. SetVolumeBackup(d, {"none", "error"}, "empty")
      BY <1>3, <2>1
    <3>2. CreateVolumeBackup(d) \/ ClearError(d)
      BY <3>1 DEF SetVolumeBackup, CreateVolumeBackup, ClearError
    <3> QED
      BY <3>2 DEF Next, JobStep, JobMishap
  <2>2. CASE Job!SetReport(d, {"empty"}, "error")
    BY <1>3, <2>2 DEF WriteError, Next, JobMishap
  <2>3. CASE d \in data /\ Job!SetReport(d, {"empty", "error"}, "saved")
    BY <1>3, <2>3 DEF WriteSnapshotID, Next, JobStep
  <2> QED
    BY <1>4, <2>1, <2>2, <2>3 DEF Job!Report
<1>5. CASE Job!Move(d)
  <2>1. /\ job[d] = "running" /\ data' = data \cup {d} /\ UNCHANGED <<job, vb>>
        /\ d \in Backups => Said(vb)[d] \in {"empty", "error"}
    BY <1>2, <1>5 DEF Job!Move
  <2>2. CASE d \in data
    BY <2>1, <2>2 DEF vars, clusterVars
  <2>3. CASE d \notin data
    <3>1. TransferData(d)
      BY <1>1, <2>1, <2>3 DEF TransferData
    <3> QED
      BY <3>1 DEF Next, JobStep
  <2> QED
    BY <2>2, <2>3
<1>6. CASE Job!Complete(d)
  <2>1. /\ d \in data /\ (d \in Backups => Said(vb)[d] = "saved")
        /\ job[d] = "running" /\ job' = [job EXCEPT ![d] = "complete"]
        /\ UNCHANGED <<vb, data>>
    BY <1>2, <1>6 DEF Job!Complete, Job!SetState
  <2>2. CompleteJob(d)
    BY <2>1 DEF CompleteJob, SetJob
  <2> QED
    BY <2>2 DEF Next, JobStep
<1>7. CASE Job!Fail(d)
  <2>1. /\ job[d] = "running" /\ job' = [job EXCEPT ![d] = "failed"]
        /\ UNCHANGED <<vb, data>>
    BY <1>2, <1>7 DEF Job!Fail, Job!SetState
  <2>2. FailJob(d)
    BY <2>1 DEF FailJob, SetJob
  <2> QED
    BY <2>2 DEF Next, JobMishap
<1> QED
  BY <1>4, <1>5, <1>6, <1>7 DEF Job!Work

=============================================================================
