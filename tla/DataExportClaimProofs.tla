------------------------ MODULE DataExportClaimProofs ------------------------
(***************************************************************************)
(* At most one backup job per claim and no more jobs than the limit: the   *)
(* proof that the mutex of StartJob and its looks at the other jobs        *)
(* suffice, whatever crashes, fails or is deleted meanwhile.               *)
(***************************************************************************)
EXTENDS DataExportProofs, FiniteSetTheorems

-----------------------------------------------------------------------------
(* The steps that cannot disturb the invariant                             *)

\* A job that counts against the limit of its driver.
Unfinished(e) == job[e] \notin {"none", "complete", "reaped"}

\* No worker enters the critical section or passes its check, no job appears
\* or comes back to life.
Quiet ==
  \A e \in DataExports :
    /\ pc'[e] \in Critical => pc[e] \in Critical
    /\ pc'[e] \in {"sa", "create"} => pc[e] \in {"sa", "create"}
    /\ job'[e] # "none" => job[e] # "none"
    /\ Unfinished(e)' => Unfinished(e)

LEMMA QuietKeepsClaimInv == ASSUME ClaimInv, Quiet PROVE ClaimInv'
<1>1. MutualExclusion'
  <2> SUFFICES ASSUME NEW d \in DataExports, NEW e \in SameKind(d), d # e,
                      pc'[d] \in Critical
               PROVE  pc'[e] \notin Critical
    BY DEF MutualExclusion, SameKind, Backups
  <2>1. e \in DataExports
    BY KindsAssumption DEF SameKind, Backups
  <2>2. pc[d] \in Critical
    BY DEF Quiet
  <2>3. pc[e] \notin Critical
    BY <2>2 DEF ClaimInv, MutualExclusion
  <2> QED
    BY <2>1, <2>3 DEF Quiet
<1>2. StartSeesNoJob'
  <2> SUFFICES ASSUME NEW d \in Backups, NEW e \in Backups, d # e,
                      PvcOf[e] = PvcOf[d], pc'[d] \in {"sa", "create"}
               PROVE  job'[e] = "none"
    BY DEF StartSeesNoJob, Backups
  <2>1. d \in DataExports /\ e \in DataExports
    BY DEF Backups
  <2>2. pc[d] \in {"sa", "create"}
    BY <2>1 DEF Quiet
  <2>3. job[e] = "none"
    BY <2>2 DEF ClaimInv, StartSeesNoJob
  <2> QED
    BY <2>1, <2>3 DEF Quiet
<1>3. OneJobPerClaim'
  <2> SUFFICES ASSUME NEW d \in Backups, NEW e \in Backups, d # e,
                      PvcOf[d] = PvcOf[e]
               PROVE  job'[d] = "none" \/ job'[e] = "none"
    BY DEF OneJobPerClaim, Backups
  <2>1. d \in DataExports /\ e \in DataExports
    BY DEF Backups
  <2>2. job[d] = "none" \/ job[e] = "none"
    BY DEF ClaimInv, OneJobPerClaim
  <2> QED
    BY <2>1, <2>2 DEF Quiet
<1> QED
  BY <1>1, <1>2, <1>3 DEF ClaimInv

\* The user, the finalizer and the first stages touch neither lock nor job.
LEMMA LifeIsQuiet ==
  ASSUME TypeOK, NEW d \in DataExports, NEW reply \in Replies,
         \/ Delete(d) \/ SetFinalizer(d) \/ EnterInitial(d)
         \/ DeleteInitial(d) \/ StageInitial(d, reply)
  PROVE  Quiet
<1>1. CASE Delete(d)
  BY <1>1 DEF Delete, Quiet, Unfinished, TypeOK, deVars, workerVars,
     clusterVars, Critical, Cleaning
<1>2. CASE SetFinalizer(d)
  BY <1>2 DEF SetFinalizer, Quiet, Unfinished, TypeOK, deVars, workerVars,
     clusterVars, Critical, Cleaning
<1>3. CASE EnterInitial(d)
  BY <1>3 DEF EnterInitial, Record, Quiet, Unfinished, TypeOK, deVars,
     workerVars, clusterVars, Critical, Cleaning
<1>4. CASE DeleteInitial(d)
  BY <1>4 DEF DeleteInitial, Quiet, Unfinished, TypeOK, deVars, workerVars,
     clusterVars, Critical, Cleaning
<1>5. CASE StageInitial(d, reply)
  BY <1>5 DEF StageInitial, Advance, Ask, Record, Quiet, Unfinished, TypeOK,
     deVars, workerVars, clusterVars, Critical, Cleaning
<1> QED
  BY <1>1, <1>2, <1>3, <1>4, <1>5

\* Nor do the stages of a volume snapshot,
LEMMA SnapshotStagesAreQuiet ==
  ASSUME TypeOK, NEW d \in DataExports, NEW reply \in Replies,
         \/ StageSnapshotScheduled(d, reply)
         \/ StageSnapshotInProgress(d, reply)
         \/ StageSnapshotRestore(d, reply) \/ RecordSnapshotPVC(d)
         \/ StageSnapshotRestoreInProgress(d, reply)
         \/ StageLocalSnapshotRestore(d, reply)
         \/ StageLocalSnapshotRestoreInProgress(d, reply)
  PROVE  Quiet
<1>1. CASE StageSnapshotScheduled(d, reply)
  BY <1>1 DEF StageSnapshotScheduled, Advance, Ask, Record, Quiet, Unfinished,
     TypeOK, deVars, workerVars, clusterVars, Critical, Cleaning
<1>2. CASE StageSnapshotInProgress(d, reply)
  BY <1>2 DEF StageSnapshotInProgress, Advance, Ask, Record, Quiet, Unfinished,
     TypeOK, deVars, workerVars, clusterVars, Critical, Cleaning
<1>3. CASE StageSnapshotRestore(d, reply)
  BY <1>3 DEF StageSnapshotRestore, Advance, Ask, Record, Goto, Quiet,
     Unfinished, TypeOK, deVars, workerVars, clusterVars, Critical, Cleaning
<1>4. CASE RecordSnapshotPVC(d)
  BY <1>4 DEF RecordSnapshotPVC, Goto, Quiet, Unfinished, TypeOK, deVars,
     workerVars, clusterVars, Critical, Cleaning
<1>5. CASE StageSnapshotRestoreInProgress(d, reply)
  BY <1>5 DEF StageSnapshotRestoreInProgress, Advance, Ask, Record, Quiet,
     Unfinished, TypeOK, deVars, workerVars, clusterVars, Critical, Cleaning
<1>6. CASE StageLocalSnapshotRestore(d, reply)
  BY <1>6 DEF StageLocalSnapshotRestore, Advance, FallBack, Record, Quiet,
     Unfinished, TypeOK, deVars, workerVars, clusterVars, Critical, Cleaning
<1>7. CASE StageLocalSnapshotRestoreInProgress(d, reply)
  BY <1>7 DEF StageLocalSnapshotRestoreInProgress, FallBack, Record, Quiet,
     Unfinished, TypeOK, deVars, workerVars, clusterVars, Critical, Cleaning
<1> QED
  BY <1>1, <1>2, <1>3, <1>4, <1>5, <1>6, <1>7

\* a start outside its check of the cluster and its creation of the job,
LEMMA TransferStagesAreQuiet ==
  ASSUME TypeOK, NEW d \in DataExports, 
         \/ LeaveTransferScheduled(d) \/ CreateCertificateSecret(d)
         \/ CreateCredentialsSecret(d) \/ SetupServiceAccount(d)
         \/ RecordTransfer(d) \/ RecordFailure(d)
         \/ StageTransferInProgress(d) \/ PollFails(d) \/ LoseUpdate(d)
  PROVE  Quiet
<1>1. CASE LeaveTransferScheduled(d)
  BY <1>1 DEF LeaveTransferScheduled, Advance, Record, Quiet, Unfinished,
     TypeOK, deVars, workerVars, clusterVars, Critical, Cleaning
<1>2. CASE CreateCertificateSecret(d)
  BY <1>2 DEF CreateCertificateSecret, Goto, Quiet, Unfinished, TypeOK, deVars,
     workerVars, clusterVars, Critical, Cleaning
<1>3. CASE CreateCredentialsSecret(d)
  BY <1>3 DEF CreateCredentialsSecret, Goto, Quiet, Unfinished, TypeOK, deVars,
     workerVars, clusterVars, Critical, Cleaning
<1>4. CASE SetupServiceAccount(d)
  BY <1>4 DEF SetupServiceAccount, Goto, Quiet, Unfinished, TypeOK, deVars,
     workerVars, clusterVars, Critical, Cleaning
<1>5. CASE RecordTransfer(d)
  BY <1>5 DEF RecordTransfer, Goto, Quiet, Unfinished, TypeOK, deVars,
     workerVars, clusterVars, Critical, Cleaning
<1>6. CASE RecordFailure(d)
  BY <1>6 DEF RecordFailure, Goto, Quiet, Unfinished, TypeOK, deVars,
     workerVars, clusterVars, Critical, Cleaning
<1>7. CASE StageTransferInProgress(d)
  BY <1>7 DEF StageTransferInProgress, Record, Quiet, Unfinished, TypeOK,
     deVars, workerVars, clusterVars, Critical, Cleaning
<1>8. CASE PollFails(d)
  BY <1>8 DEF PollFails, Quiet, Unfinished, TypeOK, deVars, workerVars,
     clusterVars, Critical, Cleaning
<1>9. CASE LoseUpdate(d)
  BY <1>9 DEF LoseUpdate, Goto, Quiet, Unfinished, TypeOK, deVars, workerVars,
     clusterVars, Critical, Cleaning
<1> QED
  BY <1>1, <1>2, <1>3, <1>4, <1>5, <1>6, <1>7, <1>8, <1>9

\* a cleanUp, which only removes,
LEMMA CleanUpIsQuiet ==
  ASSUME TypeOK, NEW d \in DataExports, 
         \/ BeginCleanUp(d) \/ CleanUpSnapshot(d)
         \/ DeleteCertificateSecret(d) \/ DeleteVolumeBackup(d)
         \/ DeleteCredentialsSecret(d) \/ CleanServiceAccount(d)
         \/ DeleteJob(d) \/ FinishCleanUp(d) \/ CleanUpBlocked(d)
         \/ CleanUpFails(d)
  PROVE  Quiet
<1>1. CASE BeginCleanUp(d)
  BY <1>1 DEF BeginCleanUp, Quiet, Unfinished, TypeOK, deVars, workerVars,
     clusterVars, Critical, Cleaning
<1>2. CASE CleanUpSnapshot(d)
  BY <1>2 DEF CleanUpSnapshot, Goto, Quiet, Unfinished, TypeOK, deVars,
     workerVars, clusterVars, Critical, Cleaning
<1>3. CASE DeleteCertificateSecret(d)
  BY <1>3 DEF DeleteCertificateSecret, Goto, Quiet, Unfinished, TypeOK, deVars,
     workerVars, clusterVars, Critical, Cleaning
<1>4. CASE DeleteVolumeBackup(d)
  BY <1>4 DEF DeleteVolumeBackup, Goto, Quiet, Unfinished, TypeOK, deVars,
     workerVars, clusterVars, Critical, Cleaning
<1>5. CASE DeleteCredentialsSecret(d)
  BY <1>5 DEF DeleteCredentialsSecret, Goto, Quiet, Unfinished, TypeOK, deVars,
     workerVars, clusterVars, Critical, Cleaning
<1>6. CASE CleanServiceAccount(d)
  BY <1>6 DEF CleanServiceAccount, Goto, Quiet, Unfinished, TypeOK, deVars,
     workerVars, clusterVars, Critical, Cleaning
<1>7. CASE DeleteJob(d)
  BY <1>7 DEF DeleteJob, Goto, Quiet, Unfinished, TypeOK, deVars, workerVars,
     clusterVars, Critical, Cleaning
<1>8. CASE FinishCleanUp(d)
  BY <1>8 DEF FinishCleanUp, Goto, Quiet, Unfinished, TypeOK, deVars,
     workerVars, clusterVars, Critical, Cleaning
<1>9. CASE CleanUpBlocked(d)
  BY <1>9 DEF CleanUpBlocked, CleanUpError, Goto, Quiet, Unfinished, TypeOK,
     deVars, workerVars, clusterVars, Critical, Cleaning
<1>10. CASE CleanUpFails(d)
  BY <1>10 DEF CleanUpFails, CleanUpError, Goto, Quiet, Unfinished, TypeOK,
     deVars, workerVars, clusterVars, Critical, Cleaning
<1> QED
  BY <1>1, <1>2, <1>3, <1>4, <1>5, <1>6, <1>7, <1>8, <1>9, <1>10

\* and a job, which neither appears nor disappears by itself.
LEMMA JobIsQuiet ==
  ASSUME TypeOK, NEW d \in DataExports, 
         \/ StartPod(d) \/ CreateVolumeBackup(d) \/ WriteError(d)
         \/ ClearError(d) \/ WriteSnapshotID(d) \/ TransferData(d)
         \/ CompleteJob(d) \/ FailJob(d) \/ ReapPods(d) \/ LoseSource(d)
  PROVE  Quiet
<1>1. CASE StartPod(d)
  BY <1>1 DEF StartPod, Quiet, Unfinished, TypeOK, deVars, workerVars,
     clusterVars, Critical, Cleaning
<1>2. CASE CreateVolumeBackup(d)
  BY <1>2 DEF CreateVolumeBackup, SetVolumeBackup, Quiet, Unfinished, TypeOK,
     deVars, workerVars, clusterVars, Critical, Cleaning
<1>3. CASE WriteError(d) \/ ClearError(d)
  BY <1>3 DEF WriteError, ClearError, SetVolumeBackup, Quiet, Unfinished,
     TypeOK, deVars, workerVars, clusterVars, Critical, Cleaning
<1>4. CASE WriteSnapshotID(d)
  BY <1>4 DEF WriteSnapshotID, SetVolumeBackup, Quiet, Unfinished, TypeOK,
     deVars, workerVars, clusterVars, Critical, Cleaning
<1>5. CASE TransferData(d)
  BY <1>5 DEF TransferData, Quiet, Unfinished, TypeOK, deVars, workerVars,
     clusterVars, Critical, Cleaning
<1>6. CASE CompleteJob(d)
  BY <1>6 DEF CompleteJob, SetJob, Quiet, Unfinished, TypeOK, deVars,
     workerVars, clusterVars, Critical, Cleaning
<1>7. CASE FailJob(d)
  BY <1>7 DEF FailJob, SetJob, Quiet, Unfinished, TypeOK, deVars, workerVars,
     clusterVars, Critical, Cleaning
<1>8. CASE ReapPods(d)
  BY <1>8 DEF ReapPods, SetJob, Quiet, Unfinished, TypeOK, deVars, workerVars,
     clusterVars, Critical, Cleaning
<1>9. CASE LoseSource(d)
  BY <1>9 DEF LoseSource, Quiet, Unfinished, TypeOK, deVars, workerVars,
     clusterVars, Critical, Cleaning
<1> QED
  BY <1>1, <1>2, <1>3, <1>4, <1>5, <1>6, <1>7, <1>8, <1>9

-----------------------------------------------------------------------------
(* The steps the invariant depends on                                      *)

\* The mutex is free when it is taken.
LEMMA LockKeepsClaimInv ==
  ASSUME TypeOK, ClaimInv, NEW d \in DataExports, AcquireLock(d)
  PROVE  ClaimInv'
<1>1. /\ pc' = [pc EXCEPT ![d] = "check"] /\ job' = job
      /\ \A e \in SameKind(d) : pc[e] \notin Critical
  BY DEF AcquireLock, LockFree, Goto, clusterVars
<1>2. MutualExclusion'
  <2> SUFFICES ASSUME NEW x \in DataExports, NEW y \in SameKind(x), x # y,
                      pc'[x] \in Critical
               PROVE  pc'[y] \notin Critical
    BY DEF MutualExclusion, SameKind, Backups
  <2>1. /\ y \in DataExports
        /\ x = d => y \in SameKind(d)
        /\ y = d => x \in SameKind(d)
    BY KindsAssumption DEF SameKind, Backups
  <2>2. CASE x = d
    BY <1>1, <2>1, <2>2 DEF TypeOK
  <2>3. CASE y = d
    BY <1>1, <2>1, <2>3 DEF TypeOK
  <2>4. CASE x # d /\ y # d
    BY <1>1, <2>1, <2>4 DEF TypeOK, ClaimInv, MutualExclusion
  <2> QED
    BY <2>2, <2>3, <2>4
<1>3. StartSeesNoJob'
  BY <1>1 DEF TypeOK, ClaimInv, StartSeesNoJob, Backups
<1>4. OneJobPerClaim'
  BY <1>1 DEF ClaimInv, OneJobPerClaim, Backups
<1> QED
  BY <1>2, <1>3, <1>4 DEF ClaimInv

\* The worker goes on to create a job only when the claim has none.
LEMMA CheckKeepsClaimInv ==
  ASSUME TypeOK, ClaimInv, NEW d \in DataExports, CheckJob(d)
  PROVE  ClaimInv'
<1>1. PICK label \in {"started", "idle", "failed", "sa"} :
        /\ pc' = [pc EXCEPT ![d] = label] /\ job' = job
        /\ label = "sa" /\ d \in Backups => ~JobForPvcExists(d)
  <2> DEFINE answer ==
               IF d \in Backups /\ job[d] # "none" THEN "started"
               ELSE IF d \in Backups /\ JobForPvcExists(d) THEN "idle"
               ELSE IF ~CanJobBeScheduled(d) THEN "idle"
               ELSE IF d \in Restores /\ vb[d] = "none" THEN "failed"
               ELSE "sa"
  <2>1. pc' = [pc EXCEPT ![d] = answer] /\ job' = job
    BY DEF CheckJob, Goto, clusterVars
  <2>2. answer \in {"started", "idle", "failed", "sa"}
    OBVIOUS
  <2>3. answer = "sa" /\ d \in Backups => ~JobForPvcExists(d)
    OBVIOUS
  <2> QED
    BY <2>1, <2>2, <2>3
<1>2. pc[d] \in Critical
  BY DEF CheckJob, Critical
<1>3. MutualExclusion'
  <2> SUFFICES ASSUME NEW x \in DataExports, NEW y \in SameKind(x), x # y,
                      pc'[x] \in Critical
               PROVE  pc'[y] \notin Critical
    BY DEF MutualExclusion, SameKind, Backups
  <2>1. y \in DataExports
    BY KindsAssumption DEF SameKind, Backups
  <2>2. pc[x] \in Critical
    BY <1>1, <1>2 DEF TypeOK
  <2>3. pc[y] \notin Critical
    BY <2>2 DEF ClaimInv, MutualExclusion
  <2>4. y # d
    BY <1>2, <2>3
  <2> QED
    BY <1>1, <2>1, <2>3, <2>4 DEF TypeOK
<1>4. StartSeesNoJob'
  <2> SUFFICES ASSUME NEW x \in Backups, NEW y \in Backups, x # y,
                      PvcOf[y] = PvcOf[x], pc'[x] \in {"sa", "create"}
               PROVE  job'[y] = "none"
    BY DEF StartSeesNoJob, Backups
  <2>1. CASE x = d
    BY <1>1, <2>1 DEF TypeOK, JobForPvcExists, Backups
  <2>2. CASE x # d
    BY <1>1, <2>2 DEF TypeOK, ClaimInv, StartSeesNoJob, Backups
  <2> QED
    BY <2>1, <2>2
<1>5. OneJobPerClaim'
  BY <1>1 DEF ClaimInv, OneJobPerClaim, Backups
<1> QED
  BY <1>3, <1>4, <1>5 DEF ClaimInv

\* A worker leaves "create", alone or with a job: it had the lock, so nobody
\* else is about to create one, and the claim had no job.
LEMMA CreateKeepsClaimInv ==
  ASSUME TypeOK, ClaimInv, NEW d \in DataExports, pc[d] = "create",
         NEW label \in {"started", "failed"}, pc' = [pc EXCEPT ![d] = label],
         \A e \in DataExports \ {d} : job'[e] = job[e]
  PROVE  ClaimInv'
<1>1. pc[d] \in Critical /\ label \notin Critical
  BY DEF Critical
<1>2. MutualExclusion'
  <2> SUFFICES ASSUME NEW x \in DataExports, NEW y \in SameKind(x), x # y,
                      pc'[x] \in Critical
               PROVE  pc'[y] \notin Critical
    BY DEF MutualExclusion, SameKind, Backups
  <2>1. y \in DataExports
    BY KindsAssumption DEF SameKind, Backups
  <2>2. pc[x] \in Critical /\ x # d
    BY <1>1 DEF TypeOK
  <2>3. pc[y] \notin Critical
    BY <2>2 DEF ClaimInv, MutualExclusion
  <2> QED
    BY <1>1, <2>1, <2>3 DEF TypeOK
<1>3. StartSeesNoJob'
  <2> SUFFICES ASSUME NEW x \in Backups, NEW y \in Backups, x # y,
                      PvcOf[y] = PvcOf[x], pc'[x] \in {"sa", "create"}
               PROVE  job'[y] = "none"
    BY DEF StartSeesNoJob, Backups
  <2>1. x # d /\ pc[x] \in {"sa", "create"} /\ x \in DataExports
    BY DEF TypeOK, Backups
  <2>2. job[y] = "none" /\ y \in DataExports
    BY <2>1 DEF ClaimInv, StartSeesNoJob, Backups
  <2>3. y # d
    <3> SUFFICES ASSUME y = d PROVE FALSE
      OBVIOUS
    <3>1. x \in SameKind(d)
      BY DEF SameKind, Backups
    <3>2. pc[x] \notin Critical
      BY <1>1, <2>1, <3>1 DEF ClaimInv, MutualExclusion
    <3> QED
      BY <2>1, <3>2 DEF Critical
  <2> QED
    BY <2>2, <2>3
<1>4. OneJobPerClaim'
  <2> SUFFICES ASSUME NEW x \in Backups, NEW y \in Backups, x # y,
                      PvcOf[x] = PvcOf[y]
               PROVE  job'[x] = "none" \/ job'[y] = "none"
    BY DEF OneJobPerClaim, Backups
  <2>1. x \in DataExports /\ y \in DataExports
    BY DEF Backups
  <2>2. CASE x = d
    BY <2>1, <2>2 DEF ClaimInv, StartSeesNoJob
  <2>3. CASE y = d
    BY <2>1, <2>3 DEF ClaimInv, StartSeesNoJob
  <2>4. CASE x # d /\ y # d
    BY <2>1, <2>4 DEF ClaimInv, OneJobPerClaim
  <2> QED
    BY <2>2, <2>3, <2>4
<1> QED
  BY <1>2, <1>3, <1>4 DEF ClaimInv

LEMMA CreateJobKeepsClaimInv ==
  ASSUME TypeOK, ClaimInv, NEW d \in DataExports, CreateJob(d)
  PROVE  ClaimInv'
<1>1. \A e \in DataExports \ {d} : job'[e] = job[e]
  BY DEF CreateJob, TypeOK
<1> QED
  BY <1>1, CreateKeepsClaimInv DEF CreateJob, Goto

LEMMA StartFailsKeepsClaimInv ==
  ASSUME TypeOK, ClaimInv, NEW d \in DataExports, StartFails(d)
  PROVE  ClaimInv'
<1>1. CASE pc[d] = "create"
  <2>1. \A e \in DataExports \ {d} : job'[e] = job[e]
    BY DEF StartFails, TypeOK
  <2> QED
    BY <1>1, <2>1, CreateKeepsClaimInv DEF StartFails, Goto
<1>2. CASE pc[d] # "create"
  <2>1. job' = job
    BY <1>2 DEF StartFails, TypeOK
  <2>2. Quiet
    BY <2>1 DEF StartFails, Goto, Quiet, Unfinished, TypeOK, Critical
  <2> QED
    BY <2>2, QuietKeepsClaimInv
<1> QED
  BY <1>1, <1>2

-----------------------------------------------------------------------------
(* The invariant                                                           *)

LEMMA InitClaimInv == Init => ClaimInv
BY KindsAssumption DEF Init, ClaimInv, MutualExclusion, StartSeesNoJob,
   OneJobPerClaim, SameKind, Backups, Critical

LEMMA NextClaimInv == TypeOK /\ ClaimInv /\ [Next]_vars => ClaimInv'
<1> SUFFICES ASSUME TypeOK, ClaimInv, [Next]_vars PROVE ClaimInv'
  OBVIOUS
<1>1. CASE Crash
  <2>1. Quiet
    BY <1>1 DEF Crash, Quiet, Unfinished, Critical, clusterVars
  <2> QED
    BY <2>1, QuietKeepsClaimInv
<1>2. ASSUME NEW d \in DataExports,
             Delete(d) \/ AcquireLock(d) \/ Continue(d) \/ WorkerFails(d)
      PROVE  ClaimInv'
  <2>1. CASE AcquireLock(d)
    BY <2>1, LockKeepsClaimInv
  <2>2. CASE CheckJob(d)
    BY <2>2, CheckKeepsClaimInv
  <2>3. CASE CreateJob(d)
    BY <2>3, CreateJobKeepsClaimInv
  <2>4. CASE StartFails(d)
    BY <2>4, StartFailsKeepsClaimInv
  <2>5. CASE \/ Delete(d) \/ RecordSnapshotPVC(d) \/ CreateCredentialsSecret(d)
             \/ SetupServiceAccount(d) \/ RecordTransfer(d) \/ RecordFailure(d)
             \/ PollFails(d) \/ LoseUpdate(d)
    BY <2>5, LifeIsQuiet, SnapshotStagesAreQuiet, TransferStagesAreQuiet,
       QuietKeepsClaimInv DEF Replies
  <2>6. CASE \/ CleanUpSnapshot(d) \/ DeleteCertificateSecret(d)
             \/ DeleteVolumeBackup(d) \/ DeleteCredentialsSecret(d)
             \/ CleanServiceAccount(d) \/ DeleteJob(d) \/ FinishCleanUp(d)
             \/ CleanUpBlocked(d) \/ CleanUpFails(d)
    BY <2>6, CleanUpIsQuiet, QuietKeepsClaimInv
  <2> QED
    BY <1>2, <2>1, <2>2, <2>3, <2>4, <2>5, <2>6 DEF Continue, WorkerFails
<1>3. ASSUME NEW d \in DataExports, NEW reply \in Replies, Reconcile(d, reply)
      PROVE  ClaimInv'
  BY <1>3, LifeIsQuiet, SnapshotStagesAreQuiet, TransferStagesAreQuiet,
     CleanUpIsQuiet, QuietKeepsClaimInv DEF Reconcile
<1>4. ASSUME NEW d \in DataExports, JobStep(d) \/ JobMishap(d) PROVE ClaimInv'
  BY <1>4, JobIsQuiet, QuietKeepsClaimInv DEF JobStep, JobMishap
<1>5. CASE UNCHANGED vars
  <2>1. Quiet
    BY <1>5 DEF Quiet, Unfinished, vars, workerVars, clusterVars
  <2> QED
    BY <2>1, QuietKeepsClaimInv
<1> QED
  BY <1>1, <1>2, <1>3, <1>4, <1>5 DEF Next

\* The mutex of a driver is held by one worker, and what its holder has seen of
\* the jobs in a claim stays true until it creates its own.
THEOREM ClaimInvHolds == Spec => []ClaimInv
BY TypeCorrect, InitClaimInv, NextClaimInv, PTL DEF Spec

\* Two backups of one claim never have jobs at the same time: StartJob looks
\* and creates under one mutex, and cleanUp, crashes and failed calls never
\* make a job.
THEOREM OneJob == Spec => []OneJobPerClaim
<1>1. ClaimInv => OneJobPerClaim
  BY DEF ClaimInv
<1> QED
  BY ClaimInvHolds, <1>1, PTL

-----------------------------------------------------------------------------
(* The limit of a driver's jobs                                            *)

NoNewJob ==
  \A e \in DataExports :
    /\ pc'[e] \in {"sa", "create"} => pc[e] \in {"sa", "create"}
    /\ Unfinished(e)' => Unfinished(e)

\* A worker past the check of the limit finds room for its job.
LimitInv ==
  /\ JobLimitRespected
  /\ \A d \in DataExports :
       pc[d] \in {"sa", "create"} => JobCount(SameKind(d)) < JobLimit

LEMMA KindsAreSets ==
  /\ Backups \subseteq DataExports /\ Restores \subseteq DataExports
  /\ \A d \in DataExports :
       SameKind(d) \in {Backups, Restores} /\ d \in SameKind(d)
  /\ Backups \cap Restores = {}
BY KindsAssumption DEF SameKind, Backups

LEMMA CountShrinks ==
  ASSUME IsFiniteSet(DataExports), NEW K \in SUBSET DataExports,
         \A e \in K : Unfinished(e)' => Unfinished(e)
  PROVE  /\ JobCount(K) \in Nat /\ JobCount(K)' \in Nat
         /\ JobCount(K)' <= JobCount(K)
<1> DEFINE open   == {e \in K : job[e] \notin {"none", "complete", "reaped"}}
           opened == {e \in K : job'[e] \notin {"none", "complete", "reaped"}}
<1>1. open \in SUBSET DataExports /\ opened \in SUBSET open
  BY DEF Unfinished
<1>2. IsFiniteSet(open)
  BY <1>1, FS_Subset
<1>3. /\ IsFiniteSet(opened) /\ Cardinality(opened) <= Cardinality(open)
      /\ Cardinality(open) \in Nat /\ Cardinality(opened) \in Nat
  BY <1>1, <1>2, FS_Subset, FS_CardinalityType
<1> QED
  BY <1>3 DEF JobCount

LEMMA CountGrowsByOne ==
  ASSUME IsFiniteSet(DataExports), NEW K \in SUBSET DataExports, NEW d \in K,
         \A e \in K \ {d} : job'[e] = job[e]
  PROVE  /\ JobCount(K) \in Nat /\ JobCount(K)' \in Nat
         /\ JobCount(K)' <= JobCount(K) + 1
<1> DEFINE open   == {e \in K : job[e] \notin {"none", "complete", "reaped"}}
           opened == {e \in K : job'[e] \notin {"none", "complete", "reaped"}}
<1>1. open \in SUBSET DataExports /\ opened \in SUBSET (open \cup {d})
  OBVIOUS
<1>2. IsFiniteSet(open)
  BY <1>1, FS_Subset
<1>3. /\ IsFiniteSet(open \cup {d})
      /\ Cardinality(open \cup {d}) <= Cardinality(open) + 1
      /\ Cardinality(open) \in Nat
  <2>1. Cardinality(open) \in Nat
    BY <1>2, FS_CardinalityType
  <2>2. /\ IsFiniteSet(open \cup {d})
        /\ Cardinality(open \cup {d}) =
             IF d \in open THEN Cardinality(open) ELSE Cardinality(open) + 1
    BY <1>2, FS_AddElement, Zenon
  <2> HIDE DEF open
  <2> QED
    BY <2>1, <2>2
<1>4. /\ IsFiniteSet(opened)
      /\ Cardinality(opened) <= Cardinality(open \cup {d})
  BY <1>1, <1>3, FS_Subset
<1>5. Cardinality(opened) \in Nat /\ Cardinality(open \cup {d}) \in Nat
  BY <1>3, <1>4, FS_CardinalityType
<1> QED
  BY <1>3, <1>4, <1>5 DEF JobCount

LEMMA NoNewJobKeepsLimit ==
  ASSUME IsFiniteSet(DataExports), LimitInv, NoNewJob
  PROVE  LimitInv'
<1>1. ASSUME NEW K \in {Backups, Restores}
      PROVE  /\ JobCount(K) \in Nat /\ JobCount(K)' \in Nat
             /\ JobCount(K)' <= JobCount(K)
  <2>1. K \in SUBSET DataExports
    BY KindsAreSets
  <2>2. \A e \in K : Unfinished(e)' => Unfinished(e)
    BY <2>1 DEF NoNewJob
  <2> QED
    BY <2>1, <2>2, CountShrinks
<1>2. JobLimitRespected'
  BY <1>1, BoundAssumption DEF LimitInv, JobLimitRespected
<1>3. ASSUME NEW e \in DataExports, pc'[e] \in {"sa", "create"}
      PROVE  JobCount(SameKind(e))' < JobLimit
  <2>1. JobCount(SameKind(e)) < JobLimit
    BY <1>3 DEF NoNewJob, LimitInv
  <2> QED
    BY <1>1, <2>1, KindsAreSets, BoundAssumption
<1> QED
  BY <1>2, <1>3 DEF LimitInv, SameKind, Backups

\* Only the worker that holds the mutex may add a job, and it has seen room.
LEMMA CreateKeepsLimit ==
  ASSUME IsFiniteSet(DataExports), TypeOK, ClaimInv, LimitInv,
         NEW d \in DataExports, pc[d] = "create",
         NEW label \in {"started", "failed"}, pc' = [pc EXCEPT ![d] = label],
         \A e \in DataExports \ {d} : job'[e] = job[e]
  PROVE  LimitInv'
<1> DEFINE K == SameKind(d)
<1>1. K \in SUBSET DataExports /\ d \in K /\ JobCount(K) < JobLimit
  BY KindsAreSets DEF LimitInv
<1>2. /\ JobCount(K) \in Nat /\ JobCount(K)' \in Nat
      /\ JobCount(K)' <= JobCount(K) + 1
  BY <1>1, CountGrowsByOne
<1>3. JobCount(K)' <= JobLimit
  BY <1>1, <1>2, BoundAssumption
<1>4. ASSUME NEW L \in {Backups, Restores}, L # K
      PROVE  /\ JobCount(L) \in Nat /\ JobCount(L)' \in Nat
             /\ JobCount(L)' <= JobCount(L)
  <2>1. L \in SUBSET DataExports
    BY KindsAreSets
  <2>2. d \notin L
    BY <1>4 DEF SameKind, Backups
  <2>3. \A e \in L : Unfinished(e)' => Unfinished(e)
    BY <2>1, <2>2 DEF Unfinished
  <2> QED
    BY <2>1, <2>3, CountShrinks
<1>5. JobLimitRespected'
  BY <1>3, <1>4, KindsAreSets, BoundAssumption DEF LimitInv, JobLimitRespected
<1>6. ASSUME NEW e \in DataExports, pc'[e] \in {"sa", "create"}
      PROVE  JobCount(SameKind(e))' < JobLimit
  <2>1. e # d /\ pc[e] \in {"sa", "create"}
    BY <1>6 DEF TypeOK
  <2>2. SameKind(e) # K
    <3> SUFFICES ASSUME SameKind(e) = K PROVE FALSE
      OBVIOUS
    <3>1. pc[d] \in Critical /\ e \in K
      BY KindsAreSets DEF Critical
    <3>2. pc[e] \notin Critical
      BY <2>1, <3>1 DEF ClaimInv, MutualExclusion
    <3> QED
      BY <2>1, <3>2 DEF Critical
  <2>3. JobCount(SameKind(e)) < JobLimit
    BY <2>1 DEF LimitInv
  <2> QED
    BY <1>4, <2>2, <2>3, KindsAreSets, BoundAssumption
<1> QED
  BY <1>5, <1>6 DEF LimitInv, SameKind, Backups

LEMMA CheckKeepsLimit ==
  ASSUME IsFiniteSet(DataExports), TypeOK, LimitInv, NEW d \in DataExports,
         CheckJob(d)
  PROVE  LimitInv'
<1>1. job' = job /\ pc[d] = "check"
  BY DEF CheckJob, clusterVars
<1>2. \A e \in DataExports \ {d} : pc'[e] = pc[e]
  BY DEF CheckJob, Goto, TypeOK
<1>3. CanJobBeScheduled(d) \/ pc'[d] \notin {"sa", "create"}
  <2> SUFFICES ASSUME ~CanJobBeScheduled(d)
               PROVE  pc'[d] \notin {"sa", "create"}
    OBVIOUS
  <2>1. pc' = [pc EXCEPT ![d] = IF d \in Backups /\ job[d] # "none"
                                THEN "started" ELSE "idle"]
    BY DEF CheckJob, Goto
  <2> QED
    BY <2>1 DEF TypeOK
<1>4. \A K : JobCount(K)' = JobCount(K)
  BY <1>1 DEF JobCount
<1> QED
  BY <1>2, <1>3, <1>4 DEF LimitInv, JobLimitRespected, CanJobBeScheduled,
     SameKind, Backups

LEMMA InitLimitInv == IsFiniteSet(DataExports) /\ Init => LimitInv
<1> SUFFICES ASSUME Init PROVE LimitInv
  OBVIOUS
<1>1. ASSUME NEW K \in {Backups, Restores} PROVE JobCount(K) = 0
  <2>1. {e \in K : job[e] \notin {"none", "complete", "reaped"}} = {}
    BY KindsAreSets DEF Init
  <2> QED
    BY <2>1, FS_EmptySet DEF JobCount
<1>2. \A d \in DataExports : pc[d] = "idle"
  BY DEF Init
<1> QED
  BY <1>1, <1>2, BoundAssumption DEF LimitInv, JobLimitRespected

LEMMA NextLimitInv ==
  ASSUME IsFiniteSet(DataExports), TypeOK, ClaimInv, LimitInv, [Next]_vars
  PROVE  LimitInv'
<1>1. Quiet => LimitInv'
  BY NoNewJobKeepsLimit DEF Quiet, NoNewJob
<1>2. CASE Crash
  <2>1. Quiet
    BY <1>2 DEF Crash, Quiet, Unfinished, Critical, clusterVars
  <2> QED
    BY <1>1, <2>1
<1>3. ASSUME NEW d \in DataExports,
             Delete(d) \/ AcquireLock(d) \/ Continue(d) \/ WorkerFails(d)
      PROVE  LimitInv'
  <2>1. CASE AcquireLock(d)
    <3>1. NoNewJob
      BY <2>1 DEF AcquireLock, Goto, NoNewJob, Unfinished, TypeOK, clusterVars
    <3> QED
      BY <3>1, NoNewJobKeepsLimit
  <2>2. CASE CheckJob(d)
    BY <2>2, CheckKeepsLimit
  <2>3. CASE CreateJob(d)
    <3>1. \A e \in DataExports \ {d} : job'[e] = job[e]
      BY <2>3 DEF CreateJob, TypeOK
    <3> QED
      BY <2>3, <3>1, CreateKeepsLimit DEF CreateJob, Goto
  <2>4. CASE StartFails(d)
    <3>1. CASE pc[d] = "create"
      <4>1. \A e \in DataExports \ {d} : job'[e] = job[e]
        BY <2>4 DEF StartFails, TypeOK
      <4> QED
        BY <2>4, <3>1, <4>1, CreateKeepsLimit DEF StartFails, Goto
    <3>2. CASE pc[d] # "create"
      <4>1. job' = job
        BY <2>4, <3>2 DEF StartFails, TypeOK
      <4>2. NoNewJob
        BY <2>4, <4>1 DEF StartFails, Goto, NoNewJob, Unfinished, TypeOK
      <4> QED
        BY <4>2, NoNewJobKeepsLimit
    <3> QED
      BY <3>1, <3>2
  <2>5. CASE \/ Delete(d) \/ RecordSnapshotPVC(d) \/ CreateCredentialsSecret(d)
             \/ SetupServiceAccount(d) \/ RecordTransfer(d) \/ RecordFailure(d)
             \/ PollFails(d) \/ LoseUpdate(d)
    BY <1>1, <2>5, LifeIsQuiet, SnapshotStagesAreQuiet, TransferStagesAreQuiet
       DEF Replies
  <2>6. CASE \/ CleanUpSnapshot(d) \/ DeleteCertificateSecret(d)
             \/ DeleteVolumeBackup(d) \/ DeleteCredentialsSecret(d)
             \/ CleanServiceAccount(d) \/ DeleteJob(d) \/ FinishCleanUp(d)
             \/ CleanUpBlocked(d) \/ CleanUpFails(d)
    BY <1>1, <2>6, CleanUpIsQuiet
  <2> QED
    BY <1>3, <2>1, <2>2, <2>3, <2>4, <2>5, <2>6 DEF Continue, WorkerFails
<1>4. ASSUME NEW d \in DataExports, NEW reply \in Replies, Reconcile(d, reply)
      PROVE  LimitInv'
  BY <1>1, <1>4, LifeIsQuiet, SnapshotStagesAreQuiet, TransferStagesAreQuiet,
     CleanUpIsQuiet DEF Reconcile
<1>5. ASSUME NEW d \in DataExports, JobStep(d) \/ JobMishap(d) PROVE LimitInv'
  BY <1>1, <1>5, JobIsQuiet DEF JobStep, JobMishap
<1>6. CASE UNCHANGED vars
  <2>1. Quiet
    BY <1>6 DEF Quiet, Unfinished, vars, workerVars, clusterVars
  <2> QED
    BY <1>1, <2>1
<1> QED
  BY <1>2, <1>3, <1>4, <1>5, <1>6 DEF Next

\* The jobs of a driver stay within its limit: the worker that holds the mutex
\* has counted them, and until it creates its own their number only falls.
THEOREM LimitIsRespected ==
  ASSUME IsFiniteSet(DataExports)
  PROVE  Spec => []JobLimitRespected
<1>1. Init => LimitInv
  BY InitLimitInv
<1>2. TypeOK /\ ClaimInv /\ LimitInv /\ [Next]_vars => LimitInv'
  BY NextLimitInv
<1>3. LimitInv => JobLimitRespected
  BY DEF LimitInv
<1> QED
  BY <1>1, <1>2, <1>3, TypeCorrect, ClaimInvHolds, PTL DEF Spec

=============================================================================
