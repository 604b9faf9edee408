-------------------------- MODULE ClaimTransferProofs --------------------------
(***************************************************************************)
(* Proofs about ClaimTransfer for any number of DataExports and claims, in *)
(* any mix of kinds, and any number of faults.  The drivers share jobs,    *)
(* accounts and secrets without a lock; that nothing is left in the end    *)
(* rests on a debt: whatever exists, some DataExport has yet to delete.    *)
(***************************************************************************)
EXTENDS ClaimTransfer, TLAPS

\* Only the drivers of restic have a secret.
SecretInv ==
  \A d \in DataExports : pc[d] \in {"secret", "delsecret"} => d \in Restics

TypeInv == TypeOK /\ SecretInv

\* What holds of a DataExport by itself.  A worker in StartJob has its object in
\* that stage, still without a verdict; a transfer is recorded once, at the end of
\* StartJob; a worker is busy only for an object that exists, and does not look
\* at one without a finalizer.
OwnInv(d) ==
  /\ pc[d] \in Starting \cup {"started", "failed"} =>
       stage[d] = "TransferScheduled" /\ status[d] \notin {"Successful", "Failed"}
  /\ d \in transferID =>
       \/ stage[d] = "TransferScheduled" /\ status[d] = "Successful"
       \/ stage[d] \in {"TransferInProgress", "Cleanup", "Final"}
  /\ pc[d] # "idle" => life[d] \in {"live", "deleting"}
  /\ life[d] = "new" => stage[d] = ""

OwnInvs == \A d \in DataExports : OwnInv(d)

\* No claim bears the name of a VolumeBackup.  Nothing in the code sees to that;
\* if one does, the secret of a restore that reads the VolumeBackup, which is
\* never deleted, has the name of the job of a restore that writes the claim.
NamesDiffer == Claims \cap VolumeBackups = {}

\* d has yet to delete what its worker is past with at the labels of past: it
\* will be removed by a cleanUp that is not there yet, or has lost the id of its
\* transfer and will never be taken for removed properly.
Owes(d, past) ==
  /\ stage[d] \notin {"", "Initial"}
  /\ \/ d \notin transferID
     \/ life[d] # "gone" /\ ~(goal[d] = "remove" /\ pc[d] \in past)

PastJob(d) == IF d \in Rsyncs THEN {"delsa", "cleaned"} ELSE {"cleaned"}
PastAccount(d) == IF d \in Rsyncs THEN {"cleaned"} ELSE {"deljob", "cleaned"}
PastSecret == {"delsa", "deljob", "cleaned"}

\* Whatever bears the name of a job, one of that name has yet to delete.
DebtInv ==
  \A n \in JobNames :
    /\ job[n] # "none" =>
         \E d \in DataExports : JobName(d) = n /\ Owes(d, PastJob(d))
    /\ n \in sa =>
         \E d \in DataExports : JobName(d) = n /\ Owes(d, PastAccount(d))
    /\ NamesDiffer /\ n \in secret =>
         \E d \in Restics : JobName(d) = n /\ Owes(d, PastSecret)

ClaimTransferInv == OwnInvs /\ DebtInv

-----------------------------------------------------------------------------
(* Types                                                                   *)

LEMMA NamesAreTyped ==
  ASSUME TypeOK, NEW d \in DataExports
  PROVE  /\ JobName(d) \in JobNames /\ VolumeBackup(d) \in VolumeBackups
         /\ d \in Restics => SecretName(d) \in SecretNames
<1>1. Source[d] \in Claims /\ Destination[d] \in Claims
  BY ClaimsAssumption
<1>2. VolumeBackup(d) \in VolumeBackups
  BY <1>1 DEF VolumeBackup, VolumeBackups
<1>3. JobName(d) \in JobNames
  BY <1>1 DEF JobName, JobNames
<1>4. kind[d] \in Kinds
  BY MixesAssumption DEF TypeOK
<1>5. CASE kind[d] = "restore"
  BY <1>2, <1>3, <1>5 DEF SecretName, SecretNames
<1>6. CASE kind[d] = "backup"
  <2>1. SecretName(d) = VolumeBackup(d)
    BY <1>6 DEF SecretName, JobName, VolumeBackup
  <2> QED
    BY <1>2, <1>3, <2>1 DEF SecretNames
<1>7. d \in Restics => kind[d] \in {"backup", "restore"}
  BY <1>4 DEF Restics, Rsyncs, Kinds
<1> QED
  BY <1>2, <1>3, <1>5, <1>6, <1>7

LEMMA KindsStay ==
  ASSUME UNCHANGED kind
  PROVE  /\ Rsyncs' = Rsyncs /\ Restics' = Restics
         /\ \A d \in DataExports : JobName(d)' = JobName(d)
BY DEF Rsyncs, Restics, JobName

LEMMA InitTypes == Init => TypeInv
<1> SUFFICES ASSUME Init PROVE TypeInv
  OBVIOUS
<1>1. faults \in 0..MaxFaults
  <2>1. faults = MaxFaults
    BY DEF Init
  <2> QED
    BY <2>1, BoundAssumption
<1>2. vb \in [VolumeBackups -> {"none", "empty", "saved"}]
  BY DEF Init
<1> QED
  BY <1>1, <1>2 DEF Init, TypeInv, TypeOK, SecretInv, Stages, Statuses, Labels

LEMMA FaultTypes == ASSUME TypeInv, Fault PROVE faults' \in 0..MaxFaults
BY BoundAssumption DEF TypeInv, TypeOK, Fault

LEMMA GotoTypes ==
  ASSUME TypeInv, NEW d \in DataExports, NEW label \in Labels, Goto(d, label),
         UNCHANGED kind, label \in {"secret", "delsecret"} => d \in Restics
  PROVE  /\ SecretInv' /\ pc' \in [DataExports -> Labels]
         /\ goal' \in [DataExports -> {"final", "remove"}]
BY KindsStay DEF TypeInv, TypeOK, SecretInv, Goto

LEMMA SetStatusTypes ==
  ASSUME TypeInv, NEW d \in DataExports, NEW st \in Stages, NEW s \in Statuses,
         SetStatus(d, st, s)
  PROVE  /\ stage' \in [DataExports -> Stages] /\ status' \in [DataExports -> Statuses]
         /\ UNCHANGED <<kind, life, transferID>>
BY DEF TypeInv, TypeOK, SetStatus

LEMMA RecordTypes ==
  ASSUME TypeInv, NEW d \in DataExports, NEW st \in Stages, NEW s \in Statuses,
         Record(d, st, s)
  PROVE  TypeInv'
BY SetStatusTypes, KindsStay
   DEF TypeInv, TypeOK, SecretInv, Record, workerVars, clusterVars

\* The user, the finalizer and the stage Initial.
LEMMA LifeTypes ==
  ASSUME TypeInv, NEW d \in DataExports, NEW reply,
         \/ Delete(d) \/ SetFinalizer(d) \/ EnterInitial(d) \/ DeleteInitial(d)
         \/ StageInitial(d, reply)
  PROVE  TypeInv'
<1>1. ASSUME NEW l \in {"live", "deleting", "gone"}, SetLife(d, l),
             UNCHANGED <<workerVars, clusterVars, faults>>
      PROVE  TypeInv'
  BY <1>1, KindsStay DEF SetLife, TypeInv, TypeOK, SecretInv, workerVars,
     clusterVars
<1>2. CASE Delete(d)
  BY <1>1, <1>2 DEF Delete
<1>3. CASE SetFinalizer(d)
  BY <1>1, <1>3 DEF SetFinalizer
<1>4. CASE EnterInitial(d)
  BY <1>4, RecordTypes DEF EnterInitial, Stages, Statuses
<1>5. CASE DeleteInitial(d)
  BY <1>1, <1>5 DEF DeleteInitial
<1>6. CASE StageInitial(d, reply)
  BY <1>6, RecordTypes DEF StageInitial, Stages, Statuses
<1> QED
  BY <1>2, <1>3, <1>4, <1>5, <1>6

\* The stage TransferScheduled.
LEMMA StartTypes ==
  ASSUME TypeInv, NEW d \in DataExports,
         \/ LeaveTransferScheduled(d) \/ BeginTransfer(d) \/ CreateSecret(d)
         \/ CreateServiceAccount(d) \/ AwaitToken(d) \/ CreateJob(d)
         \/ StartFails(d) \/ RecordTransfer(d) \/ RecordFailure(d)
  PROVE  TypeInv'
<1>1. {"secret", "sa", "token", "create", "started", "failed", "idle"} \subseteq Labels
  BY DEF Labels, Starting
<1>2. JobName(d) \in JobNames /\ (pc[d] = "secret" => SecretName(d) \in SecretNames)
  BY NamesAreTyped DEF TypeInv, SecretInv
<1>3. stage[d] \in Stages /\ "Failed" \in Statuses /\ "Successful" \in Statuses
  BY DEF TypeInv, TypeOK, Statuses
<1>4. CASE LeaveTransferScheduled(d)
  BY <1>4, RecordTypes DEF LeaveTransferScheduled, Stages, Statuses
<1>5. CASE BeginTransfer(d)
  BY <1>1, <1>5, GotoTypes DEF BeginTransfer, Restics, TypeInv, TypeOK, deVars,
     clusterVars
<1>6. CASE CreateSecret(d)
  BY <1>1, <1>2, <1>6, GotoTypes DEF CreateSecret, TypeInv, TypeOK, deVars
<1>7. CASE CreateServiceAccount(d)
  BY <1>1, <1>2, <1>7, GotoTypes DEF CreateServiceAccount, TypeInv, TypeOK,
     deVars
<1>8. CASE AwaitToken(d)
  BY <1>1, <1>8, GotoTypes DEF AwaitToken, TypeInv, TypeOK, deVars, clusterVars
<1>9. CASE CreateJob(d)
  BY <1>1, <1>2, <1>9, GotoTypes DEF CreateJob, TypeInv, TypeOK, deVars
<1>10. CASE StartFails(d)
  <2>1. job' \in [JobNames -> {"none", "pending", "running", "complete", "failed"}]
    BY <1>2, <1>10 DEF StartFails, TypeInv, TypeOK
  <2>2. secret' \in SUBSET SecretNames /\ sa' \in SUBSET JobNames
    BY <1>2, <1>10 DEF StartFails, TypeInv, TypeOK
  <2> QED
    BY <1>1, <1>10, <2>1, <2>2, GotoTypes, FaultTypes
       DEF StartFails, TypeInv, TypeOK, deVars
<1>11. CASE RecordTransfer(d)
  BY <1>1, <1>3, <1>11, GotoTypes DEF RecordTransfer, TypeInv, TypeOK,
     clusterVars
<1>12. CASE RecordFailure(d)
  BY <1>1, <1>3, <1>12, GotoTypes, SetStatusTypes
     DEF RecordFailure, TypeInv, TypeOK, clusterVars
<1> QED
  BY <1>4, <1>5, <1>6, <1>7, <1>8, <1>9, <1>10, <1>11, <1>12

\* The stages TransferInProgress and Cleanup, and the deletion.
LEMMA EndTypes ==
  ASSUME TypeInv, NEW d \in DataExports,
         \/ StageTransferInProgress(d) \/ PollFails(d) \/ BeginCleanUp(d)
         \/ DeleteSecret(d) \/ CleanServiceAccount(d) \/ DeleteJob(d)
         \/ FinishCleanUp(d) \/ CleanUpFails(d)
  PROVE  TypeInv'
<1>1. {"idle", "delsecret", "delsa", "deljob", "cleaned"} \subseteq Labels
  BY DEF Labels, Cleaning
<1>2. JobName(d) \in JobNames
  BY NamesAreTyped DEF TypeInv
<1>3. stage[d] \in Stages /\ status[d] \in Statuses /\ "Failed" \in Statuses
  BY DEF TypeInv, TypeOK, Statuses
<1>4. CASE StageTransferInProgress(d)
  <2>1. Answer(d) \in {"Failed", "InProgress"}
    BY DEF Answer, DriverAnswer, RsyncAnswer, BackupAnswer, RestoreAnswer,
       Backups, Restics
  <2>2. "Cleanup" \in Stages /\ Answer(d) \in Statuses
    BY <2>1 DEF Stages, Statuses
  <2> QED
    BY <1>3, <1>4, <2>2, RecordTypes DEF StageTransferInProgress
<1>5. CASE PollFails(d)
  BY <1>3, <1>5, SetStatusTypes, KindsStay, FaultTypes
     DEF PollFails, TypeInv, TypeOK, SecretInv, workerVars, clusterVars
<1>6. CASE BeginCleanUp(d)
  BY <1>1, <1>6, KindsStay
     DEF BeginCleanUp, TypeInv, TypeOK, SecretInv, Restics, deVars, clusterVars
<1>7. CASE DeleteSecret(d)
  BY <1>1, <1>7, GotoTypes DEF DeleteSecret, TypeInv, TypeOK, deVars
<1>8. CASE CleanServiceAccount(d)
  BY <1>1, <1>8, GotoTypes DEF CleanServiceAccount, TypeInv, TypeOK, deVars
<1>9. CASE DeleteJob(d)
  BY <1>1, <1>2, <1>9, GotoTypes DEF DeleteJob, TypeInv, TypeOK, deVars
<1>10. CASE FinishCleanUp(d)
  <2>1. CASE goal[d] = "final"
    <3>1. SetStatus(d, "Final", status[d]) /\ "Final" \in Stages
      BY <1>10, <2>1 DEF FinishCleanUp, Stages
    <3> QED
      BY <1>1, <1>3, <1>10, <3>1, GotoTypes, SetStatusTypes
         DEF FinishCleanUp, TypeInv, TypeOK, clusterVars
  <2>2. CASE goal[d] # "final"
    BY <1>1, <1>10, <2>2, GotoTypes
       DEF FinishCleanUp, SetLife, TypeInv, TypeOK, clusterVars
  <2> QED
    BY <2>1, <2>2
<1>11. CASE CleanUpFails(d)
  <2>1. CASE SetStatus(d, "Final", "Failed") /\ Goto(d, "idle")
    <3>1. "Final" \in Stages
      BY DEF Stages
    <3> QED
      BY <1>1, <1>3, <1>11, <2>1, <3>1, GotoTypes, SetStatusTypes, FaultTypes
         DEF CleanUpFails, TypeInv, TypeOK, clusterVars
  <2>2. CASE UNCHANGED deVars
    BY <1>1, <1>11, <2>2, GotoTypes, FaultTypes
       DEF CleanUpFails, TypeInv, TypeOK, Restics, deVars, clusterVars
  <2> QED
    BY <1>11, <2>1, <2>2 DEF CleanUpFails
<1> QED
  BY <1>4, <1>5, <1>6, <1>7, <1>8, <1>9, <1>10, <1>11

\* The jobs, and a crash.
LEMMA JobTypes ==
  ASSUME TypeInv,
         \/ Crash
         \/ \E d \in DataExports : JobStep(d)
         \/ \E n \in JobNames : EmptyVolumeBackup(n) \/ MoveData(n)
  PROVE  TypeInv'
<1>1. CASE Crash
  BY <1>1, KindsStay, FaultTypes
     DEF Crash, TypeInv, TypeOK, SecretInv, Labels, deVars, clusterVars
<1>2. ASSUME NEW n \in JobNames, NEW from,
             NEW to \in {"running", "complete", "failed"}, SetJob(n, from, to)
      PROVE  TypeInv'
  BY <1>2, KindsStay DEF SetJob, TypeInv, TypeOK, SecretInv, deVars, workerVars
<1>3. ASSUME NEW d \in DataExports, JobStep(d) PROVE TypeInv'
  <2>1. JobName(d) \in JobNames
    BY NamesAreTyped DEF TypeInv
  <2> QED
    BY <1>2, <1>3, <2>1 DEF JobStep, StartPod, CompleteJob, FailJob
<1>4. ASSUME NEW n \in JobNames, EmptyVolumeBackup(n) PROVE TypeInv'
  BY <1>4, KindsStay DEF EmptyVolumeBackup, SetVolumeBackup, TypeInv, TypeOK,
     SecretInv, deVars, workerVars
<1>5. ASSUME NEW n \in JobNames, MoveData(n) PROVE TypeInv'
  BY <1>5, KindsStay DEF MoveData, SetVolumeBackup, TypeInv, TypeOK, SecretInv,
     deVars, workerVars
<1> QED
  BY <1>1, <1>3, <1>4, <1>5

LEMMA NextTypes == TypeInv /\ [Next]_vars => TypeInv'
<1> SUFFICES ASSUME TypeInv, [Next]_vars PROVE TypeInv'
  OBVIOUS
<1>1. CASE UNCHANGED vars
  BY <1>1, KindsStay DEF TypeInv, TypeOK, SecretInv, vars, deVars, workerVars,
     clusterVars
<1>2. CASE Next
  BY <1>2, LifeTypes, StartTypes, EndTypes, JobTypes
     DEF Next, Reconcile, Continue, WorkerFails
<1> QED
  BY <1>1, <1>2

-----------------------------------------------------------------------------
(* A DataExport by itself                                                  *)

OthersStay(d) ==
  \A e \in DataExports \ {d} :
    /\ life'[e] = life[e] /\ stage'[e] = stage[e] /\ status'[e] = status[e]
    /\ pc'[e] = pc[e] /\ goal'[e] = goal[e]
    /\ e \in transferID' <=> e \in transferID

\* One step of FailureIsFinal.
FailureStays(d) ==
  status[d] = "Failed" /\ stage[d] \notin {"", "Initial"} => status'[d] = "Failed"

LEMMA RecordEffect ==
  ASSUME TypeInv, NEW d \in DataExports, NEW st, NEW s, SetStatus(d, st, s)
  PROVE  /\ stage'[d] = st /\ status'[d] = s /\ UNCHANGED <<kind, life, transferID>>
         /\ \A e \in DataExports \ {d} : stage'[e] = stage[e] /\ status'[e] = status[e]
BY DEF SetStatus, TypeInv, TypeOK

LEMMA LifeEffect ==
  ASSUME TypeInv, NEW d \in DataExports, NEW l, SetLife(d, l)
  PROVE  /\ life'[d] = l /\ UNCHANGED <<kind, stage, status, transferID>>
         /\ \A e \in DataExports \ {d} : life'[e] = life[e]
BY DEF SetLife, TypeInv, TypeOK

LEMMA GotoEffect ==
  ASSUME TypeInv, NEW d \in DataExports, NEW label, Goto(d, label)
  PROVE  /\ pc'[d] = label /\ UNCHANGED goal
         /\ \A e \in DataExports \ {d} : pc'[e] = pc[e]
BY DEF Goto, TypeInv, TypeOK

\* The user, the finalizer and the stage Initial.
LEMMA LifeIsOwn ==
  ASSUME TypeInv, NEW d \in DataExports, OwnInv(d), NEW reply,
         \/ Delete(d) \/ SetFinalizer(d) \/ EnterInitial(d) \/ DeleteInitial(d)
         \/ StageInitial(d, reply)
  PROVE  OthersStay(d) /\ OwnInv(d)' /\ FailureStays(d)
<1> USE DEF OthersStay, OwnInv, FailureStays, workerVars
<1>1. CASE Delete(d)
  <2>1. life[d] \in {"new", "live"} /\ UNCHANGED workerVars
    BY <1>1 DEF Delete
  <2>2. CASE life[d] = "new"
    BY <1>1, <2>1, <2>2, LifeEffect DEF Delete, Starting
  <2>3. CASE life[d] = "live"
    <3>1. SetLife(d, "deleting")
      BY <1>1, <2>3 DEF Delete
    <3>2. /\ life'[d] = "deleting" /\ UNCHANGED <<stage, status, transferID>>
          /\ \A e \in DataExports \ {d} : life'[e] = life[e]
      BY <3>1, LifeEffect
    <3> QED
      BY <2>1, <3>2
  <2> QED
    BY <2>1, <2>2, <2>3
<1>2. CASE SetFinalizer(d)
  BY <1>2, LifeEffect DEF SetFinalizer, Starting
<1>3. CASE EnterInitial(d)
  BY <1>3, RecordEffect DEF EnterInitial, Record, Starting
<1>4. CASE DeleteInitial(d)
  <2>1. SetLife(d, "gone") /\ UNCHANGED workerVars /\ pc[d] = "idle"
    BY <1>4 DEF DeleteInitial
  <2>2. /\ life'[d] = "gone" /\ UNCHANGED <<stage, status, transferID>>
        /\ \A e \in DataExports \ {d} : life'[e] = life[e]
    BY <2>1, LifeEffect
  <2> QED
    BY <2>1, <2>2 DEF Starting
<1>5. CASE StageInitial(d, reply)
  BY <1>5, RecordEffect DEF StageInitial, Record, At, Starting
<1> QED
  BY <1>1, <1>2, <1>3, <1>4, <1>5

\* The stage TransferScheduled.
LEMMA StartIsOwn ==
  ASSUME TypeInv, NEW d \in DataExports, OwnInv(d),
         \/ LeaveTransferScheduled(d) \/ BeginTransfer(d) \/ CreateSecret(d)
         \/ CreateServiceAccount(d) \/ AwaitToken(d) \/ CreateJob(d)
         \/ StartFails(d) \/ RecordTransfer(d) \/ RecordFailure(d)
  PROVE  OthersStay(d) /\ OwnInv(d)' /\ FailureStays(d)
<1> USE DEF OthersStay, OwnInv, FailureStays
<1>1. CASE LeaveTransferScheduled(d)
  BY <1>1, RecordEffect DEF LeaveTransferScheduled, Record, At, Starting,
     workerVars
<1>2. CASE BeginTransfer(d)
  BY <1>2, GotoEffect DEF BeginTransfer, At, Starting, deVars
<1>3. ASSUME NEW from \in Starting, pc[d] = from,
             NEW to \in Starting \cup {"started", "failed"}, Goto(d, to),
             UNCHANGED deVars
      PROVE  OthersStay(d) /\ OwnInv(d)' /\ FailureStays(d)
  BY <1>3, GotoEffect DEF Starting, deVars
<1>4. CASE CreateSecret(d)
  BY <1>3, <1>4 DEF CreateSecret, Starting
<1>5. CASE CreateServiceAccount(d)
  BY <1>3, <1>5 DEF CreateServiceAccount, Starting
<1>6. CASE AwaitToken(d)
  BY <1>3, <1>6 DEF AwaitToken, Starting
<1>7. CASE CreateJob(d)
  BY <1>3, <1>7 DEF CreateJob, Starting
<1>8. CASE StartFails(d)
  BY <1>3, <1>8 DEF StartFails
<1>9. CASE RecordTransfer(d)
  BY <1>9, GotoEffect DEF RecordTransfer, TypeInv, TypeOK, Starting
<1>10. CASE RecordFailure(d)
  <2>1. pc'[d] = "idle" /\ SetStatus(d, stage[d], "Failed") /\ pc[d] = "failed"
    BY <1>10, GotoEffect DEF RecordFailure
  <2>2. /\ stage'[d] = stage[d] /\ status'[d] = "Failed"
        /\ UNCHANGED <<life, transferID, goal>>
    BY <1>10, <2>1, RecordEffect, GotoEffect DEF RecordFailure
  <2>3. OthersStay(d)
    BY <1>10, <2>1, <2>2, RecordEffect, GotoEffect DEF RecordFailure
  <2>4. d \notin transferID
    BY <2>1
  <2> QED
    BY <2>1, <2>2, <2>3, <2>4 DEF Starting
<1> QED
  BY <1>1, <1>2, <1>4, <1>5, <1>6, <1>7, <1>8, <1>9, <1>10

\* The stages TransferInProgress and Cleanup, and the deletion.
LEMMA EndIsOwn ==
  ASSUME TypeInv, NEW d \in DataExports, OwnInv(d),
         \/ StageTransferInProgress(d) \/ PollFails(d) \/ BeginCleanUp(d)
         \/ DeleteSecret(d) \/ CleanServiceAccount(d) \/ DeleteJob(d)
         \/ FinishCleanUp(d) \/ CleanUpFails(d)
  PROVE  OthersStay(d) /\ OwnInv(d)' /\ FailureStays(d)
<1> USE DEF OthersStay, OwnInv, FailureStays
<1>1. CASE StageTransferInProgress(d)
  BY <1>1, RecordEffect DEF StageTransferInProgress, Record, At, Starting,
     workerVars
<1>2. CASE PollFails(d)
  BY <1>2, RecordEffect DEF PollFails, At, Starting, workerVars
<1>3. CASE BeginCleanUp(d)
  <2>1. /\ pc'[d] \in {"cleaned", "deljob", "delsecret"} /\ UNCHANGED deVars
        /\ \A e \in DataExports \ {d} : pc'[e] = pc[e] /\ goal'[e] = goal[e]
    BY <1>3 DEF BeginCleanUp, TypeInv, TypeOK
  <2> QED
    BY <1>3, <2>1 DEF BeginCleanUp, Starting, deVars
<1>4. ASSUME pc[d] # "idle", NEW to \in Cleaning \cup {"idle", "cleaned"}, Goto(d, to),
             UNCHANGED deVars
      PROVE  OthersStay(d) /\ OwnInv(d)' /\ FailureStays(d)
  BY <1>4, GotoEffect DEF Starting, Cleaning, deVars
<1>5. CASE DeleteSecret(d)
  BY <1>4, <1>5 DEF DeleteSecret, Cleaning
<1>6. CASE CleanServiceAccount(d)
  BY <1>4, <1>6 DEF CleanServiceAccount, Cleaning
<1>7. CASE DeleteJob(d)
  BY <1>4, <1>7 DEF DeleteJob, Cleaning
<1>8. CASE FinishCleanUp(d)
  <2>1. /\ pc[d] = "cleaned" /\ pc'[d] = "idle" /\ UNCHANGED goal
        /\ \A e \in DataExports \ {d} : pc'[e] = pc[e]
    BY <1>8, GotoEffect DEF FinishCleanUp
  <2>2. CASE goal[d] = "final"
    <3>1. SetStatus(d, "Final", status[d])
      BY <1>8, <2>2 DEF FinishCleanUp
    <3>2. /\ stage'[d] = "Final" /\ status'[d] = status[d]
          /\ UNCHANGED <<life, transferID>>
      BY <3>1, RecordEffect
    <3>3. OthersStay(d)
      BY <2>1, <3>1, <3>2, RecordEffect
    <3> QED
      BY <2>1, <3>2, <3>3 DEF Starting
  <2>3. CASE goal[d] # "final"
    <3>1. SetLife(d, "gone")
      BY <1>8, <2>3 DEF FinishCleanUp
    <3>2. /\ life'[d] = "gone" /\ UNCHANGED <<stage, status, transferID>>
          /\ \A e \in DataExports \ {d} : life'[e] = life[e]
      BY <3>1, LifeEffect
    <3> QED
      BY <2>1, <3>2 DEF Starting
  <2> QED
    BY <2>2, <2>3
<1>9. CASE CleanUpFails(d)
  <2>1. CASE SetStatus(d, "Final", "Failed") /\ Goto(d, "idle")
    <3>1. /\ pc[d] # "idle" /\ pc'[d] = "idle" /\ UNCHANGED goal
          /\ \A e \in DataExports \ {d} : pc'[e] = pc[e]
      BY <1>9, <2>1, GotoEffect DEF CleanUpFails, Cleaning
    <3>2. /\ stage'[d] = "Final" /\ status'[d] = "Failed"
          /\ UNCHANGED <<life, transferID>>
      BY <2>1, RecordEffect
    <3>3. OthersStay(d)
      BY <2>1, <3>1, <3>2, RecordEffect
    <3> QED
      BY <3>1, <3>2, <3>3 DEF Starting
  <2>2. CASE UNCHANGED deVars
    BY <1>4, <1>9, <2>2 DEF CleanUpFails, Cleaning
  <2> QED
    BY <1>9, <2>1, <2>2 DEF CleanUpFails
<1> QED
  BY <1>1, <1>2, <1>3, <1>5, <1>6, <1>7, <1>8, <1>9

LEMMA OwnIsLocal ==
  ASSUME OwnInvs, NEW d \in DataExports, OthersStay(d), OwnInv(d)', FailureStays(d)
  PROVE  OwnInvs' /\ \A e \in DataExports : FailureStays(e)
BY DEF OwnInvs, OwnInv, OthersStay, FailureStays

\* What the cluster does is nothing to the objects.
LEMMA JobIsOwn ==
  ASSUME TypeInv, OwnInvs,
         \/ Crash
         \/ \E d \in DataExports : JobStep(d)
         \/ \E n \in JobNames : EmptyVolumeBackup(n) \/ MoveData(n)
  PROVE  /\ UNCHANGED deVars /\ goal' = goal
         /\ pc' = pc \/ \A d \in DataExports : pc'[d] = "idle"
         /\ OwnInvs'
<1>1. UNCHANGED deVars /\ goal' = goal
  BY DEF Crash, JobStep, StartPod, CompleteJob, FailJob, SetJob,
     EmptyVolumeBackup, MoveData, SetVolumeBackup, workerVars
<1>2. pc' = pc \/ \A d \in DataExports : pc'[d] = "idle"
  BY DEF Crash, JobStep, StartPod, CompleteJob, FailJob, SetJob,
     EmptyVolumeBackup, MoveData, SetVolumeBackup, workerVars
<1>3. OwnInvs'
  BY <1>1, <1>2 DEF OwnInvs, OwnInv, deVars, Starting
<1> QED
  BY <1>1, <1>2, <1>3

-----------------------------------------------------------------------------
(* What has yet to be deleted                                              *)

DebtsStay(d) ==
  /\ Owes(d, PastJob(d)) => Owes(d, PastJob(d))'
  /\ Owes(d, PastAccount(d)) => Owes(d, PastAccount(d))'
  /\ Owes(d, PastSecret) => Owes(d, PastSecret)'

\* A step of d keeps the books: what it creates it owes, and what it owes no more
\* is not there.
LEMMA DebtIsKept ==
  ASSUME TypeInv, DebtInv, NEW d \in DataExports, OthersStay(d), UNCHANGED kind,
         \A n \in JobNames : job'[n] # "none" =>
           job[n] # "none" \/ (n = JobName(d) /\ Owes(d, PastJob(d))'),
         \A n \in JobNames : n \in sa' =>
           n \in sa \/ (n = JobName(d) /\ Owes(d, PastAccount(d))'),
         \A n \in JobNames : NamesDiffer /\ n \in secret' =>
           n \in secret \/ (n = JobName(d) /\ d \in Restics /\ Owes(d, PastSecret)'),
         job'[JobName(d)] # "none" /\ Owes(d, PastJob(d)) => Owes(d, PastJob(d))',
         JobName(d) \in sa' /\ Owes(d, PastAccount(d)) => Owes(d, PastAccount(d))',
         d \in Restics /\ JobName(d) \in secret' /\ Owes(d, PastSecret)
           => Owes(d, PastSecret)'
  PROVE  DebtInv'
<1>1. /\ Rsyncs' = Rsyncs /\ Restics' = Restics
      /\ \A e \in DataExports : JobName(e)' = JobName(e)
  BY KindsStay
<1>2. ASSUME NEW e \in DataExports \ {d}
      PROVE  /\ Owes(e, PastJob(e))' <=> Owes(e, PastJob(e))
             /\ Owes(e, PastAccount(e))' <=> Owes(e, PastAccount(e))
             /\ Owes(e, PastSecret)' <=> Owes(e, PastSecret)
  BY <1>1 DEF OthersStay, Owes, PastJob, PastAccount, PastSecret
<1>3. JobNames' = JobNames /\ NamesDiffer' = NamesDiffer
  BY DEF JobNames, NamesDiffer, VolumeBackups
<1>4. ASSUME NEW n \in JobNames, job'[n] # "none"
      PROVE  \E e \in DataExports : JobName(e) = n /\ Owes(e, PastJob(e))'
  <2>1. CASE n = JobName(d) /\ Owes(d, PastJob(d))'
    BY <2>1
  <2>2. CASE job[n] # "none"
    <3>1. PICK e \in DataExports : JobName(e) = n /\ Owes(e, PastJob(e))
      BY <2>2 DEF DebtInv
    <3> QED
      BY <1>2, <1>4, <3>1
  <2> QED
    BY <1>4, <2>1, <2>2
<1>5. ASSUME NEW n \in JobNames, n \in sa'
      PROVE  \E e \in DataExports : JobName(e) = n /\ Owes(e, PastAccount(e))'
  <2>1. CASE n = JobName(d) /\ Owes(d, PastAccount(d))'
    BY <2>1
  <2>2. CASE n \in sa
    <3>1. PICK e \in DataExports : JobName(e) = n /\ Owes(e, PastAccount(e))
      BY <2>2 DEF DebtInv
    <3> QED
      BY <1>2, <1>5, <3>1
  <2> QED
    BY <1>5, <2>1, <2>2
<1>6. ASSUME NEW n \in JobNames, NamesDiffer, n \in secret'
      PROVE  \E e \in Restics : JobName(e) = n /\ Owes(e, PastSecret)'
  <2>1. CASE n = JobName(d) /\ d \in Restics /\ Owes(d, PastSecret)'
    BY <2>1
  <2>2. CASE n \in secret
    <3>1. PICK e \in Restics : JobName(e) = n /\ Owes(e, PastSecret)
      BY <1>6, <2>2 DEF DebtInv
    <3>2. e \in DataExports
      BY DEF Restics
    <3> QED
      BY <1>2, <1>6, <3>1, <3>2
  <2> QED
    BY <1>6, <2>1, <2>2
<1>7. Restics \subseteq DataExports
  BY DEF Restics
<1> QED
  BY <1>1, <1>3, <1>4, <1>5, <1>6, <1>7 DEF DebtInv

LEMMA DebtStays ==
  ASSUME TypeInv, DebtInv, NEW d \in DataExports, OthersStay(d), UNCHANGED kind,
         DebtsStay(d), UNCHANGED <<job, sa, secret>>
  PROVE  DebtInv'
BY DebtIsKept DEF DebtsStay

\* What a restore's secret is called is the name of no job.
LEMMA OtherSecrets ==
  ASSUME TypeInv, NamesDiffer, NEW d \in Restics, SecretName(d) \in JobNames
  PROVE  SecretName(d) = JobName(d)
<1>1. d \in DataExports
  BY DEF Restics
<1>2. CASE kind[d] = "restore"
  <2>1. VolumeBackup(d) \in VolumeBackups
    BY <1>1, NamesAreTyped DEF TypeInv
  <2>2. SecretName(d) = <<"resticrestore", VolumeBackup(d)>>
    BY <1>2 DEF SecretName
  <2>3. VolumeBackup(d) \in Claims
    BY <2>2 DEF JobNames
  <2> QED
    BY <2>1, <2>3 DEF NamesDiffer
<1>3. CASE kind[d] # "restore"
  BY <1>3 DEF SecretName
<1> QED
  BY <1>2, <1>3

\* The user, the finalizer and the stage Initial: before that nothing is owed.
LEMMA LifeDebt ==
  ASSUME TypeInv, DebtInv, NEW d \in DataExports, OwnInv(d), OthersStay(d), NEW reply,
         \/ Delete(d) \/ SetFinalizer(d) \/ EnterInitial(d) \/ DeleteInitial(d)
         \/ StageInitial(d, reply)
  PROVE  DebtInv'
<1>1. UNCHANGED <<kind, job, sa, secret>>
  BY DEF Delete, SetFinalizer, EnterInitial, DeleteInitial, StageInitial,
     SetLife, Record, SetStatus, clusterVars
<1>2. DebtsStay(d)
  <2>1. CASE stage[d] \in {"", "Initial"}
    BY <2>1 DEF DebtsStay, Owes
  <2>2. CASE stage[d] \notin {"", "Initial"}
    <3>1. life[d] # "new"
      BY <2>2 DEF OwnInv
    <3>2. SetLife(d, "deleting") /\ UNCHANGED workerVars
      BY <2>2, <3>1 DEF Delete, SetFinalizer, EnterInitial, DeleteInitial,
         StageInitial, At
    <3>3. life'[d] = "deleting" /\ UNCHANGED <<kind, stage, transferID, pc, goal>>
      BY <3>2, LifeEffect DEF workerVars
    <3> QED
      BY <3>3 DEF DebtsStay, Owes, PastJob, PastAccount, PastSecret, Rsyncs
  <2> QED
    BY <2>1, <2>2
<1> QED
  BY <1>1, <1>2, DebtStays

\* The stage TransferScheduled: what is created is owed because the transfer has
\* yet to be recorded, and what is recorded because it is yet to be removed.
LEMMA StartDebt ==
  ASSUME TypeInv, DebtInv, NEW d \in DataExports, OwnInv(d), OthersStay(d),
         \/ LeaveTransferScheduled(d) \/ BeginTransfer(d) \/ CreateSecret(d)
         \/ CreateServiceAccount(d) \/ AwaitToken(d) \/ CreateJob(d)
         \/ StartFails(d) \/ RecordTransfer(d) \/ RecordFailure(d)
  PROVE  DebtInv'
<1>1. ASSUME pc[d] \in Starting, UNCHANGED deVars,
             \A n \in JobNames : job'[n] # "none" => job[n] # "none" \/ n = JobName(d),
             \A n \in JobNames : n \in sa' => n \in sa \/ n = JobName(d),
             \A n \in JobNames : n \in secret' =>
               n \in secret \/ (n = SecretName(d) /\ pc[d] = "secret")
      PROVE  DebtInv'
  <2>1. /\ Owes(d, PastJob(d))' /\ Owes(d, PastAccount(d))' /\ Owes(d, PastSecret)'
        /\ UNCHANGED kind
    BY <1>1 DEF OwnInv, Owes, deVars
  <2>2. ASSUME NEW n \in JobNames, NamesDiffer, n \in secret'
        PROVE  n \in secret \/ (n = JobName(d) /\ d \in Restics)
    BY <1>1, <2>2, OtherSecrets DEF TypeInv, SecretInv
  <2> QED
    BY <1>1, <2>1, <2>2, DebtIsKept
<1>2. CASE LeaveTransferScheduled(d)
  <2>1. stage'[d] \in {"TransferInProgress", "Cleanup"} /\ UNCHANGED <<kind, life, transferID>>
    BY <1>2, RecordEffect DEF LeaveTransferScheduled, Record
  <2>2. UNCHANGED <<pc, goal, job, sa, secret>>
    BY <1>2 DEF LeaveTransferScheduled, Record, workerVars, clusterVars
  <2>3. DebtsStay(d)
    BY <2>1, <2>2 DEF DebtsStay, Owes, PastJob, PastAccount, PastSecret, Rsyncs
  <2> QED
    BY <2>1, <2>2, <2>3, DebtStays
<1>3. CASE BeginTransfer(d)
  <2>1. /\ pc'[d] \in {"sa", "secret"} /\ UNCHANGED <<deVars, clusterVars, goal>>
        /\ life[d] = "live"
    BY <1>3, GotoEffect DEF BeginTransfer, At
  <2>2. DebtsStay(d)
    BY <2>1 DEF DebtsStay, Owes, PastJob, PastAccount, PastSecret, deVars
  <2> QED
    BY <2>1, <2>2, DebtStays DEF deVars, clusterVars
<1>4. CASE CreateSecret(d)
  BY <1>1, <1>4 DEF CreateSecret, Starting
<1>5. CASE CreateServiceAccount(d)
  BY <1>1, <1>5 DEF CreateServiceAccount, Starting
<1>6. CASE AwaitToken(d)
  BY <1>1, <1>6 DEF AwaitToken, Starting, clusterVars
<1>7. CASE CreateJob(d)
  BY <1>1, <1>7 DEF CreateJob, Starting, TypeInv, TypeOK
<1>8. CASE StartFails(d)
  <2>1. \A n \in JobNames : job'[n] # "none" => job[n] # "none" \/ n = JobName(d)
    BY <1>8 DEF StartFails, TypeInv, TypeOK
  <2> QED
    BY <1>1, <1>8, <2>1 DEF StartFails
<1>9. CASE RecordTransfer(d)
  <2>1. /\ pc'[d] = "idle" /\ life'[d] \in {"live", "deleting"}
        /\ UNCHANGED <<kind, stage, job, sa, secret>>
    BY <1>9, GotoEffect DEF RecordTransfer, OwnInv, clusterVars
  <2>2. DebtsStay(d)
    BY <2>1 DEF DebtsStay, Owes, PastJob, PastAccount, PastSecret
  <2> QED
    BY <2>1, <2>2, DebtStays
<1>10. CASE RecordFailure(d)
  <2>1. /\ pc'[d] = "idle" /\ stage'[d] = stage[d]
        /\ UNCHANGED <<kind, life, transferID, job, sa, secret>>
    BY <1>10, GotoEffect, RecordEffect DEF RecordFailure, clusterVars
  <2>2. DebtsStay(d)
    BY <2>1 DEF DebtsStay, Owes, PastJob, PastAccount, PastSecret
  <2> QED
    BY <2>1, <2>2, DebtStays
<1> QED
  BY <1>2, <1>3, <1>4, <1>5, <1>6, <1>7, <1>8, <1>9, <1>10

\* The stages TransferInProgress and Cleanup, and the deletion: each delete pays
\* a debt, and an object is gone only when all are paid.
LEMMA EndDebt ==
  ASSUME TypeInv, DebtInv, NEW d \in DataExports, OwnInv(d), OthersStay(d),
         \/ StageTransferInProgress(d) \/ PollFails(d) \/ BeginCleanUp(d)
         \/ DeleteSecret(d) \/ CleanServiceAccount(d) \/ DeleteJob(d)
         \/ FinishCleanUp(d) \/ CleanUpFails(d)
  PROVE  DebtInv'
<1> USE DEF Owes, PastJob, PastAccount, PastSecret
<1>1. CASE StageTransferInProgress(d) \/ PollFails(d)
  <2>1. stage'[d] \in {"TransferInProgress", "Cleanup"} /\ UNCHANGED <<kind, life, transferID>>
    BY <1>1, RecordEffect DEF StageTransferInProgress, PollFails, Record, At
  <2>2. UNCHANGED <<pc, goal, job, sa, secret>>
    BY <1>1 DEF StageTransferInProgress, PollFails, Record, workerVars,
       clusterVars
  <2>3. DebtsStay(d)
    BY <2>1, <2>2 DEF DebtsStay, Rsyncs
  <2> QED
    BY <2>1, <2>2, <2>3, DebtStays
<1>2. CASE BeginCleanUp(d)
  <2>1. /\ pc'[d] = IF d \notin transferID THEN "cleaned"
                    ELSE IF d \in Rsyncs THEN "deljob" ELSE "delsecret"
        /\ UNCHANGED <<deVars, clusterVars>>
        /\ life[d] \in {"live", "deleting"}
    BY <1>2 DEF BeginCleanUp, TypeInv, TypeOK
  <2>2. UNCHANGED <<kind, life, stage, transferID, job, sa, secret>> /\ Rsyncs' = Rsyncs
    BY <2>1 DEF deVars, clusterVars, Rsyncs
  <2>3. Owes(d, PastJob(d)) => Owes(d, PastJob(d))'
    BY <2>1, <2>2
  <2>4. Owes(d, PastAccount(d)) => Owes(d, PastAccount(d))'
    BY <2>1, <2>2
  <2>5. d \in Restics /\ Owes(d, PastSecret) => Owes(d, PastSecret)'
    BY <2>1, <2>2 DEF Restics
  <2> QED
    BY <2>2, <2>3, <2>4, <2>5, DebtIsKept
<1>3. ASSUME NEW from \in Cleaning \cup {"cleaned"}, pc[d] = from, NEW to, Goto(d, to),
             UNCHANGED deVars
      PROVE  /\ pc'[d] = to /\ UNCHANGED <<goal, kind, life, stage, transferID>>
             /\ Rsyncs' = Rsyncs /\ Restics' = Restics
  BY <1>3, GotoEffect, KindsStay DEF deVars
<1>4. CASE DeleteSecret(d)
  <2>1. /\ pc[d] = "delsecret" /\ pc'[d] = "delsa"
        /\ UNCHANGED <<goal, kind, life, stage, transferID, job, sa>>
        /\ Rsyncs' = Rsyncs /\ d \notin Rsyncs
        /\ secret' = secret \ {JobName(d)}
    BY <1>3, <1>4 DEF DeleteSecret, Cleaning, TypeInv, SecretInv, Restics
  <2>2. Owes(d, PastJob(d)) => Owes(d, PastJob(d))'
    BY <2>1
  <2>3. Owes(d, PastAccount(d)) => Owes(d, PastAccount(d))'
    BY <2>1
  <2> QED
    BY <2>1, <2>2, <2>3, DebtIsKept
<1>5. CASE CleanServiceAccount(d)
  <2>1. /\ pc[d] = "delsa" /\ pc'[d] = IF d \in Rsyncs THEN "cleaned" ELSE "deljob"
        /\ UNCHANGED <<goal, kind, life, stage, transferID, job, secret>>
        /\ Rsyncs' = Rsyncs /\ sa' = sa \ {JobName(d)}
    BY <1>3, <1>5 DEF CleanServiceAccount, Cleaning
  <2>2. Owes(d, PastJob(d)) => Owes(d, PastJob(d))'
    BY <2>1
  <2>3. Owes(d, PastSecret) => Owes(d, PastSecret)'
    BY <2>1
  <2> QED
    BY <2>1, <2>2, <2>3, DebtIsKept
<1>6. CASE DeleteJob(d)
  <2>1. /\ pc[d] = "deljob" /\ pc'[d] = IF d \in Rsyncs THEN "delsa" ELSE "cleaned"
        /\ UNCHANGED <<goal, kind, life, stage, transferID, sa, secret>>
        /\ Rsyncs' = Rsyncs /\ job' = [job EXCEPT ![JobName(d)] = "none"]
    BY <1>3, <1>6 DEF DeleteJob, Cleaning
  <2>2. Owes(d, PastAccount(d)) => Owes(d, PastAccount(d))'
    BY <2>1
  <2>3. d \in Restics /\ Owes(d, PastSecret) => Owes(d, PastSecret)'
    BY <2>1 DEF Restics
  <2>4. JobName(d) \in JobNames
    BY NamesAreTyped DEF TypeInv
  <2>5. /\ job'[JobName(d)] = "none"
        /\ \A n \in JobNames : job'[n] # "none" => job[n] # "none"
    BY <2>1, <2>4 DEF TypeInv, TypeOK
  <2> QED
    BY <2>1, <2>2, <2>3, <2>5, DebtIsKept
<1>7. CASE FinishCleanUp(d)
  <2>1. /\ pc[d] = "cleaned" /\ pc'[d] = "idle"
        /\ UNCHANGED <<goal, job, sa, secret>>
    BY <1>7, GotoEffect DEF FinishCleanUp, clusterVars
  <2>2. CASE goal[d] = "final"
    <3>1. stage'[d] = "Final" /\ UNCHANGED <<kind, life, transferID>>
      BY <1>7, <2>2, RecordEffect DEF FinishCleanUp
    <3>2. DebtsStay(d)
      BY <2>1, <3>1 DEF DebtsStay
    <3> QED
      BY <2>1, <3>1, <3>2, DebtStays
  <2>3. CASE goal[d] # "final"
    <3>1. goal[d] = "remove"
      BY <2>3 DEF TypeInv, TypeOK
    <3>2. UNCHANGED <<kind, stage, transferID>>
      BY <1>7, <2>3, LifeEffect DEF FinishCleanUp
    <3>3. DebtsStay(d)
      BY <2>1, <3>1, <3>2 DEF DebtsStay
    <3> QED
      BY <2>1, <3>2, <3>3, DebtStays
  <2> QED
    BY <2>2, <2>3
<1>8. CASE CleanUpFails(d)
  <2>1. pc[d] \in Cleaning /\ UNCHANGED <<job, sa, secret>>
    BY <1>8 DEF CleanUpFails, clusterVars
  <2>2. goal[d] = "final" \/ pc'[d] = "idle"
    BY <1>8, GotoEffect DEF CleanUpFails
  <2>3. /\ UNCHANGED <<kind, life, transferID, goal>>
        /\ stage'[d] = stage[d] \/ stage'[d] = "Final"
    BY <1>8, GotoEffect, RecordEffect DEF CleanUpFails, deVars
  <2>4. life[d] # "gone"
    BY <2>1 DEF OwnInv, Cleaning
  <2>5. DebtsStay(d)
    BY <2>2, <2>3, <2>4 DEF DebtsStay
  <2> QED
    BY <2>1, <2>3, <2>5, DebtStays
<1> QED
  BY <1>1, <1>2, <1>4, <1>5, <1>6, <1>7, <1>8

\* Nothing is created by the cluster, and a worker that is stopped starts over.
LEMMA JobDebt ==
  ASSUME TypeInv, OwnInvs, DebtInv,
         \/ Crash
         \/ \E d \in DataExports : JobStep(d)
         \/ \E n \in JobNames : EmptyVolumeBackup(n) \/ MoveData(n)
  PROVE  DebtInv'
<1>1. /\ UNCHANGED <<kind, life, stage, transferID, goal, sa, secret>>
      /\ pc' = pc \/ \A d \in DataExports : pc'[d] = "idle"
  <2>1. UNCHANGED <<sa, secret>>
    BY DEF Crash, JobStep, StartPod, CompleteJob, FailJob, SetJob,
       EmptyVolumeBackup, MoveData, SetVolumeBackup, clusterVars
  <2> QED
    BY <2>1, JobIsOwn DEF deVars
<1>2. \A n \in JobNames : job'[n] # "none" => job[n] # "none"
  BY DEF Crash, JobStep, StartPod, CompleteJob, FailJob, SetJob,
     EmptyVolumeBackup, MoveData, SetVolumeBackup, clusterVars, TypeInv, TypeOK
<1>3. /\ Rsyncs' = Rsyncs /\ Restics' = Restics
      /\ \A d \in DataExports : JobName(d)' = JobName(d)
  BY <1>1, KindsStay
<1>4. \A d \in DataExports : DebtsStay(d)
  BY <1>1, <1>3 DEF DebtsStay, Owes, PastJob, PastAccount, PastSecret
<1>5. JobNames' = JobNames /\ NamesDiffer' = NamesDiffer
  BY DEF JobNames, NamesDiffer, VolumeBackups
<1>6. Restics \subseteq DataExports
  BY DEF Restics
<1> QED
  BY <1>1, <1>2, <1>3, <1>4, <1>5, <1>6 DEF DebtInv, DebtsStay

-----------------------------------------------------------------------------
(* The theorems                                                            *)

LEMMA InitInv == Init => TypeInv /\ ClaimTransferInv
<1> SUFFICES ASSUME Init PROVE OwnInvs /\ DebtInv
  BY InitTypes DEF ClaimTransferInv
<1>1. OwnInvs
  BY DEF Init, OwnInvs, OwnInv, Starting
<1>2. DebtInv
  BY DEF Init, DebtInv
<1> QED
  BY <1>1, <1>2

LEMMA NextInv ==
  ASSUME TypeInv, ClaimTransferInv, [Next]_vars
  PROVE  ClaimTransferInv' /\ \A d \in DataExports : FailureStays(d)
<1> USE DEF ClaimTransferInv
<1>1. CASE UNCHANGED vars
  <2>1. UNCHANGED <<kind, life, stage, status, transferID, pc, goal, job, sa,
                    secret>>
    BY <1>1 DEF vars, deVars, workerVars, clusterVars
  <2>2. /\ Rsyncs' = Rsyncs /\ Restics' = Restics
        /\ \A d \in DataExports : JobName(d)' = JobName(d)
    BY <2>1, KindsStay
  <2>3. Restics \subseteq DataExports
    BY DEF Restics
  <2> QED
    <3>1. OwnInvs' /\ \A d \in DataExports : FailureStays(d)
      BY <2>1 DEF OwnInvs, OwnInv, FailureStays
    <3>2. \A d \in DataExports : DebtsStay(d)
      BY <2>1, <2>2 DEF DebtsStay, Owes, PastJob, PastAccount, PastSecret
    <3>3. JobNames' = JobNames /\ NamesDiffer' = NamesDiffer
      BY DEF JobNames, NamesDiffer, VolumeBackups
    <3>4. DebtInv'
      BY <2>1, <2>2, <2>3, <3>2, <3>3 DEF DebtInv, DebtsStay
    <3> QED
      BY <3>1, <3>4
<1>2. ASSUME NEW d \in DataExports, OthersStay(d), OwnInv(d)', FailureStays(d), DebtInv'
      PROVE  ClaimTransferInv' /\ \A e \in DataExports : FailureStays(e)
  BY <1>2, OwnIsLocal
<1>3. ASSUME NEW d \in DataExports, NEW reply,
             \/ Delete(d) \/ SetFinalizer(d) \/ EnterInitial(d) \/ DeleteInitial(d)
             \/ StageInitial(d, reply)
      PROVE  ClaimTransferInv' /\ \A e \in DataExports : FailureStays(e)
  BY <1>2, <1>3, LifeIsOwn, LifeDebt DEF OwnInvs
<1>4. ASSUME NEW d \in DataExports,
             \/ LeaveTransferScheduled(d) \/ BeginTransfer(d) \/ CreateSecret(d)
             \/ CreateServiceAccount(d) \/ AwaitToken(d) \/ CreateJob(d)
             \/ StartFails(d) \/ RecordTransfer(d) \/ RecordFailure(d)
      PROVE  ClaimTransferInv' /\ \A e \in DataExports : FailureStays(e)
  BY <1>2, <1>4, StartIsOwn, StartDebt DEF OwnInvs
<1>5. ASSUME NEW d \in DataExports,
             \/ StageTransferInProgress(d) \/ PollFails(d) \/ BeginCleanUp(d)
             \/ DeleteSecret(d) \/ CleanServiceAccount(d) \/ DeleteJob(d)
             \/ FinishCleanUp(d) \/ CleanUpFails(d)
      PROVE  ClaimTransferInv' /\ \A e \in DataExports : FailureStays(e)
  BY <1>2, <1>5, EndIsOwn, EndDebt DEF OwnInvs
<1>6. CASE \/ Crash
           \/ \E d \in DataExports : JobStep(d)
           \/ \E n \in JobNames : EmptyVolumeBackup(n) \/ MoveData(n)
  BY <1>6, JobIsOwn, JobDebt DEF FailureStays, deVars
<1>7. CASE Next
  BY <1>3, <1>4, <1>5, <1>6, <1>7 DEF Next, Reconcile, Continue, WorkerFails
<1> QED
  BY <1>1, <1>7

LEMMA InvHolds == Spec => [](TypeInv /\ ClaimTransferInv)
<1>1. Init => TypeInv /\ ClaimTransferInv
  BY InitInv
<1>2. (TypeInv /\ ClaimTransferInv) /\ [Next]_vars => (TypeInv /\ ClaimTransferInv)'
  BY NextTypes, NextInv
<1> QED
  BY <1>1, <1>2, PTL DEF Spec

\* Type correctness: in particular a secret is made for a restic transfer only.
THEOREM ClaimTransferTypeOK == Spec => []TypeOK
BY InvHolds, PTL DEF TypeInv

\* A failure that has been reported stays, whatever DataExports share the job.
THEOREM FailureStaysFinal == Spec => FailureIsFinal
<1>1. TypeInv /\ ClaimTransferInv /\ [Next]_vars
      => [\A d \in DataExports :
            status[d] = "Failed" /\ stage[d] \notin {"", "Initial"}
              => status'[d] = "Failed"]_vars
  BY NextInv DEF FailureStays
<1> QED
  BY <1>1, InvHolds, PTL DEF Spec, FailureIsFinal

\* Once all the DataExports of a name have been removed, its job and its service
\* account are gone, however the claims are called.
THEOREM JobsAndAccountsGo ==
  Spec => [](\A d \in DataExports :
               (\A e \in Namesakes(d) : Accounted(e)) =>
                 job[JobName(d)] = "none" /\ JobName(d) \notin sa)
<1>1. TypeInv /\ ClaimTransferInv
      => \A d \in DataExports :
           (\A e \in Namesakes(d) : Accounted(e)) =>
             job[JobName(d)] = "none" /\ JobName(d) \notin sa
  <2> SUFFICES ASSUME TypeInv, ClaimTransferInv, NEW d \in DataExports,
                      \A e \in Namesakes(d) : Accounted(e)
               PROVE  job[JobName(d)] = "none" /\ JobName(d) \notin sa
    OBVIOUS
  <2>1. \A e \in DataExports : JobName(e) = JobName(d) =>
          ~Owes(e, PastJob(e)) /\ ~Owes(e, PastAccount(e))
    BY DEF Namesakes, Accounted, Owes
  <2>2. JobName(d) \in JobNames
    BY NamesAreTyped DEF TypeInv
  <2> QED
    BY <2>1, <2>2 DEF ClaimTransferInv, DebtInv
<1> QED
  BY <1>1, InvHolds, PTL

\* So is the secret, where no claim bears the name of a VolumeBackup.
THEOREM RemovedLeaveNothing ==
  ASSUME NamesDiffer PROVE Spec => []RemovedLeavesNothing
<1>1. TypeInv /\ ClaimTransferInv => RemovedLeavesNothing
  <2> SUFFICES ASSUME TypeInv, ClaimTransferInv, NEW d \in DataExports,
                      \A e \in Namesakes(d) : Accounted(e)
               PROVE  /\ job[JobName(d)] = "none" /\ JobName(d) \notin sa
                      /\ JobName(d) \notin secret
    BY DEF RemovedLeavesNothing
  <2>1. \A e \in DataExports : JobName(e) = JobName(d) =>
          /\ ~Owes(e, PastJob(e)) /\ ~Owes(e, PastAccount(e))
          /\ ~Owes(e, PastSecret)
    BY DEF Namesakes, Accounted, Owes
  <2>2. JobName(d) \in JobNames /\ Restics \subseteq DataExports
    BY NamesAreTyped DEF TypeInv, Restics
  <2> QED
    BY <2>1, <2>2 DEF ClaimTransferInv, DebtInv
<1> QED
  BY <1>1, InvHolds, PTL

=============================================================================
