--------------------------- MODULE ResticPodProofs ---------------------------
(***************************************************************************)
(* What restic's containers write is true: proofs about ResticPod for any  *)
(* number of jobs, any backoff limit and any number of faults.  All jobs   *)
(* share one repository and one VolumeBackup; that nobody spoils it for    *)
(* another one rests on there being one backup at a time, and on the only  *)
(* step of a container at which an id can be in the VolumeBackup.          *)
(***************************************************************************)
EXTENDS ResticPod, TLAPS

Active(j) == step[j] \notin {"none"} \cup Ended

\* A job only takes the steps of its kind.
OwnSteps ==
  \A j \in Jobs : /\ step[j] \in {"init", "backup"} => j \in Backups
                  /\ step[j] = "restore" => j \in Restores

TypeInv == TypeOK /\ OwnSteps

\* The backup jobs of a claim follow each other.
OneBackup == \A b, c \in Backups : Active(b) /\ Active(c) => b = c

Made(b) == Len(snapshots) > 0 /\ snapshots[Len(snapshots)] = [of |-> b, complete |-> TRUE]

Brought(r) == got[r] > 0 /\ got[r] >= wanted[r]

\* A wrapper has an answer when its goroutine is over, and what it answers is
\* real: the last snapshot is still the one of the backup.
WrapperInv ==
  \A j \in Jobs :
    /\ answer[j] # "nothing" => proc[j] = "over"
    /\ proc[j] = "exists" \/ answer[j] = "exists" => step[j] = "init"
    /\ proc[j] = "ok" \/ answer[j] = "done" =>
         /\ step[j] = "backup" => Made(j)
         /\ step[j] = "restore" => Brought(j)

\* A container beyond the start of a backup finds an id in the VolumeBackup only
\* when it has written it itself, of the snapshot it has just made.
IdIsOwn ==
  vb.id # 0 =>
    \A b \in Backups :
      \/ step[b] \in {"none", "start"} \cup Ended
      \/ step[b] = "backup" /\ answer[b] = "done" /\ vb.id = Len(snapshots)

\* No restore waits for a snapshot that is yet to come.
WantedIsThere == \A r \in Restores : wanted[r] <= Len(snapshots)

ResticPodInv ==
  OneBackup /\ WrapperInv /\ IdIsOwn /\ WantedIsThere /\ SavedIsStored /\ NeverOlder

-----------------------------------------------------------------------------
(* Types                                                                   *)

CommandTypes ==
  /\ OwnSteps
  /\ step \in [Jobs -> {"none", "start"} \cup Commands \cup Ended]
  /\ proc \in [Jobs -> {"idle", "running", "printed", "ok", "bad", "exists", "over"}]
  /\ answer \in [Jobs -> {"nothing", "done", "error", "exists"}]

LEMMA EnterTypes ==
  ASSUME TypeInv, NEW j \in Jobs,
         NEW s \in {"none", "start"} \cup Commands \cup Ended, Enter(j, s),
         s \in {"init", "backup"} => j \in Backups,
         s = "restore" => j \in Restores
  PROVE  CommandTypes'
BY DEF TypeInv, OwnSteps, TypeOK, Enter, CommandTypes, Commands, Ended

LEMMA FaultTypes == ASSUME TypeInv, Fault PROVE faults' \in 0..MaxFaults
BY LimitAssumption DEF TypeInv, TypeOK, Fault

LEMMA ExitTypes ==
  ASSUME TypeInv, NEW j \in Jobs, Exit(j)
  PROVE  CommandTypes' /\ attempt' \in [Jobs -> Attempts]
<1>1. CommandTypes'
  <2>1. CASE Enter(j, "start")
    BY <2>1, EnterTypes DEF Commands
  <2>2. CASE Enter(j, "failed")
    BY <2>2, EnterTypes DEF Commands, Ended
  <2> QED
    BY <2>1, <2>2 DEF Exit
<1>2. attempt' \in [Jobs -> Attempts]
  <2>1. attempt \in [Jobs -> Attempts] /\ attempt[j] \in Attempts
    BY DEF TypeInv, TypeOK
  <2>2. attempt[j] <= BackOffLimit => attempt[j] + 1 \in Attempts
    BY <2>1, LimitAssumption DEF Attempts
  <2> QED
    BY <2>1, <2>2 DEF Exit
<1> QED
  BY <1>1, <1>2

\* Only the id and the error of the VolumeBackup are written.
LEMMA WriteEffect ==
  ASSUME TypeInv, NEW id \in Nat, NEW error \in BOOLEAN, WriteStatus(id, error)
  PROVE  vb' \in VolumeBackupType /\ vb'.id = id /\ vb'.error = error
BY DEF WriteStatus, TypeInv, TypeOK, VolumeBackupType

LEMMA AnswerIsId == ASSUME TypeInv, NEW j \in Jobs PROVE Answer(j) \in Nat
BY DEF Answer, TypeInv, TypeOK

\* The restic processes and their goroutines.
LEMMA ProcessTypes ==
  ASSUME TypeInv, NEW j \in Jobs,
         \/ InitRepository(j) \/ CreateSnapshot(j) \/ RestoreLatest(j)
         \/ PrintProgress(j) \/ Wait(j) \/ CreateIncompleteSnapshot(j)
         \/ CommandFails(j)
  PROVE  TypeInv'
<1> USE DEF TypeInv, OwnSteps, TypeOK, storeVars, Returns, At, Commands
<1>1. CASE InitRepository(j)
  BY <1>1 DEF InitRepository
<1>2. CASE CreateSnapshot(j)
  <2>1. j \in Backups
    BY <1>2 DEF CreateSnapshot
  <2>2. [of |-> j, complete |-> TRUE] \in [of: Backups, complete: BOOLEAN]
    BY <2>1
  <2>3. snapshots' \in Seq([of: Backups, complete: BOOLEAN])
    BY <1>2, <2>2 DEF CreateSnapshot
  <2> QED
    BY <1>2, <2>3 DEF CreateSnapshot
<1>3. CASE RestoreLatest(j)
  BY <1>3 DEF RestoreLatest
<1>4. CASE PrintProgress(j)
  BY <1>4 DEF PrintProgress
<1>5. CASE Wait(j)
  BY <1>5 DEF Wait
<1>6. CASE CreateIncompleteSnapshot(j)
  <2>1. j \in Backups
    BY <1>6 DEF CreateIncompleteSnapshot
  <2>2. [of |-> j, complete |-> FALSE] \in [of: Backups, complete: BOOLEAN]
    BY <2>1
  <2>3. snapshots' \in Seq([of: Backups, complete: BOOLEAN])
    BY <1>6, <2>2 DEF CreateIncompleteSnapshot
  <2> QED
    BY <1>6, <2>3, FaultTypes DEF CreateIncompleteSnapshot
<1>7. CASE CommandFails(j)
  BY <1>7, FaultTypes DEF CommandFails
<1> QED
  BY <1>1, <1>2, <1>3, <1>4, <1>5, <1>6, <1>7

\* The executor.
LEMMA ExecutorTypes ==
  ASSUME TypeInv, NEW j \in Jobs,
         \/ StartJob(j) \/ ParseFails(j) \/ PrepareBackup(j)
         \/ PrepareRestore(j) \/ ReadError(j) \/ ReadStatus(j)
         \/ WriteFails(j) \/ Kill(j)
  PROVE  TypeInv'
<1> USE DEF TypeInv, TypeOK, CommandTypes, storeVars, containerVars
<1>1. CASE StartJob(j)
  <2>1. CommandTypes'
    BY <1>1, EnterTypes DEF StartJob, Commands
  <2>2. wanted' \in [Restores -> Nat]
    BY <1>1 DEF StartJob, VolumeBackupType
  <2> QED
    BY <1>1, <2>1, <2>2 DEF StartJob
<1>2. CASE ParseFails(j)
  <2>1. vb' \in VolumeBackupType
    BY <1>2, WriteEffect DEF ParseFails
  <2> QED
    BY <1>2, <2>1, ExitTypes, FaultTypes DEF ParseFails
<1>3. CASE PrepareBackup(j)
  <2>1. vb' \in VolumeBackupType
    BY <1>3 DEF PrepareBackup, VolumeBackupType
  <2>2. /\ CommandTypes' /\ attempt' \in [Jobs -> Attempts]
        /\ faults' \in 0..MaxFaults
    BY <1>3, EnterTypes, ExitTypes, FaultTypes DEF PrepareBackup, Commands
  <2> QED
    BY <1>3, <2>1, <2>2 DEF PrepareBackup
<1>4. CASE PrepareRestore(j)
  BY <1>4, EnterTypes DEF PrepareRestore, Commands
<1>5. CASE ReadError(j)
  BY <1>5, ExitTypes DEF ReadError
<1>6. CASE ReadStatus(j)
  <2>1. vb' \in VolumeBackupType
    BY <1>6, WriteEffect, AnswerIsId DEF ReadStatus
  <2>2. CommandTypes'
    <3>1. CASE answer[j] # "nothing" /\ step[j] = "init"
      BY <1>6, <3>1, EnterTypes DEF ReadStatus, Commands, OwnSteps
    <3>2. CASE answer[j] # "nothing" /\ step[j] # "init"
      BY <1>6, <3>2, EnterTypes DEF ReadStatus, Commands, Ended
    <3>3. CASE answer[j] = "nothing"
      BY <1>6, <3>3 DEF ReadStatus, OwnSteps
    <3> QED
      BY <3>1, <3>2, <3>3
  <2> QED
    BY <1>6, <2>1, <2>2 DEF ReadStatus
<1>7. CASE WriteFails(j)
  BY <1>7, WriteEffect, AnswerIsId, FaultTypes DEF WriteFails, OwnSteps
<1>8. CASE Kill(j)
  BY <1>8, FaultTypes, ExitTypes DEF Kill
<1> QED
  BY <1>1, <1>2, <1>3, <1>4, <1>5, <1>6, <1>7, <1>8

-----------------------------------------------------------------------------
(* What the containers write                                               *)

\* One step of SavedOrError and one of SuccessIsTrue.
IdIsKept == vb.id # 0 => vb'.id = vb.id \/ (vb'.id = 0 /\ vb'.error)

SuccessIsEarned ==
  \A b \in Backups :
    step[b] # "succeeded" /\ step'[b] = "succeeded" =>
      /\ vb'.id \in DOMAIN snapshots' /\ ~vb'.error
      /\ snapshots'[vb'.id] = [of |-> b, complete |-> TRUE]

Good == ResticPodInv' /\ IdIsKept /\ SuccessIsEarned

\* A step leaves no trace of the wrapper before.
LEMMA EnterEffect ==
  ASSUME TypeInv, NEW j \in Jobs, NEW s, Enter(j, s)
  PROVE  /\ step'[j] = s /\ answer'[j] = "nothing" /\ proc'[j] \in {"running", "idle"}
         /\ \A k \in Jobs \ {j} :
              /\ step'[k] = step[k] /\ proc'[k] = proc[k] /\ answer'[k] = answer[k]
BY DEF TypeInv, TypeOK, Enter

LEMMA ActiveBackup ==
  ASSUME ResticPodInv, NEW j \in Backups, Active(j), NEW b \in Backups, b # j
  PROVE  step[b] \in {"none"} \cup Ended
BY DEF ResticPodInv, OneBackup, Active

\* A container that starts over, or the last one that fails.
LEMMA ExitIsGood ==
  ASSUME TypeInv, ResticPodInv, NEW j \in Jobs, Exit(j), Active(j),
         vb'.id = vb.id \/ (vb'.id = 0 /\ vb'.error),
         UNCHANGED <<snapshots, wanted, got>>
  PROVE  Good
<1>1. PICK s \in {"start", "failed"} : Enter(j, s)
  BY DEF Exit
<1>2. /\ step'[j] \in {"start", "failed"} /\ answer'[j] = "nothing"
      /\ proc'[j] \in {"running", "idle"}
      /\ \A k \in Jobs \ {j} :
           /\ step'[k] = step[k] /\ proc'[k] = proc[k] /\ answer'[k] = answer[k]
  BY <1>1, EnterEffect
<1>3. OneBackup'
  BY <1>2 DEF ResticPodInv, OneBackup, Active, Jobs
<1>4. WrapperInv'
  BY <1>2 DEF ResticPodInv, WrapperInv, Made, Brought
<1>5. IdIsOwn'
  BY <1>2 DEF ResticPodInv, IdIsOwn, Jobs, Ended
<1>6. WantedIsThere' /\ SavedIsStored'
  BY DEF ResticPodInv, WantedIsThere, SavedIsStored
<1>7. NeverOlder' /\ SuccessIsEarned
  BY <1>2 DEF ResticPodInv, NeverOlder, SuccessIsEarned, Jobs
<1> QED
  BY <1>3, <1>4, <1>5, <1>6, <1>7 DEF Good, ResticPodInv, IdIsKept

\* A container that enters a step whose command has yet to run.
LEMMA EnterIsGood ==
  ASSUME TypeInv, ResticPodInv, NEW j \in Jobs, Active(j),
         NEW s \in Commands, Enter(j, s),
         j \in Backups => vb'.id = 0, vb'.id = vb.id,
         UNCHANGED <<snapshots, wanted, got>>
  PROVE  Good
<1>1. /\ step'[j] = s /\ answer'[j] = "nothing" /\ proc'[j] \in {"running", "idle"}
      /\ \A k \in Jobs \ {j} :
           /\ step'[k] = step[k] /\ proc'[k] = proc[k] /\ answer'[k] = answer[k]
  BY EnterEffect
<1>2. OneBackup'
  BY <1>1 DEF ResticPodInv, OneBackup, Active, Jobs
<1>3. WrapperInv'
  BY <1>1 DEF ResticPodInv, WrapperInv, Made, Brought
<1>4. IdIsOwn'
  BY <1>1 DEF ResticPodInv, IdIsOwn, Jobs
<1>5. WantedIsThere' /\ SavedIsStored'
  BY DEF ResticPodInv, WantedIsThere, SavedIsStored
<1>6. NeverOlder' /\ SuccessIsEarned
  BY <1>1 DEF ResticPodInv, NeverOlder, SuccessIsEarned, Jobs, Commands
<1> QED
  BY <1>2, <1>3, <1>4, <1>5, <1>6 DEF Good, ResticPodInv, IdIsKept

\* A snapshot more: the last one is not the one before of a backup that goes on.
LEMMA AppendIsGood ==
  ASSUME TypeInv, ResticPodInv, NEW j \in Jobs, At(j, "backup"),
         NEW c \in BOOLEAN, NEW result \in {"ok", "bad"},
         snapshots' = Append(snapshots, [of |-> j, complete |-> c]),
         result = "ok" => c, Returns(j, result), UNCHANGED got
  PROVE  Good
<1> DEFINE n == Len(snapshots)
<1>1. j \in Backups /\ Active(j)
  BY DEF TypeInv, OwnSteps, At, Active, Ended
<1>2. snapshots \in Seq([of: Backups, complete: BOOLEAN])
  BY DEF TypeInv, TypeOK
<1>3. n \in Nat /\ Len(snapshots') = n + 1
  BY <1>2
<1>4. snapshots'[n + 1] = [of |-> j, complete |-> c]
  BY <1>2
<1>5. \A i \in DOMAIN snapshots :
        i \in DOMAIN snapshots' /\ snapshots'[i] = snapshots[i]
  BY <1>2
<1>6. proc[j] # "over" /\ answer[j] = "nothing"
  BY DEF At, ResticPodInv, WrapperInv
<1>7. proc'[j] = result /\ \A k \in Jobs \ {j} : proc'[k] = proc[k]
  BY DEF Returns, TypeInv, TypeOK
<1>8. WrapperInv'
  <2>1. ASSUME NEW k \in Jobs, k # j, step[k] = "backup" PROVE FALSE
    BY <1>1, <2>1, ActiveBackup DEF TypeInv, OwnSteps, Ended
  <2>2. c => Made(j)'
    BY <1>3, <1>4 DEF Made
  <2>3. \A k \in Jobs : Brought(k) => Brought(k)'
    BY DEF Brought, Returns
  <2> QED
    BY <1>1, <1>6, <1>7, <2>1, <2>2, <2>3 DEF ResticPodInv, WrapperInv,
       Returns, At
<1>9. vb.id = 0
  BY <1>1, <1>6 DEF ResticPodInv, IdIsOwn, At, Ended
<1>10. OneBackup' /\ IdIsOwn' /\ SavedIsStored'
  BY <1>9 DEF ResticPodInv, OneBackup, Active, IdIsOwn, SavedIsStored, Returns
<1>11. WantedIsThere'
  BY <1>3 DEF ResticPodInv, WantedIsThere, Returns, TypeInv, TypeOK
<1>12. NeverOlder' /\ SuccessIsEarned
  BY DEF ResticPodInv, NeverOlder, SuccessIsEarned, Returns
<1> QED
  BY <1>8, <1>9, <1>10, <1>11, <1>12 DEF Good, ResticPodInv, IdIsKept

\* The restic processes and their goroutines.
LEMMA ProcessIsGood ==
  ASSUME TypeInv, ResticPodInv, NEW j \in Jobs,
         \/ InitRepository(j) \/ CreateSnapshot(j) \/ RestoreLatest(j)
         \/ PrintProgress(j) \/ Wait(j) \/ CreateIncompleteSnapshot(j)
         \/ CommandFails(j)
  PROVE  Good
<1> USE DEF Good, ResticPodInv, OneBackup, Active, Made, Brought, WrapperInv, IdIsOwn,
          WantedIsThere, SavedIsStored, NeverOlder, IdIsKept, SuccessIsEarned
<1>1. CASE InitRepository(j)
  BY <1>1 DEF InitRepository, At, Returns, TypeInv, TypeOK, Jobs
<1>2. CASE CreateSnapshot(j)
  BY <1>2, AppendIsGood DEF CreateSnapshot
<1>3. CASE RestoreLatest(j)
  <2>1. /\ j \in Restores /\ Active(j) /\ proc[j] # "over"
        /\ answer[j] = "nothing"
    BY <1>3 DEF RestoreLatest, At, TypeInv, OwnSteps, Ended
  <2>2. /\ got'[j] = Len(snapshots)
        /\ \A r \in Restores \ {j} : got'[r] = got[r]
    BY <1>3, <2>1 DEF RestoreLatest, TypeInv, TypeOK
  <2>3. snapshots # <<>> => Len(snapshots) > 0
    BY DEF TypeInv, TypeOK
  <2>4. /\ proc'[j] = "ok" => snapshots # <<>>
        /\ proc'[j] \in {"ok", "bad"}
        /\ \A k \in Jobs \ {j} : proc'[k] = proc[k]
    BY <1>3 DEF RestoreLatest, Returns, TypeInv, TypeOK
  <2>5. UNCHANGED <<snapshots, vb, step, answer, wanted>>
    BY <1>3 DEF RestoreLatest, Returns, storeVars
  <2>6. snapshots # <<>> => Brought(j)'
    BY <2>1, <2>2, <2>3, <2>5
  <2>7. WrapperInv'
    <3>1. ASSUME NEW k \in Jobs, k # j, step[k] = "restore", Brought(k)
          PROVE  Brought(k)'
      BY <2>2, <2>5, <3>1 DEF TypeInv, OwnSteps
    <3>2. step[j] # "backup" /\ step[j] # "init"
      BY <1>3 DEF RestoreLatest, At
    <3> QED
      BY <2>1, <2>4, <2>5, <2>6, <3>1, <3>2
  <2>8. NeverOlder'
    BY <2>1, <2>2, <2>5 DEF Ended
  <2> QED
    BY <2>5, <2>7, <2>8
<1>4. CASE PrintProgress(j)
  BY <1>4 DEF PrintProgress, Returns, TypeInv, TypeOK, Jobs, storeVars
<1>5. CASE Wait(j)
  BY <1>5 DEF Wait, TypeInv, TypeOK, Jobs, storeVars
<1>6. CASE CreateIncompleteSnapshot(j)
  BY <1>6, AppendIsGood DEF CreateIncompleteSnapshot
<1>7. CASE CommandFails(j)
  BY <1>7 DEF CommandFails, At, Returns, TypeInv, TypeOK, Jobs, storeVars
<1> QED
  BY <1>1, <1>2, <1>3, <1>4, <1>5, <1>6, <1>7

\* The id that a poll writes is the one its container has written, if any.
LEMMA IdWritten ==
  ASSUME TypeInv, ResticPodInv, NEW j \in Backups, step[j] \in Commands,
         WriteStatus(Answer(j), FALSE)
  PROVE  /\ vb'.id = Answer(j) /\ ~vb'.error
         /\ vb.id # 0 => vb.id = Answer(j)
<1>1. vb'.id = Answer(j) /\ vb'.error = FALSE
  BY WriteEffect, AnswerIsId DEF Jobs
<1>2. vb.id # 0 => step[j] = "backup" /\ answer[j] = "done" /\ vb.id = Len(snapshots)
  BY DEF ResticPodInv, IdIsOwn, Commands, Ended
<1> QED
  BY <1>1, <1>2 DEF Answer

\* A poll that finds the command at work, or whose write fails, leaves the rest
\* alone.
LEMMA PollIsGood ==
  ASSUME TypeInv, ResticPodInv, NEW j \in Jobs, step[j] \in Commands, Active(j),
         IF j \in Backups THEN WriteStatus(Answer(j), FALSE) ELSE UNCHANGED vb,
         UNCHANGED containerVars, UNCHANGED <<snapshots, wanted, got>>
  PROVE  Good
<1>1. UNCHANGED <<step, proc, answer>>
  BY DEF containerVars
<1>2. OneBackup' /\ WrapperInv' /\ WantedIsThere' /\ NeverOlder'
  BY <1>1 DEF ResticPodInv, OneBackup, Active, WrapperInv, Made, Brought,
     WantedIsThere, NeverOlder
<1>3. CASE j \in Backups
  <2>1. vb'.id = Answer(j) /\ (vb.id # 0 => vb.id = Answer(j))
    BY <1>3, IdWritten
  <2>2. Answer(j) # 0 => step[j] = "backup" /\ answer[j] = "done"
    BY DEF Answer
  <2>3. Answer(j) # 0 => Made(j) /\ Answer(j) = Len(snapshots)
    BY <2>2 DEF Answer, ResticPodInv, WrapperInv
  <2>4. Len(snapshots) > 0 => Len(snapshots) \in DOMAIN snapshots
    BY DEF TypeInv, TypeOK
  <2>5. SavedIsStored'
    BY <2>1, <2>3, <2>4 DEF SavedIsStored, Made
  <2>6. IdIsOwn'
    BY <1>1, <1>3, <2>1, <2>2, <2>3, ActiveBackup DEF IdIsOwn
  <2>7. IdIsKept /\ SuccessIsEarned
    BY <1>1, <2>1 DEF IdIsKept, SuccessIsEarned
  <2> QED
    BY <1>2, <2>5, <2>6, <2>7 DEF Good, ResticPodInv
<1>4. CASE j \notin Backups
  BY <1>1, <1>2, <1>4 DEF Good, ResticPodInv, IdIsOwn, SavedIsStored, IdIsKept,
     SuccessIsEarned
<1> QED
  BY <1>3, <1>4

\* The executor.
LEMMA ExecutorIsGood ==
  ASSUME TypeInv, ResticPodInv, NEW j \in Jobs,
         \/ StartJob(j) \/ ParseFails(j) \/ PrepareBackup(j)
         \/ PrepareRestore(j) \/ ReadError(j) \/ ReadStatus(j)
         \/ WriteFails(j) \/ Kill(j)
  PROVE  Good
<1>1. CASE StartJob(j)
  <2>1. /\ step[j] = "none" /\ step'[j] = "start" /\ answer'[j] = "nothing"
        /\ proc'[j] \in {"running", "idle"}
        /\ \A k \in Jobs \ {j} :
             /\ step'[k] = step[k] /\ proc'[k] = proc[k] /\ answer'[k] = answer[k]
    BY <1>1, EnterEffect DEF StartJob
  <2>2. UNCHANGED <<snapshots, vb, got>>
    BY <1>1 DEF StartJob, storeVars
  <2>3. \A r \in Restores \ {j} : wanted'[r] = wanted[r]
    BY <1>1 DEF StartJob, TypeInv, TypeOK
  <2>4. \A r \in Restores : wanted'[r] \in {wanted[r], vb.id}
    BY <1>1 DEF StartJob, TypeInv, TypeOK
  <2>5. OneBackup'
    BY <1>1, <2>1, JobsAssumption DEF ResticPodInv, OneBackup, StartJob,
       Active, Jobs
  <2>6. WrapperInv'
    <3>1. ASSUME NEW k \in Jobs, k # j, step[k] = "restore", Brought(k)
          PROVE  Brought(k)'
      BY <2>2, <2>3, <3>1 DEF TypeInv, OwnSteps, Brought
    <3>2. ASSUME NEW k \in Jobs, Made(k) PROVE Made(k)'
      BY <2>2, <3>2 DEF Made
    <3> QED
      BY <2>1, <3>1, <3>2 DEF ResticPodInv, WrapperInv
  <2>7. IdIsOwn' /\ SavedIsStored'
    BY <2>1, <2>2 DEF ResticPodInv, IdIsOwn, SavedIsStored, Jobs
  <2>8. WantedIsThere'
    <3>1. vb.id <= Len(snapshots)
      BY DEF ResticPodInv, SavedIsStored, TypeInv, TypeOK
    <3> QED
      BY <2>2, <2>4, <3>1 DEF ResticPodInv, WantedIsThere
  <2>9. NeverOlder' /\ SuccessIsEarned
    BY <2>1, <2>2, <2>3 DEF ResticPodInv, NeverOlder, SuccessIsEarned, Jobs
  <2> QED
    BY <2>2, <2>5, <2>6, <2>7, <2>8, <2>9 DEF Good, ResticPodInv, IdIsKept
<1>2. CASE ParseFails(j)
  <2>1. vb'.id = vb.id \/ (vb'.id = 0 /\ vb'.error)
    BY <1>2, WriteEffect DEF ParseFails
  <2> QED
    BY <1>2, <2>1, ExitIsGood DEF ParseFails, Active, Ended, storeVars
<1>3. CASE PrepareBackup(j)
  <2>1. vb'.id = vb.id
    BY <1>3 DEF PrepareBackup, TypeInv, TypeOK, VolumeBackupType
  <2>2. CASE vb.id = 0 /\ Enter(j, "init")
    BY <1>3, <2>1, <2>2, EnterIsGood
       DEF PrepareBackup, Active, Ended, Commands, storeVars
  <2>3. CASE Exit(j)
    BY <1>3, <2>1, <2>3, ExitIsGood DEF PrepareBackup, Active, Ended, storeVars
  <2> QED
    BY <1>3, <2>2, <2>3 DEF PrepareBackup
<1>4. CASE PrepareRestore(j)
  BY <1>4, EnterIsGood, JobsAssumption
     DEF PrepareRestore, Active, Ended, Commands, storeVars
<1>5. CASE ReadError(j)
  BY <1>5, ExitIsGood DEF ReadError, Active, Ended, Commands, storeVars
<1>6. CASE ReadStatus(j)
  <2>1. Active(j) /\ step[j] \in Commands
    BY <1>6 DEF ReadStatus, Active, Commands, Ended
  <2>2. UNCHANGED <<snapshots, wanted, got>>
    BY <1>6 DEF ReadStatus, storeVars
  <2>3. IF j \in Backups THEN WriteStatus(Answer(j), FALSE) ELSE UNCHANGED vb
    BY <1>6 DEF ReadStatus
  <2>4. CASE answer[j] = "nothing"
    <3>1. UNCHANGED containerVars
      BY <1>6, <2>4 DEF ReadStatus
    <3> QED
      BY <2>1, <2>2, <2>3, <3>1, PollIsGood
  <2>5. CASE answer[j] # "nothing" /\ step[j] = "init"
    <3>1. Enter(j, "backup") /\ j \in Backups
      BY <1>6, <2>5 DEF ReadStatus, TypeInv, OwnSteps
    <3>2. vb.id = 0 /\ vb'.id = 0
      BY <2>1, <2>3, <2>5, <3>1, IdWritten DEF Answer
    <3> QED
      BY <2>1, <2>2, <3>1, <3>2, EnterIsGood DEF Commands
  <2>6. CASE answer[j] # "nothing" /\ step[j] # "init"
    <3>1. Enter(j, "succeeded") /\ answer[j] # "error"
      BY <1>6, <2>6 DEF ReadStatus, Refused
    <3>2. answer[j] = "done"
      BY <2>6, <3>1 DEF ResticPodInv, WrapperInv, TypeInv, TypeOK
    <3>3. /\ step'[j] = "succeeded" /\ answer'[j] = "nothing"
          /\ proc'[j] \in {"running", "idle"}
          /\ \A k \in Jobs \ {j} :
               /\ step'[k] = step[k] /\ proc'[k] = proc[k] /\ answer'[k] = answer[k]
      BY <3>1, EnterEffect
    <3>4. CASE j \in Backups
      <4>1. step[j] = "backup" /\ Made(j)
        BY <2>1, <2>6, <3>2, <3>4, JobsAssumption
           DEF Commands, ResticPodInv, WrapperInv, TypeInv, OwnSteps
      <4>2. vb'.id = Len(snapshots) /\ ~vb'.error /\ (vb.id # 0 => vb.id = vb'.id)
        BY <2>1, <2>3, <3>2, <3>4, <4>1, IdWritten DEF Answer
      <4>3. Len(snapshots) \in DOMAIN snapshots
        BY <4>1 DEF Made, TypeInv, TypeOK
      <4>4. SavedIsStored' /\ SuccessIsEarned /\ IdIsKept
        BY <2>2, <3>3, <4>1, <4>2, <4>3
           DEF SavedIsStored, SuccessIsEarned, IdIsKept, Made, Jobs
      <4>5. OneBackup' /\ WantedIsThere'
        BY <2>2, <3>3 DEF ResticPodInv, OneBackup, Active, Ended,
           WantedIsThere, Jobs
      <4>6. WrapperInv'
        BY <2>2, <3>3 DEF ResticPodInv, WrapperInv, Made, Brought
      <4>7. IdIsOwn'
        BY <2>1, <3>3, <3>4, ActiveBackup DEF IdIsOwn, Jobs, Ended
      <4>8. NeverOlder'
        BY <2>2, <3>3, <3>4, JobsAssumption DEF ResticPodInv, NeverOlder, Jobs
      <4> QED
        BY <4>4, <4>5, <4>6, <4>7, <4>8 DEF Good, ResticPodInv
    <3>5. CASE j \notin Backups
      <4>1. step[j] = "restore" /\ Brought(j) /\ UNCHANGED vb
        BY <2>1, <2>3, <2>6, <3>2, <3>5
           DEF Commands, ResticPodInv, WrapperInv, TypeInv, OwnSteps
      <4>2. OneBackup' /\ WantedIsThere' /\ SavedIsStored'
        BY <2>2, <3>3, <4>1 DEF ResticPodInv, OneBackup, Active, Ended,
           WantedIsThere, SavedIsStored, Jobs
      <4>3. WrapperInv'
        BY <2>2, <3>3 DEF ResticPodInv, WrapperInv, Made, Brought
      <4>4. IdIsOwn' /\ SuccessIsEarned
        BY <2>2, <3>3, <3>5, <4>1
           DEF ResticPodInv, IdIsOwn, SuccessIsEarned, Jobs
      <4>5. NeverOlder'
        BY <2>2, <3>3, <4>1 DEF ResticPodInv, NeverOlder, Brought, Jobs
      <4> QED
        BY <4>1, <4>2, <4>3, <4>4, <4>5 DEF Good, ResticPodInv, IdIsKept
    <3> QED
      BY <3>4, <3>5
  <2> QED
    BY <2>4, <2>5, <2>6
<1>7. CASE WriteFails(j)
  BY <1>7, PollIsGood DEF WriteFails, Active, Ended, Commands, TypeInv,
     OwnSteps, storeVars
<1>8. CASE Kill(j)
  BY <1>8, ExitIsGood DEF Kill, Active, storeVars
<1> QED
  BY <1>1, <1>2, <1>3, <1>4, <1>5, <1>6, <1>7, <1>8

-----------------------------------------------------------------------------
(* The theorems                                                            *)

LEMMA InitIsGood == Init => TypeInv /\ ResticPodInv
<1> SUFFICES ASSUME Init PROVE TypeInv /\ ResticPodInv
  OBVIOUS
<1>1. /\ vb \in VolumeBackupType /\ attempt \in [Jobs -> Attempts]
      /\ snapshots \in Seq([of: Backups, complete: BOOLEAN])
      /\ faults \in 0..MaxFaults
  BY LimitAssumption DEF Init, VolumeBackupType, Attempts
<1>2. TypeOK /\ OwnSteps
  BY <1>1 DEF Init, TypeOK, OwnSteps, Commands, Ended
<1>3. Len(snapshots) = 0
  BY DEF Init
<1> QED
  BY <1>2, <1>3 DEF Init, TypeInv, ResticPodInv, OneBackup, Active, WrapperInv,
     IdIsOwn, WantedIsThere, SavedIsStored, NeverOlder, Jobs

LEMMA NextTypes == TypeInv /\ [Next]_vars => TypeInv'
<1> SUFFICES ASSUME TypeInv, [Next]_vars PROVE TypeInv'
  OBVIOUS
<1>1. CASE UNCHANGED vars
  BY <1>1 DEF TypeInv, TypeOK, OwnSteps, vars, storeVars, containerVars
<1>2. CASE Next
  BY <1>2, ProcessTypes, ExecutorTypes DEF Next, Process, Executor, Mishap
<1> QED
  BY <1>1, <1>2

LEMMA NextIsGood == TypeInv /\ ResticPodInv /\ [Next]_vars => Good
<1> SUFFICES ASSUME TypeInv, ResticPodInv, [Next]_vars PROVE Good
  OBVIOUS
<1>1. CASE UNCHANGED vars
  BY <1>1 DEF Good, ResticPodInv, OneBackup, Active, WrapperInv, Made, Brought,
     IdIsOwn, WantedIsThere, SavedIsStored, NeverOlder, IdIsKept,
     SuccessIsEarned, vars, storeVars, containerVars
<1>2. CASE Next
  BY <1>2, ProcessIsGood, ExecutorIsGood DEF Next, Process, Executor, Mishap
<1> QED
  BY <1>1, <1>2

LEMMA ResticPodInvHolds == Spec => [](TypeInv /\ ResticPodInv)
<1>1. Init => TypeInv /\ ResticPodInv
  BY InitIsGood
<1>2. (TypeInv /\ ResticPodInv) /\ [Next]_vars => (TypeInv /\ ResticPodInv)'
  BY NextTypes, NextIsGood DEF Good
<1> QED
  BY <1>1, <1>2, PTL DEF Spec

\* Type correctness: in particular no container is started beyond the limit.
THEOREM PodTypeOK == Spec => []TypeOK
BY ResticPodInvHolds, PTL DEF TypeInv

\* The id in the claim's VolumeBackup is that of a complete snapshot, through
\* all the backups of the claim and whatever becomes of their containers.
THEOREM SavedIsAlwaysStored == Spec => []SavedIsStored
BY ResticPodInvHolds, PTL DEF ResticPodInv

\* A restore job that ends well has brought back the snapshot its VolumeBackup
\* named when it started, or a later one.
THEOREM RestoresNeverOlder == Spec => []NeverOlder
BY ResticPodInvHolds, PTL DEF ResticPodInv

\* A backup job ends well only with its own snapshot, which is the last of the
\* repository, named in the VolumeBackup, and with no error left.
THEOREM SuccessIsAlwaysTrue == Spec => SuccessIsTrue
<1>1. TypeInv /\ ResticPodInv /\ [Next]_vars
      => [\A b \in Backups :
            step[b] # "succeeded" /\ step'[b] = "succeeded" =>
              /\ vb'.id \in DOMAIN snapshots' /\ ~vb'.error
              /\ snapshots'[vb'.id] = [of |-> b, complete |-> TRUE]]_vars
  BY NextIsGood DEF Good, SuccessIsEarned
<1> QED
  BY <1>1, ResticPodInvHolds, PTL DEF Spec, SuccessIsTrue

\* The id goes from the VolumeBackup only together with an error in it, never by
\* a report of progress.
THEOREM IdGoesWithError == Spec => SavedOrError
<1>1. TypeInv /\ ResticPodInv /\ [Next]_vars
      => [vb.id # 0 => vb'.id = vb.id \/ (vb'.id = 0 /\ vb'.error)]_vars
  BY NextIsGood DEF Good, IdIsKept
<1> QED
  BY <1>1, ResticPodInvHolds, PTL DEF Spec, SavedOrError

=============================================================================
