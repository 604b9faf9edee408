---------------------------- MODULE KopiaPodProofs ----------------------------
(***************************************************************************)
(* What the executor's containers write is true: proofs about KopiaPod for *)
(* any number of jobs, any backoff limit and any number of faults.  Every  *)
(* action is one of a single job; a container that starts over must find   *)
(* its way by what earlier ones have written.                              *)
(***************************************************************************)
EXTENDS KopiaPod, TLAPS

\* A job only takes the steps of its kind.
OwnSteps ==
  \A j \in Jobs : /\ step[j] = "backup"  => j \in Backups
                  /\ step[j] = "restore" => j \in Restores
                  /\ step[j] = "delete"  => j \in Deletes

TypeInv == TypeOK /\ OwnSteps

\* A snapshot id is written by the last command of a container; whatever comes
\* later is through, or starts over and finds it.
IdIsLast ==
  \A b \in Backups :
    vb[b].id # 0 =>
      \/ step[b] \in {"start", "done", "exited", "succeeded", "failed"}
      \/ /\ step[b] = "backup" /\ proc[b] = "reported" /\ finished[b]
         /\ lastError[b] = "none" /\ vb[b].id = attempt[b]

\* Which command's wrapper can be in which state, and that its end is real.
WrapperInv ==
  \A j \in Jobs :
    /\ proc[j] \in {"exists", "parsing"} \/ lastError[j] = "exists"
       => step[j] = "create"
    /\ proc[j] = "clearing" => step[j] = "delete"
    /\ finished[j] /\ step[j] = "backup"
       => proc[j] = "reported" /\ lastError[j] = "none"
    /\ proc[j] = "ok" \/ finished[j]
       => /\ step[j] = "backup" => <<j, attempt[j]>> \in stored
          /\ step[j] = "restore" => j \in restored

\* A backup that goes on has no delete job that could take its snapshot away.
DeletesFollow ==
  \A j \in Deletes :
    /\ step[j] = "none" => arg[j] = 0
    /\ step[j] # "none" => step[SourceOf[j]] = "succeeded"

\* A container that is through has done what its job will be complete for.
DoneIsTrue ==
  \A j \in Backups \cup Restores :
    step[j] \in {"done", "succeeded"} =>
      /\ ~vb[j].error
      /\ j \in Backups => vb[j].id # 0
      /\ j \in Restores => j \in restored

\* Past its start a container of a backup has a VolumeBackup; one that nobody
\* has created yet says nothing.
MadeFirst ==
  \A b \in Backups :
    vb[b].spec = "none" => /\ step[b] \in {"none", "start", "exited", "failed"}
                           /\ vb[b].id = 0 /\ ~vb[b].error

PodInv ==
  /\ WrapperInv /\ IdIsLast /\ DeletesFollow /\ SavedIsStored /\ DoneIsTrue
  /\ MadeFirst

-----------------------------------------------------------------------------
(* Types                                                                   *)

CommandTypes ==
  /\ OwnSteps /\ step \in [Jobs -> Steps] /\ policyRunning \in SUBSET Jobs
  /\ proc \in [Jobs -> {"idle", "running", "half", "ok", "partial", "exists",
                        "bad", "parsing", "clearing", "reported"}]
  /\ lastError \in [Jobs -> {"none", "error", "exists"}]
  /\ finished \in [Jobs -> BOOLEAN] /\ seen \in [Jobs -> BOOLEAN]

LEMMA EnterTypes ==
  ASSUME TypeInv, NEW j \in Jobs, NEW s \in Steps, Enter(j, s),
         s \notin {"backup", "restore", "delete"}
  PROVE  CommandTypes'
BY DEF TypeInv, OwnSteps, TypeOK, Enter, CommandTypes, Commands, Ended

\* Where a command follows, it is one of the job's kind.
LEMMA FollowTypes ==
  ASSUME TypeInv, NEW j \in Jobs, Enter(j, Following(j))
  PROVE  CommandTypes'
<1>1. PICK s \in Steps : /\ Enter(j, s)
                         /\ s = "backup"  => j \in Backups
                         /\ s = "restore" => j \in Restores
                         /\ s = "delete"  => j \in Deletes
  BY DEF Following, Jobs, Steps, Commands, Retried, Ended
<1> QED
  BY <1>1 DEF TypeInv, OwnSteps, TypeOK, Enter, CommandTypes, Commands, Ended

LEMMA FaultTypes == ASSUME TypeInv, Fault PROVE faults' \in 0..MaxFaults
BY LimitAssumption DEF TypeInv, TypeOK, Fault

LEMMA ExitTypes ==
  ASSUME TypeInv, NEW j \in Jobs, Exit(j)
  PROVE  CommandTypes'
BY EnterTypes DEF Exit, Steps

LEMMA WriteTypes ==
  ASSUME TypeInv, NEW j \in Jobs, NEW id \in {0} \cup Attempts,
         NEW error \in BOOLEAN, WriteStatus(j, id, error)
  PROVE  vb' \in [Backups \cup Restores -> VolumeBackupType]
<1>1. CASE j \in Deletes
  BY <1>1 DEF WriteStatus, TypeInv, TypeOK
<1>2. CASE j \notin Deletes
  <2>1. j \in Backups \cup Restores
    BY <1>2 DEF Jobs
  <2>2. vb[j] \in VolumeBackupType
    BY <2>1 DEF TypeInv, TypeOK
  <2>3. [[vb[j] EXCEPT !.id = id] EXCEPT !.error = error] \in VolumeBackupType
    BY <2>2 DEF VolumeBackupType
  <2> QED
    BY <1>2, <2>1, <2>3 DEF WriteStatus, TypeInv, TypeOK, VolumeBackupType
<1> QED
  BY <1>1, <1>2

LEMMA WriteFailureTypes ==
  ASSUME TypeInv, NEW j \in Jobs, WriteFailure(j)
  PROVE  /\ vb' \in [Backups \cup Restores -> VolumeBackupType]
         /\ deleteFailed' \in SUBSET Deletes
BY WriteTypes DEF WriteFailure, TypeInv, TypeOK

\* The kopia processes and their goroutines.
LEMMA ProcessTypes ==
  ASSUME TypeInv, NEW j \in Jobs,
         \/ CreateRepository(j) \/ ConnectRepository(j) \/ SetCompression(j)
         \/ CreateSnapshot(j) \/ CreateIncompleteSnapshot(j)
         \/ RestoreSnapshot(j) \/ DeleteSnapshot(j) \/ CommandFails(j)
         \/ SetPolicy(j) \/ Wait(j)
  PROVE  TypeInv'
<1> USE DEF TypeInv, OwnSteps, TypeOK, CommandTypes, storeVars, resourceVars,
          containerVars
<1>1. CASE CreateRepository(j)
  BY <1>1 DEF CreateRepository, At, Returns, Commands
<1>2. CASE ConnectRepository(j)
  BY <1>2 DEF ConnectRepository, At, Returns, Commands
<1>3. CASE SetCompression(j)
  BY <1>3 DEF SetCompression, At, Returns, Commands
<1>4. CASE CreateSnapshot(j)
  BY <1>4 DEF CreateSnapshot, At, Returns, Commands
<1>5. CASE CreateIncompleteSnapshot(j)
  BY <1>5, FaultTypes DEF CreateIncompleteSnapshot, At, Returns, Commands
<1>6. CASE RestoreSnapshot(j)
  BY <1>6 DEF RestoreSnapshot, At, Returns, Commands, Jobs, Steps
<1>7. CASE DeleteSnapshot(j)
  BY <1>7 DEF DeleteSnapshot, At, Returns, Commands
<1>8. CASE CommandFails(j)
  BY <1>8, FaultTypes DEF CommandFails, At, Returns, Commands
<1>9. CASE SetPolicy(j)
  BY <1>9, FaultTypes DEF SetPolicy
<1>10. CASE Wait(j)
  BY <1>10 DEF Wait, Report
<1> QED
  BY <1>1, <1>2, <1>3, <1>4, <1>5, <1>6, <1>7, <1>8, <1>9, <1>10

\* The executor.
LEMMA ExecutorTypes ==
  ASSUME TypeInv, NEW j \in Jobs,
         \/ StartJob(j) \/ PrepareBackup(j) \/ NoteBadCredentials(j)
         \/ PrepareOther(j) \/ CheckRepository(j) \/ ReadError(j)
         \/ ReadFinished(j) \/ WriteFails(j) \/ LeavePolicy(j) \/ GiveUp(j)
         \/ TimeOut(j) \/ Kill(j) \/ CompleteJob(j) \/ Restart(j)
  PROVE  TypeInv'
<1> USE DEF TypeInv, OwnSteps, TypeOK, CommandTypes, storeVars, resourceVars,
          containerVars
<1>1. CASE StartJob(j)
  <2>1. CommandTypes'
    BY <1>1, EnterTypes DEF StartJob, Steps
  <2>2. /\ vb' \in [Backups \cup Restores -> VolumeBackupType]
        /\ arg' \in [Restores \cup Deletes -> {0} \cup Attempts]
    <3>1. CASE UNCHANGED <<arg, vb>>
      BY <3>1
    <3>2. CASE /\ j \in Restores \cup Deletes
               /\ arg' = [arg EXCEPT ![j] = vb[SourceOf[j]].id]
               /\ vb' = IF j \in Restores
                        THEN [vb EXCEPT ![j] = vb[SourceOf[j]]] ELSE vb
      <4>1. vb[SourceOf[j]] \in VolumeBackupType
        BY <3>2, SourceAssumption
      <4>2. vb[SourceOf[j]].id \in {0} \cup Attempts
        BY <4>1 DEF VolumeBackupType
      <4> QED
        BY <3>2, <4>1, <4>2
    <3> QED
      BY <1>1, <3>1, <3>2 DEF StartJob
  <2> QED
    BY <1>1, <2>1, <2>2 DEF StartJob
<1>2. CASE PrepareBackup(j)
  <2>1. j \in Backups /\ vb[j] \in VolumeBackupType
    BY <1>2 DEF PrepareBackup
  <2>2. CASE /\ vb' = [vb EXCEPT ![j].spec = "named"]
             /\ Enter(j, "exists") /\ UNCHANGED faults
    <3>1. [vb[j] EXCEPT !.spec = "named"] \in VolumeBackupType
      BY <2>1 DEF VolumeBackupType
    <3>2. CommandTypes'
      BY <2>2, EnterTypes DEF Steps, Retried
    <3> QED
      BY <1>2, <2>1, <2>2, <3>1, <3>2 DEF PrepareBackup
  <2>3. CASE Exit(j) /\ UNCHANGED <<vb, faults>>
    BY <1>2, <2>3, ExitTypes DEF PrepareBackup
  <2>4. CASE /\ ParseCloudCredFails /\ Enter(j, "blank")
             /\ vb' = [vb EXCEPT ![j].spec = "blank"]
    <3>1. [vb[j] EXCEPT !.spec = "blank"] \in VolumeBackupType
      BY <2>1 DEF VolumeBackupType
    <3>2. CommandTypes'
      BY <2>4, EnterTypes DEF Steps
    <3> QED
      BY <1>2, <2>1, <2>4, <3>1, <3>2, FaultTypes
         DEF PrepareBackup, ParseCloudCredFails
  <2> QED
    BY <1>2, <2>2, <2>3, <2>4 DEF PrepareBackup
<1>3. CASE PrepareOther(j)
  BY <1>3, FaultTypes, EnterTypes, ExitTypes, WriteFailureTypes DEF
     PrepareOther, Steps, Commands, Retried, Ended, ParseCloudCredFails
<1>4. CASE CheckRepository(j)
  BY <1>4, EnterTypes DEF CheckRepository, Steps, Commands, Retried, Ended
<1>5. CASE ReadError(j)
  BY <1>5, EnterTypes, ExitTypes, FollowTypes, WriteTypes, WriteFailureTypes
     DEF ReadError, Steps, Commands, Retried, Ended
<1>6. CASE ReadFinished(j)
  BY <1>6, EnterTypes, FollowTypes, WriteTypes DEF ReadFinished, Answer
<1>7. CASE WriteFails(j)
  BY <1>7, FaultTypes, WriteTypes DEF WriteFails, Answer
<1>8. CASE LeavePolicy(j)
  BY <1>8, EnterTypes DEF LeavePolicy, Steps, Commands, Retried, Ended
<1>9. CASE GiveUp(j)
  BY <1>9, ExitTypes, WriteFailureTypes DEF GiveUp
<1>10. CASE TimeOut(j)
  BY <1>10, FaultTypes, ExitTypes, WriteFailureTypes DEF TimeOut
<1>11. CASE Kill(j)
  BY <1>11, FaultTypes, ExitTypes DEF Kill
<1>12. CASE CompleteJob(j)
  BY <1>12, EnterTypes DEF CompleteJob, Steps, Ended
<1>13. CASE Restart(j)
  <2>1. \E s \in {"start", "failed"} : Enter(j, s)
    BY <1>13 DEF Restart
  <2>2. CommandTypes'
    BY <2>1, EnterTypes DEF Steps, Ended
  <2>3. attempt' \in [Jobs -> Attempts]
    BY <1>13, LimitAssumption DEF Restart, Attempts
  <2> QED
    BY <1>13, <2>2, <2>3 DEF Restart
<1>14. CASE NoteBadCredentials(j)
  BY <1>14, ExitTypes, WriteFailureTypes DEF NoteBadCredentials
<1> QED
  BY <1>1, <1>2, <1>3, <1>4, <1>5, <1>6, <1>7, <1>8, <1>9, <1>10, <1>11,
     <1>12, <1>13, <1>14

-----------------------------------------------------------------------------
(* What the containers write                                               *)

\* One step of SavedStays.
IdStays == \A k \in Backups : vb[k].id # 0 => vb'[k].id = vb[k].id

Good == PodInv' /\ IdStays

\* The start of a step, and the end of a container, leave no trace of the
\* wrapper before.
LEMMA EnterEffect ==
  ASSUME TypeInv, NEW j \in Jobs, NEW s, Enter(j, s)
  PROVE  /\ step'[j] = s /\ proc'[j] \in {"running", "idle"}
         /\ ~finished'[j] /\ lastError'[j] = "none"
         /\ \A k \in Jobs \ {j} :
              /\ step'[k] = step[k] /\ proc'[k] = proc[k]
              /\ finished'[k] = finished[k] /\ lastError'[k] = lastError[k]
BY DEF TypeInv, TypeOK, Enter

LEMMA WriteEffect ==
  ASSUME TypeInv, NEW j \in Jobs, NEW id, NEW error, WriteStatus(j, id, error)
  PROVE  /\ j \in Backups \cup Restores => /\ vb'[j].id = id
                                           /\ vb'[j].error = error
                                           /\ vb'[j].spec = vb[j].spec
         /\ \A k \in (Backups \cup Restores) \ {j} : vb'[k] = vb[k]
<1>1. CASE j \in Deletes
  BY <1>1, JobsAssumption DEF WriteStatus
<1>2. CASE j \notin Deletes
  <2>1. j \in Backups \cup Restores
    BY <1>2 DEF Jobs
  <2>2. vb[j] \in VolumeBackupType
    BY <2>1 DEF TypeInv, TypeOK
  <2>3. /\ [[vb[j] EXCEPT !.id = id] EXCEPT !.error = error].id = id
        /\ [[vb[j] EXCEPT !.id = id] EXCEPT !.error = error].error = error
        /\ [[vb[j] EXCEPT !.id = id] EXCEPT !.error = error].spec = vb[j].spec
    BY <2>2 DEF VolumeBackupType
  <2> QED
    BY <1>2, <2>1, <2>3 DEF WriteStatus, TypeInv, TypeOK
<1> QED
  BY <1>1, <1>2

LEMMA EmptyStatus ==
  ASSUME TypeInv, NEW j \in Backups, WriteStatus(j, 0, FALSE)
  PROVE  vb'[j].id = 0
BY WriteEffect DEF Jobs

\* A container that exits keeps the id.
LEMMA ExitIsGood ==
  ASSUME TypeInv, PodInv, NEW j \in Jobs, Exit(j),
         step[j] \notin {"none", "succeeded"},
         j \in Backups => /\ vb'[j].id = vb[j].id
                          /\ \/ vb'[j].spec # "none"
                             \/ vb'[j].spec = vb[j].spec /\ ~vb'[j].error,
         \A k \in (Backups \cup Restores) \ {j} : vb'[k] = vb[k],
         UNCHANGED <<stored, restored, arg, attempt>>
  PROVE  Good
<1>1. /\ step'[j] = "exited" /\ proc'[j] \in {"running", "idle"}
      /\ ~finished'[j] /\ lastError'[j] = "none"
      /\ \A k \in Jobs \ {j} :
           /\ step'[k] = step[k] /\ proc'[k] = proc[k]
           /\ finished'[k] = finished[k] /\ lastError'[k] = lastError[k]
  BY EnterEffect DEF Exit
<1> QED
  BY <1>1, SourceAssumption, JobsAssumption DEF Good, IdStays, PodInv,
     WrapperInv, IdIsLast, DeletesFollow, SavedIsStored, DoneIsTrue, MadeFirst,
     Wanted, Jobs

\* Outside its last command a container that goes on finds no id.
LEMMA NoIdYet ==
  ASSUME PodInv, NEW j \in Backups,
         step[j] \notin {"start", "done", "exited", "succeeded", "failed"},
         step[j] # "backup" \/ ~finished[j] \/ lastError[j] # "none"
  PROVE  vb[j].id = 0
BY DEF PodInv, IdIsLast

LEMMA AttemptIsPositive ==
  ASSUME TypeInv, NEW j \in Jobs PROVE attempt[j] # 0
<1>1. attempt[j] \in Attempts
  BY DEF TypeInv, TypeOK
<1> QED
  BY <1>1, LimitAssumption DEF Attempts

\* The id that a poll writes is that of the attempt, of its last command only.
LEMMA WrittenId ==
  ASSUME TypeInv, PodInv, NEW j \in Backups, step[j] \in Commands,
         WriteStatus(j, Answer(j), FALSE) \/ UNCHANGED vb
  PROVE  /\ vb[j].id # 0 => vb'[j].id = vb[j].id
         /\ vb'[j].id # 0 =>
              /\ step[j] = "backup" /\ finished[j] /\ vb'[j].id = attempt[j]
<1>1. vb[j].id # 0 => /\ step[j] = "backup" /\ finished[j]
                      /\ vb[j].id = attempt[j]
  BY DEF PodInv, IdIsLast, Commands
<1>2. CASE WriteStatus(j, Answer(j), FALSE)
  <2>1. vb'[j].id = Answer(j)
    BY <1>2, WriteEffect DEF Jobs
  <2> QED
    BY <1>1, <2>1 DEF Answer
<1> QED
  BY <1>1, <1>2

\* What is written during a command leaves a repository name in place.
LEMMA StaysMade ==
  ASSUME TypeInv, PodInv, NEW j \in Backups, step[j] \in Commands,
         NEW id, NEW error, WriteStatus(j, id, error) \/ UNCHANGED vb
  PROVE  vb'[j].spec # "none"
<1>1. vb[j].spec # "none"
  BY DEF PodInv, MadeFirst, Commands
<1> QED
  BY <1>1, WriteEffect DEF Jobs

\* A poll that finds the command still running, or whose write fails, leaves the
\* rest alone.
LEMMA PollIsGood ==
  ASSUME TypeInv, PodInv, NEW j \in Jobs, step[j] \in Commands,
         WriteStatus(j, Answer(j), FALSE) \/ UNCHANGED vb,
         UNCHANGED <<stored, restored, arg, attempt, step, proc, lastError,
                     finished>>
  PROVE  Good
<1>1. \A k \in (Backups \cup Restores) \ {j} : vb'[k] = vb[k]
  BY WriteEffect
<1>2. ASSUME NEW b \in Backups
      PROVE  /\ vb[b].id # 0 => vb'[b].id = vb[b].id
             /\ vb'[b].id # 0 =>
                  \/ vb'[b].id = vb[b].id
                  \/ /\ b = j /\ step[b] = "backup" /\ finished[b]
                     /\ vb'[b].id = attempt[b]
  BY <1>1, <1>2, WrittenId
<1>3. WrapperInv' /\ DeletesFollow'
  BY SourceAssumption DEF PodInv, WrapperInv, DeletesFollow
<1>4. IdIsLast'
  BY <1>2 DEF PodInv, IdIsLast, WrapperInv, Jobs
<1>5. SavedIsStored'
  BY <1>2 DEF PodInv, SavedIsStored, WrapperInv, Wanted, Jobs
<1>6. DoneIsTrue'
  <2>1. ASSUME NEW k \in Backups \cup Restores, step'[k] \in {"done", "succeeded"}
        PROVE  vb'[k] = vb[k] /\ step[k] = step'[k]
    BY <1>1, <2>1 DEF Commands
  <2> QED
    BY <2>1 DEF PodInv, DoneIsTrue
<1>7. MadeFirst'
  <2>1. ASSUME NEW k \in Backups PROVE vb'[k] = vb[k] \/ vb'[k].spec # "none"
    BY <1>1, <2>1, StaysMade
  <2> QED
    BY <2>1 DEF PodInv, MadeFirst
<1> QED
  BY <1>2, <1>3, <1>4, <1>5, <1>6, <1>7 DEF Good, IdStays, PodInv

LEMMA FailureIsGood ==
  ASSUME TypeInv, PodInv, NEW j \in Jobs, WriteFailure(j), Exit(j),
         step[j] \notin {"none", "start", "done", "exited", "succeeded", "failed"},
         step[j] # "backup" \/ lastError[j] # "none",
         UNCHANGED <<stored, restored, arg, attempt>>
  PROVE  Good
<1>1. \A k \in (Backups \cup Restores) \ {j} : vb'[k] = vb[k]
  BY WriteEffect DEF WriteFailure
<1>2. j \in Backups => vb'[j].id = vb[j].id /\ vb'[j].spec # "none"
  BY WriteEffect, NoIdYet DEF WriteFailure, PodInv, MadeFirst
<1> QED
  BY <1>1, <1>2, ExitIsGood

\* A container that goes on to its next step: a backup has no id before and after.
LEMMA GoingOnIsGood ==
  ASSUME TypeInv, PodInv, NEW j \in Jobs, NEW s, Enter(j, s),
         s \notin {"none", "done", "succeeded"},
         step[j] \notin {"none", "succeeded"},
         j \in Backups => /\ vb[j].id = 0 /\ vb'[j].id = 0
                          /\ vb'[j].spec # "none",
         \A k \in (Backups \cup Restores) \ {j} : vb'[k] = vb[k],
         UNCHANGED <<stored, restored, arg, attempt>>
  PROVE  Good
<1>1. /\ step'[j] = s /\ proc'[j] \in {"running", "idle"}
      /\ ~finished'[j] /\ lastError'[j] = "none"
      /\ \A k \in Jobs \ {j} :
           /\ step'[k] = step[k] /\ proc'[k] = proc[k]
           /\ finished'[k] = finished[k] /\ lastError'[k] = lastError[k]
  BY EnterEffect
<1>2. WrapperInv' /\ DeletesFollow'
  BY <1>1, SourceAssumption DEF PodInv, WrapperInv, DeletesFollow, Jobs
<1>3. IdIsLast' /\ MadeFirst' /\ IdStays
  BY <1>1 DEF PodInv, IdIsLast, MadeFirst, IdStays, Jobs
<1>4. SavedIsStored' /\ DoneIsTrue'
  BY <1>1 DEF PodInv, SavedIsStored, DoneIsTrue, Wanted, Jobs
<1> QED
  BY <1>2, <1>3, <1>4 DEF Good, PodInv

\* The last poll of the last command writes what the container has done.
LEMMA LastCommandIsGood ==
  ASSUME TypeInv, PodInv, NEW j \in Jobs, ReadFinished(j), finished[j],
         step[j] \in {"backup", "restore", "delete"}
  PROVE  Good
<1>1. /\ j \in Backups => step[j] = "backup"
      /\ j \in Restores => step[j] = "restore"
      /\ j \in Backups \cup Restores => step[j] # "delete"
  BY JobsAssumption DEF TypeInv, OwnSteps
<1>2. Enter(j, "done") /\ UNCHANGED <<stored, restored, arg, attempt>>
  BY DEF ReadFinished, Following, storeVars
<1>3. /\ step'[j] = "done" /\ proc'[j] \in {"running", "idle"}
      /\ ~finished'[j] /\ lastError'[j] = "none"
      /\ \A k \in Jobs \ {j} :
           /\ step'[k] = step[k] /\ proc'[k] = proc[k]
           /\ finished'[k] = finished[k] /\ lastError'[k] = lastError[k]
  BY <1>2, EnterEffect
<1>4. step[j] \in Commands
  BY DEF Commands
<1>5. WriteStatus(j, Answer(j), FALSE) \/ UNCHANGED vb
  BY DEF ReadFinished
<1>6. \A k \in (Backups \cup Restores) \ {j} : vb'[k] = vb[k]
  BY <1>5, WriteEffect
<1>7. ASSUME j \in Backups \cup Restores
      PROVE  /\ ~vb'[j].error /\ vb'[j].id = Answer(j)
             /\ vb'[j].spec = vb[j].spec
  <2>1. WriteStatus(j, Answer(j), FALSE)
    BY <1>1, <1>7 DEF ReadFinished, Written
  <2> QED
    BY <1>7, <2>1, WriteEffect
<1>8. ASSUME j \in Backups
      PROVE  /\ vb'[j].id = attempt[j] /\ attempt[j] # 0
             /\ vb[j].id # 0 => vb'[j].id = vb[j].id
             /\ <<j, attempt[j]>> \in stored /\ vb'[j].spec # "none"
  <2>1. Answer(j) = attempt[j] /\ attempt[j] # 0
    BY <1>1, <1>8, AttemptIsPositive DEF Answer
  <2>2. vb[j].id # 0 => vb'[j].id = vb[j].id
    BY <1>4, <1>5, <1>8, WrittenId
  <2>3. <<j, attempt[j]>> \in stored
    BY <1>1, <1>8 DEF PodInv, WrapperInv
  <2>4. vb[j].spec # "none"
    BY <1>1, <1>8 DEF PodInv, MadeFirst
  <2> QED
    BY <1>7, <1>8, <2>1, <2>2, <2>3, <2>4
<1>9. j \in Restores => j \in restored
  BY <1>1 DEF PodInv, WrapperInv
<1>10. WrapperInv' /\ DeletesFollow'
  BY <1>2, <1>3, SourceAssumption DEF PodInv, WrapperInv, DeletesFollow, Jobs
<1>11. IdIsLast' /\ MadeFirst' /\ IdStays
  BY <1>2, <1>3, <1>6, <1>8 DEF PodInv, IdIsLast, MadeFirst, IdStays, Jobs
<1>12. SavedIsStored'
  BY <1>2, <1>6, <1>8 DEF PodInv, SavedIsStored, Wanted
<1>13. DoneIsTrue'
  BY <1>2, <1>3, <1>6, <1>7, <1>8, <1>9 DEF PodInv, DoneIsTrue, Jobs
<1> QED
  BY <1>10, <1>11, <1>12, <1>13 DEF Good, PodInv

\* The kopia processes and their goroutines.
LEMMA ProcessIsGood ==
  ASSUME TypeInv, PodInv, NEW j \in Jobs,
         \/ CreateRepository(j) \/ ConnectRepository(j) \/ SetCompression(j)
         \/ CreateSnapshot(j) \/ CreateIncompleteSnapshot(j)
         \/ RestoreSnapshot(j) \/ DeleteSnapshot(j) \/ CommandFails(j)
         \/ SetPolicy(j) \/ Wait(j)
  PROVE  Good
<1> USE DEF Good, IdStays, PodInv, WrapperInv, IdIsLast, DeletesFollow,
          SavedIsStored, DoneIsTrue, MadeFirst, Wanted, TypeInv, OwnSteps, TypeOK,
          storeVars, resourceVars, containerVars, Jobs, Commands, Ended
<1>1. CASE CreateRepository(j)
  BY <1>1 DEF CreateRepository, At, Returns
<1>2. CASE ConnectRepository(j)
  BY <1>2 DEF ConnectRepository, At, Returns
<1>3. CASE SetCompression(j)
  BY <1>3 DEF SetCompression, At, Returns
<1>4. CASE CreateSnapshot(j)
  BY <1>4 DEF CreateSnapshot, At, Returns
<1>5. CASE CreateIncompleteSnapshot(j)
  BY <1>5 DEF CreateIncompleteSnapshot, At, Returns
<1>6. CASE RestoreSnapshot(j)
  BY <1>6 DEF RestoreSnapshot, At, Returns
<1>7. CASE DeleteSnapshot(j)
  BY <1>7 DEF DeleteSnapshot, At, Returns
<1>8. CASE CommandFails(j)
  BY <1>8 DEF CommandFails, At, Returns
<1>9. CASE SetPolicy(j)
  BY <1>9 DEF SetPolicy
<1>10. CASE Wait(j)
  BY <1>10 DEF Wait, Report
<1> QED
  BY <1>1, <1>2, <1>3, <1>4, <1>5, <1>6, <1>7, <1>8, <1>9, <1>10

\* The executor.
LEMMA ExecutorIsGood ==
  ASSUME TypeInv, PodInv, NEW j \in Jobs,
         \/ StartJob(j) \/ PrepareBackup(j) \/ NoteBadCredentials(j)
         \/ PrepareOther(j) \/ CheckRepository(j) \/ ReadError(j)
         \/ ReadFinished(j) \/ WriteFails(j) \/ LeavePolicy(j) \/ GiveUp(j)
         \/ TimeOut(j) \/ Kill(j) \/ CompleteJob(j) \/ Restart(j)
  PROVE  Good
<1> USE DEF Good, IdStays, PodInv, WrapperInv, IdIsLast, DeletesFollow,
          SavedIsStored, DoneIsTrue, MadeFirst, Wanted, TypeInv, OwnSteps, TypeOK,
          storeVars, resourceVars, containerVars, Jobs, Commands, Ended
<1>1. CASE StartJob(j)
  BY <1>1, SourceAssumption, JobsAssumption DEF StartJob, Enter
<1>2. CASE PrepareBackup(j)
  <2>1. /\ j \in Backups /\ step[j] = "start"
        /\ UNCHANGED <<stored, restored, arg, attempt>>
    BY <1>2 DEF PrepareBackup
  <2>2. CASE /\ vb[j].spec \in {"none", "named"} /\ vb[j].id = 0
             /\ vb' = [vb EXCEPT ![j].spec = "named"]
             /\ Enter(j, "exists") /\ UNCHANGED faults
    <3>1. /\ vb'[j].id = 0 /\ vb'[j].spec = "named"
          /\ \A k \in (Backups \cup Restores) \ {j} : vb'[k] = vb[k]
      BY <2>1, <2>2 DEF VolumeBackupType
    <3> QED
      BY <2>1, <2>2, <3>1, EnterEffect, SourceAssumption, JobsAssumption
  <2>3. CASE Exit(j) /\ UNCHANGED <<vb, faults>>
    BY <2>1, <2>3, ExitIsGood
  <2>4. CASE /\ vb[j].id = 0 /\ Enter(j, "blank")
             /\ vb' = [vb EXCEPT ![j].spec = "blank"]
    <3>1. /\ vb'[j].id = 0 /\ vb'[j].spec = "blank"
          /\ \A k \in (Backups \cup Restores) \ {j} : vb'[k] = vb[k]
      BY <2>1, <2>4 DEF VolumeBackupType
    <3> QED
      BY <2>1, <2>4, <3>1, EnterEffect, SourceAssumption, JobsAssumption
  <2> QED
    BY <1>2, <2>2, <2>3, <2>4 DEF PrepareBackup
<1>3. CASE PrepareOther(j)
  <2>1. /\ step[j] = "start" /\ j \notin Backups
        /\ UNCHANGED <<stored, restored, arg, attempt>>
    BY <1>3, JobsAssumption DEF PrepareOther
  <2>2. CASE Enter(j, "connect") /\ UNCHANGED resourceVars
    BY <2>1, <2>2, GoingOnIsGood
  <2>3. CASE WriteFailure(j) /\ Exit(j)
    <3>1. \A k \in (Backups \cup Restores) \ {j} : vb'[k] = vb[k]
      BY <2>3, WriteEffect DEF WriteFailure
    <3> QED
      BY <2>1, <2>3, <3>1, ExitIsGood
  <2> QED
    BY <1>3, <2>2, <2>3 DEF PrepareOther
<1>4. CASE CheckRepository(j)
  BY <1>4, SourceAssumption, JobsAssumption DEF CheckRepository, Enter
<1>5. CASE ReadError(j)
  <2>1. step[j] \in Commands /\ UNCHANGED <<stored, restored, arg, attempt>>
    BY <1>5 DEF ReadError
  <2>2. CASE /\ lastError[j] = "none"
             /\ UNCHANGED <<resourceVars, step, policyRunning, proc, lastError,
                            finished>>
    BY <2>1, <2>2
  <2>3. CASE /\ lastError[j] = "exists"
             /\ WriteStatus(j, 0, FALSE) /\ Enter(j, Following(j))
             /\ UNCHANGED deleteFailed
    <3>1. step[j] = "create" /\ Following(j) = "policy"
      BY <2>3 DEF Following
    <3>2. j \in Backups => vb[j].id = 0 /\ vb'[j].id = 0
      <4>1. j \in Backups => vb[j].id = 0
        BY <3>1, NoIdYet
      <4>2. ASSUME j \in Backups PROVE vb'[j].id = 0
        BY <2>3, <4>2, EmptyStatus
      <4> QED
        BY <4>1, <4>2
    <3>3. \A k \in (Backups \cup Restores) \ {j} : vb'[k] = vb[k]
      BY <2>3, WriteEffect
    <3>4. j \in Backups => vb'[j].spec # "none"
      BY <2>1, <2>3, StaysMade
    <3> QED
      BY <2>1, <2>3, <3>1, <3>2, <3>3, <3>4, GoingOnIsGood
  <2>4. CASE /\ lastError[j] = "error" /\ WriteFailure(j) /\ Exit(j)
    BY <2>1, <2>4, FailureIsGood
  <2> QED
    BY <1>5, <2>2, <2>3, <2>4 DEF ReadError
<1>6. CASE ReadFinished(j)
  <2>1. step[j] \in Commands /\ UNCHANGED <<stored, restored, arg, attempt>>
    BY <1>6 DEF ReadFinished
  <2>2. WriteStatus(j, Answer(j), FALSE) \/ UNCHANGED vb
    BY <1>6 DEF ReadFinished
  <2>3. CASE ~finished[j]
    <3>1. UNCHANGED <<step, proc, lastError, finished>>
      BY <1>6, <2>3 DEF ReadFinished
    <3> QED
      BY <2>1, <2>2, <3>1, PollIsGood
  <2>4. CASE finished[j] /\ step[j] \in {"create", "connect", "compression"}
    <3>1. PICK s \in Commands \cup {"policy"} : Enter(j, s)
      BY <1>6, <2>4 DEF ReadFinished, Following, Commands
    <3>2. j \in Backups => vb[j].id = 0 /\ vb'[j].id = 0
      BY <2>1, <2>2, <2>4, WrittenId, NoIdYet
    <3>3. \A k \in (Backups \cup Restores) \ {j} : vb'[k] = vb[k]
      BY <2>2, WriteEffect
    <3>4. s \notin {"none", "exited", "done", "succeeded", "failed"}
      BY <3>1 DEF Commands
    <3>5. j \in Backups => vb'[j].spec # "none"
      BY <2>1, <2>2, StaysMade
    <3> QED
      BY <2>1, <2>4, <3>1, <3>2, <3>3, <3>4, <3>5, GoingOnIsGood
  <2>5. CASE finished[j] /\ step[j] \in {"backup", "restore", "delete"}
    BY <1>6, <2>5, LastCommandIsGood
  <2> QED
    BY <2>1, <2>3, <2>4, <2>5 DEF Commands
<1>7. CASE WriteFails(j)
  BY <1>7, PollIsGood DEF WriteFails
<1>8. CASE LeavePolicy(j)
  BY <1>8, SourceAssumption, JobsAssumption DEF LeavePolicy, Enter
<1>9. CASE GiveUp(j)
  BY <1>9, FailureIsGood DEF GiveUp, Retried
<1>10. CASE TimeOut(j)
  BY <1>10, FailureIsGood, ExitIsGood DEF TimeOut, Retried
<1>11. CASE Kill(j)
  BY <1>11, ExitIsGood DEF Kill
<1>12. CASE CompleteJob(j)
  BY <1>12, SourceAssumption, JobsAssumption DEF CompleteJob, Enter
<1>13. CASE Restart(j)
  BY <1>13, SourceAssumption, JobsAssumption DEF Restart, Enter
<1>14. CASE NoteBadCredentials(j)
  BY <1>14, FailureIsGood DEF NoteBadCredentials
<1> QED
  BY <1>1, <1>2, <1>3, <1>4, <1>5, <1>6, <1>7, <1>8, <1>9, <1>10, <1>11,
     <1>12, <1>13, <1>14

-----------------------------------------------------------------------------
(* The theorems                                                            *)

LEMMA InitIsGood == Init => TypeInv /\ PodInv
<1>1. Init => TypeInv
  <2>1. 1 \in Attempts /\ MaxFaults \in 0..MaxFaults
    BY LimitAssumption DEF Attempts
  <2>2. [spec |-> "none", id |-> 0, error |-> FALSE] \in VolumeBackupType
    BY DEF VolumeBackupType
  <2> SUFFICES ASSUME Init PROVE TypeOK /\ OwnSteps
    BY DEF TypeInv
  <2>3. /\ vb \in [Backups \cup Restores -> VolumeBackupType]
        /\ arg \in [Restores \cup Deletes -> {0} \cup Attempts]
        /\ attempt \in [Jobs -> Attempts] /\ faults \in 0..MaxFaults
    BY <2>1, <2>2 DEF Init
  <2>4. step \in [Jobs -> Steps] /\ OwnSteps
    BY DEF Init, OwnSteps, Steps
  <2> QED
    BY <2>3, <2>4 DEF Init, TypeOK
<1>2. Init => PodInv
  BY SourceAssumption DEF Init, PodInv, WrapperInv, IdIsLast, DeletesFollow,
     SavedIsStored, DoneIsTrue, MadeFirst, Wanted, Jobs
<1> QED
  BY <1>1, <1>2

LEMMA NextTypes == TypeInv /\ [Next]_vars => TypeInv'
<1> SUFFICES ASSUME TypeInv, [Next]_vars PROVE TypeInv'
  OBVIOUS
<1>1. CASE UNCHANGED vars
  BY <1>1 DEF TypeInv, TypeOK, OwnSteps, vars, storeVars, resourceVars,
     containerVars
<1>2. CASE Next
  BY <1>2, ProcessTypes, ExecutorTypes DEF Next, Process, Executor, Kubernetes,
     Mishap
<1> QED
  BY <1>1, <1>2

LEMMA NextIsGood == TypeInv /\ PodInv /\ [Next]_vars => Good
<1> SUFFICES ASSUME TypeInv, PodInv, [Next]_vars PROVE Good
  OBVIOUS
<1>1. CASE UNCHANGED vars
  BY <1>1 DEF Good, IdStays, PodInv, WrapperInv, IdIsLast, DeletesFollow,
     SavedIsStored, DoneIsTrue, MadeFirst, Wanted, vars, storeVars,
     resourceVars, containerVars
<1>2. CASE Next
  BY <1>2, ProcessIsGood, ExecutorIsGood DEF Next, Process, Executor,
     Kubernetes, Mishap
<1> QED
  BY <1>1, <1>2

LEMMA PodInvHolds == Spec => [](TypeInv /\ PodInv)
<1>1. Init => TypeInv /\ PodInv
  BY InitIsGood
<1>2. (TypeInv /\ PodInv) /\ [Next]_vars => (TypeInv /\ PodInv)'
  BY NextTypes, NextIsGood DEF Good
<1> QED
  BY <1>1, <1>2, PTL DEF Spec

\* Type correctness: in particular no container is started beyond the limit, and
\* no id but that of an attempt gets into a VolumeBackup.
THEOREM PodTypeOK == Spec => []TypeOK
BY PodInvHolds, PTL DEF TypeInv

\* An id in the VolumeBackup of a backup is that of a complete snapshot, however
\* the executor's reads of the wrapper fall among the goroutine's writes.
THEOREM SavedIsAlwaysStored == Spec => []SavedIsStored
BY PodInvHolds, PTL DEF PodInv

\* A job that is complete has done its work and said so, with no error left of
\* the attempts before.
THEOREM SuccessIsAlwaysTrue == Spec => []SuccessIsTrue
<1>1. PodInv => SuccessIsTrue
  BY DEF PodInv, DoneIsTrue, SuccessIsTrue
<1> QED
  BY <1>1, PodInvHolds, PTL

\* An id that is in the VolumeBackup of a backup stays, whatever containers are
\* killed and started over.
THEOREM IdIsFinal == Spec => SavedStays
<1>1. TypeInv /\ PodInv /\ [Next]_vars
      => [\A b \in Backups : vb[b].id # 0 => vb'[b].id = vb[b].id]_vars
  BY NextIsGood DEF Good, IdStays
<1> QED
  BY <1>1, PodInvHolds, PTL DEF Spec, SavedStays

-----------------------------------------------------------------------------
(* What the controller may expect                                          *)

\* A step of TransferJob, or none.
KeepsTo == [Contract!Next]_(Contract!vars)

\* Only the VolumeBackup of a job changes, and it says what TransferJob allows.
Says(j) ==
  /\ JobStates' = JobStates /\ UNCHANGED <<stored, restored>>
  /\ \A b \in Backups \ {j} : vb'[b] = vb[b]
  /\ j \in Backups =>
       \/ vb'[j] = vb[j]
       \/ /\ JobState(j) = "running" /\ vb'[j].spec # "none"
          /\ \/ /\ vb[j].id = 0 /\ vb'[j].id = 0
                /\ vb[j].spec = "none" => ~vb'[j].error
             \/ vb'[j].id # 0 /\ vb[j].spec # "none" /\ j \in Moved

LEMMA SayingIsAStep ==
  ASSUME TypeInv, NEW j \in Jobs, Says(j) PROVE KeepsTo
<1>1. Moved' = Moved
  <2>1. ASSUME NEW b \in Backups
        PROVE  (vb'[b].id # 0 \/ \E a \in Attempts : <<b, a>> \in stored) <=> b \in Moved
    BY <2>1, JobsAssumption DEF Says, Moved, TypeInv, TypeOK
  <2> QED
    BY <2>1 DEF Moved, Says
<1>2. ASSUME NEW b \in Backups, b # j PROVE VBState(b)' = VBState(b)
  BY <1>2 DEF Says, VBState
<1>3. CASE j \in Backups => VBState(j)' = VBState(j)
  <2>1. Reports' = Reports
    BY <1>2, <1>3 DEF Reports
  <2> QED
    BY <1>1, <2>1 DEF KeepsTo, Says, Contract!vars
<1>4. CASE j \in Backups /\ VBState(j)' # VBState(j)
  <2>1. \/ VBState(j) \in {"none", "error"} /\ VBState(j)' = "empty"
        \/ VBState(j) = "empty" /\ VBState(j)' = "error"
        \/ /\ VBState(j) \in {"empty", "error"} /\ VBState(j)' = "saved"
           /\ j \in Moved
    BY <1>4 DEF Says, VBState
  <2>2. JobStates[j] = "running" /\ Reports[j] = VBState(j)
    BY <1>4 DEF Says, VBState, JobStates, Reports
  <2>3. Reports' = [Reports EXCEPT ![j] = VBState(j)']
    BY <1>2, <1>4 DEF Reports
  <2>4. JobStates' = JobStates
    BY DEF Says
  <2>5. Contract!Report(j)
    BY <1>1, <1>4, <2>1, <2>2, <2>3, <2>4
       DEF Contract!Report, Contract!SetReport
  <2> QED
    BY <1>4, <2>5 DEF KeepsTo, Contract!Next, Contract!Work, Contract!Jobs
<1> QED
  BY <1>3, <1>4

Under == Steps \ {"none", "succeeded", "failed"}

LEMMA UnderIsRunning == ASSUME NEW j, step[j] \in Under PROVE JobState(j) = "running"
BY DEF Under, JobState

\* Between its start and its end a job is running for all the controller sees.
LEMMA StaysUnder ==
  ASSUME TypeInv, NEW j \in Jobs, step[j] \in Under, NEW s \in Under,
         Enter(j, s) \/ UNCHANGED step
  PROVE  JobStates' = JobStates
<1>1. ASSUME NEW k \in Backups \cup Restores PROVE JobState(k)' = JobState(k)
  <2>1. k \in Jobs
    BY DEF Jobs
  <2>2. CASE k = j
    <3>1. step'[k] \in Under
      BY <2>2, EnterEffect
    <3> QED
      BY <2>2, <3>1 DEF Under, JobState
  <2>3. CASE k # j
    <3>1. step'[k] = step[k]
      BY <2>1, <2>3, EnterEffect
    <3> QED
      BY <3>1 DEF JobState
  <2> QED
    BY <2>2, <2>3
<1> QED
  BY <1>1 DEF JobStates

\* What is written for another job, or for none, is not in the contract.
LEMMA OthersStay ==
  ASSUME TypeInv, NEW j \in Jobs, NEW id, NEW error,
         WriteStatus(j, id, error) \/ UNCHANGED vb
  PROVE  /\ \A b \in Backups \ {j} : vb'[b] = vb[b]
         /\ j \notin Backups => \A b \in Backups : vb'[b] = vb[b]
BY WriteEffect

\* An error is written, or withdrawn, while there is no id yet.
LEMMA WritingSays ==
  ASSUME TypeInv, PodInv, NEW j \in Jobs, NEW error,
         WriteStatus(j, 0, error),
         step[j] \in Under \ {"start", "exited", "done"},
         step[j] # "backup" \/ ~finished[j] \/ lastError[j] # "none",
         NEW s \in Under, Enter(j, s) \/ UNCHANGED step,
         UNCHANGED <<stored, restored>>
  PROVE  Says(j)
<1>1. JobStates' = JobStates
  BY StaysUnder
<1>2. \A b \in Backups \ {j} : vb'[b] = vb[b]
  BY OthersStay
<1>3. ASSUME j \in Backups
      PROVE  /\ JobState(j) = "running" /\ vb[j].spec # "none" /\ vb[j].id = 0
             /\ vb'[j].spec # "none" /\ vb'[j].id = 0
  <2>1. vb[j].id = 0
    BY <1>3, NoIdYet DEF Under
  <2>2. vb[j].spec # "none"
    BY <1>3 DEF PodInv, MadeFirst, Under
  <2> QED
    BY <1>3, <2>1, <2>2, UnderIsRunning, WriteEffect
<1> QED
  BY <1>1, <1>2, <1>3 DEF Says

LEMMA SilenceSays ==
  ASSUME TypeInv, NEW j \in Jobs, step[j] \in Under, NEW s \in Under,
         Enter(j, s) \/ UNCHANGED step, UNCHANGED <<stored, restored, vb>>
  PROVE  Says(j)
BY StaysUnder DEF Says

LEMMA PrepareSays ==
  ASSUME TypeInv, PodInv, NEW j \in Jobs, PrepareBackup(j) \/ PrepareOther(j)
  PROVE  Says(j)
<1>1. /\ step[j] \in Under /\ {"exists", "blank", "connect", "exited"} \subseteq Under
      /\ UNCHANGED <<stored, restored>>
  BY DEF PrepareBackup, PrepareOther, storeVars, Under, Steps, Retried
<1>2. CASE PrepareOther(j)
  <2>1. j \notin Backups
    BY <1>2, JobsAssumption DEF PrepareOther
  <2>2. Enter(j, "connect") \/ Enter(j, "exited")
    BY <1>2 DEF PrepareOther, Exit
  <2>3. \A b \in Backups \ {j} : vb'[b] = vb[b]
    BY <1>2, OthersStay DEF PrepareOther, WriteFailure, resourceVars
  <2> QED
    BY <1>1, <2>1, <2>2, <2>3, StaysUnder DEF Says
<1>3. CASE PrepareBackup(j)
  <2>1. j \in Backups /\ vb[j] \in VolumeBackupType
    BY <1>3 DEF PrepareBackup, TypeInv, TypeOK
  <2>2. CASE Exit(j) /\ UNCHANGED vb
    BY <1>1, <2>2, SilenceSays DEF Exit
  <2>3. ASSUME NEW spec \in {"named", "blank"}, NEW s \in {"exists", "blank"},
               vb[j].id = 0, vb' = [vb EXCEPT ![j].spec = spec], Enter(j, s)
        PROVE  Says(j)
    <3>1. /\ vb'[j].spec = spec /\ vb'[j].id = 0 /\ vb'[j].error = vb[j].error
          /\ \A b \in Backups \ {j} : vb'[b] = vb[b]
      BY <2>1, <2>3 DEF TypeInv, TypeOK, VolumeBackupType
    <3>2. vb[j].spec = "none" => ~vb'[j].error
      BY <2>1, <3>1 DEF PodInv, MadeFirst
    <3>3. JobStates' = JobStates /\ JobState(j) = "running"
      BY <1>1, <2>3, StaysUnder, UnderIsRunning
    <3> QED
      BY <1>1, <2>3, <3>1, <3>2, <3>3 DEF Says
  <2>4. \/ Exit(j) /\ UNCHANGED vb
        \/ \E spec \in {"named", "blank"}, s \in {"exists", "blank"} :
             /\ vb[j].id = 0 /\ vb' = [vb EXCEPT ![j].spec = spec]
             /\ Enter(j, s)
    BY <1>3 DEF PrepareBackup
  <2> QED
    BY <2>2, <2>3, <2>4
<1> QED
  BY <1>2, <1>3

\* The second read: a backup's snapshot is there when its id is written.
LEMMA AnswerSays ==
  ASSUME TypeInv, PodInv, NEW j \in Jobs, step[j] \in Commands,
         WriteStatus(j, Answer(j), FALSE) \/ UNCHANGED vb,
         NEW s \in Under, Enter(j, s) \/ UNCHANGED step,
         UNCHANGED <<stored, restored>>
  PROVE  Says(j)
<1>1. step[j] \in Under \ {"start", "exited", "done"}
  BY DEF Commands, Under, Steps
<1>2. CASE UNCHANGED vb
  BY <1>1, <1>2, SilenceSays
<1>3. CASE WriteStatus(j, Answer(j), FALSE) /\ Answer(j) = 0
  <2>1. CASE j \in Backups
    <3>1. step[j] # "backup" \/ ~finished[j]
      BY <1>3, <2>1, AttemptIsPositive DEF Answer
    <3> QED
      BY <1>1, <1>3, <3>1, WritingSays
  <2>2. CASE j \notin Backups
    <3>1. step[j] # "backup"
      BY <2>2 DEF TypeInv, OwnSteps
    <3> QED
      BY <1>1, <1>3, <3>1, WritingSays
  <2> QED
    BY <2>1, <2>2
<1>4. CASE WriteStatus(j, Answer(j), FALSE) /\ Answer(j) # 0
  <2>1. /\ j \in Backups /\ step[j] = "backup" /\ finished[j]
        /\ Answer(j) = attempt[j]
    BY <1>4 DEF Answer
  <2>2. j \in Moved
    <3>1. <<j, attempt[j]>> \in stored /\ attempt[j] \in Attempts
      BY <2>1 DEF PodInv, WrapperInv, TypeInv, TypeOK
    <3> QED
      BY <2>1, <3>1 DEF Moved
  <2>3. vb[j].spec # "none"
    BY <2>1 DEF PodInv, MadeFirst
  <2>4. /\ vb'[j].id = attempt[j] /\ vb'[j].spec = vb[j].spec /\ ~vb'[j].error
        /\ \A b \in Backups \ {j} : vb'[b] = vb[b]
    BY <1>4, <2>1, WriteEffect
  <2>5. attempt[j] # 0
    BY AttemptIsPositive
  <2>6. JobStates' = JobStates /\ JobState(j) = "running"
    BY <1>1, StaysUnder, UnderIsRunning
  <2> QED
    BY <2>2, <2>3, <2>4, <2>5, <2>6 DEF Says
<1> QED
  BY <1>2, <1>3, <1>4

LEMMA ExecutorKeeps ==
  ASSUME TypeInv, PodInv, NEW j \in Jobs,
         \/ PrepareBackup(j) \/ NoteBadCredentials(j) \/ PrepareOther(j)
         \/ CheckRepository(j) \/ ReadError(j) \/ ReadFinished(j)
         \/ WriteFails(j) \/ LeavePolicy(j) \/ GiveUp(j) \/ TimeOut(j)
         \/ Kill(j)
  PROVE  KeepsTo
<1> SUFFICES Says(j)
  BY SayingIsAStep
<1> DEFINE Inner == Under \ {"start", "exited", "done"}
<1>1. /\ Commands \subseteq Inner /\ Retried \subseteq Inner /\ "blank" \in Inner
      /\ {"exited", "done"} \subseteq Under
  BY DEF Commands, Retried, Under, Steps
<1>2. CASE PrepareBackup(j) \/ PrepareOther(j)
  BY <1>2, PrepareSays
<1>3. CASE NoteBadCredentials(j)
  BY <1>1, <1>3, WritingSays DEF NoteBadCredentials, WriteFailure, Exit,
     storeVars
<1>4. CASE CheckRepository(j)
  BY <1>1, <1>4, SilenceSays DEF CheckRepository, Retried, Commands, Inner,
     storeVars, resourceVars
<1>5. CASE ReadError(j)
  <2>1. step[j] \in Inner /\ UNCHANGED <<stored, restored>>
    BY <1>1, <1>5 DEF ReadError, storeVars
  <2>2. CASE UNCHANGED <<step, vb>>
    BY <2>1, <2>2, SilenceSays
  <2>3. CASE /\ lastError[j] = "exists"
             /\ WriteStatus(j, 0, FALSE) /\ Enter(j, Following(j))
    <3>1. step[j] = "create"
      BY <2>3 DEF PodInv, WrapperInv
    <3>2. Following(j) = "policy" /\ "policy" \in Under
      BY <1>1, <3>1 DEF Following, Retried
    <3> QED
      BY <2>1, <2>3, <3>1, <3>2, WritingSays
  <2>4. CASE lastError[j] = "error" /\ WriteFailure(j) /\ Exit(j)
    BY <1>1, <2>1, <2>4, WritingSays DEF WriteFailure, Exit
  <2> QED
    BY <1>5, <2>2, <2>3, <2>4 DEF ReadError, resourceVars
<1>6. CASE ReadFinished(j)
  <2>1. /\ step[j] \in Commands /\ UNCHANGED <<stored, restored>>
        /\ WriteStatus(j, Answer(j), FALSE) \/ UNCHANGED vb
        /\ Enter(j, Following(j)) \/ UNCHANGED step
    BY <1>6 DEF ReadFinished, storeVars
  <2>2. Following(j) \in Under
    BY <1>1 DEF Following, Commands, Retried
  <2> QED
    BY <2>1, <2>2, AnswerSays
<1>7. CASE WriteFails(j)
  BY <1>1, <1>7, AnswerSays DEF WriteFails, storeVars
<1>8. CASE LeavePolicy(j)
  BY <1>1, <1>8, SilenceSays DEF LeavePolicy, Retried, Commands, Inner,
     storeVars, resourceVars
<1>9. CASE GiveUp(j)
  <2>1. step[j] \in Inner /\ lastError[j] # "none"
    BY <1>1, <1>9 DEF GiveUp
  <2> QED
    BY <1>1, <1>9, <2>1, WritingSays DEF GiveUp, WriteFailure, Exit, storeVars
<1>10. CASE TimeOut(j)
  <2>1. /\ step[j] \in Inner /\ step[j] # "backup"
        /\ Enter(j, "exited") /\ UNCHANGED <<stored, restored>>
    BY <1>1, <1>10 DEF TimeOut, Exit, Retried, storeVars
  <2>2. WriteStatus(j, 0, TRUE) \/ UNCHANGED vb
    BY <1>10 DEF TimeOut, WriteFailure, resourceVars
  <2> QED
    BY <1>1, <2>1, <2>2, WritingSays, SilenceSays
<1>11. CASE Kill(j)
  <2>1. step[j] \in Under
    BY <1>11 DEF Kill, Under, Ended, TypeInv, TypeOK
  <2> QED
    BY <1>1, <1>11, <2>1, SilenceSays DEF Kill, Exit, storeVars, resourceVars
<1> QED
  BY <1>2, <1>3, <1>4, <1>5, <1>6, <1>7, <1>8, <1>9, <1>10, <1>11

\* The processes move the data; a delete job takes away what is reported.
LEMMA ProcessKeeps ==
  ASSUME TypeInv, PodInv, NEW j \in Jobs,
         \/ CreateRepository(j) \/ ConnectRepository(j) \/ SetCompression(j)
         \/ CreateSnapshot(j) \/ CreateIncompleteSnapshot(j)
         \/ RestoreSnapshot(j) \/ DeleteSnapshot(j) \/ CommandFails(j)
         \/ SetPolicy(j) \/ Wait(j)
  PROVE  KeepsTo
<1>1. UNCHANGED <<step, vb>>
  BY DEF CreateRepository, ConnectRepository, SetCompression, CreateSnapshot,
     CreateIncompleteSnapshot, RestoreSnapshot, DeleteSnapshot, CommandFails,
     SetPolicy, Wait, Report, Returns, resourceVars
<1>2. JobStates' = JobStates /\ Reports' = Reports
  BY <1>1 DEF JobStates, Reports, JobState, VBState
<1>3. CASE Moved' = Moved
  BY <1>2, <1>3 DEF KeepsTo, Contract!vars
<1>4. ASSUME j \in Backups \cup Restores, step[j] \in {"backup", "restore"},
             j \in Backups => vb[j].spec # "none" /\ vb[j].id = 0,
             Moved' = Moved \cup {j}
      PROVE  KeepsTo
  <2>1. JobStates[j] = "running"
    BY <1>4 DEF JobStates, JobState
  <2>2. j \in Backups => Reports[j] \in {"empty", "error"}
    BY <1>4 DEF Reports, VBState
  <2>3. Contract!Move(j)
    BY <1>2, <1>4, <2>1, <2>2 DEF Contract!Move
  <2> QED
    BY <1>4, <2>3 DEF KeepsTo, Contract!Next, Contract!Work, Contract!Jobs
<1>5. CASE CreateSnapshot(j)
  <2>1. j \in Backups /\ step[j] = "backup" /\ proc[j] = "running"
    BY <1>5 DEF CreateSnapshot, At, TypeInv, OwnSteps
  <2>2. vb[j].spec # "none" /\ vb[j].id = 0
    <3>1. vb[j].spec # "none"
      BY <2>1 DEF PodInv, MadeFirst
    <3>2. vb[j].id = 0
      BY <2>1 DEF PodInv, IdIsLast
    <3> QED
      BY <3>1, <3>2
  <2>3. Moved' = Moved \cup {j}
    <3>1. /\ stored' = stored \cup {<<j, attempt[j]>>} /\ restored' = restored
          /\ attempt[j] \in Attempts
      BY <1>5 DEF CreateSnapshot, TypeInv, TypeOK
    <3> QED
      BY <1>1, <2>1, <3>1 DEF Moved
  <2> QED
    BY <1>4, <2>1, <2>2, <2>3
<1>6. CASE RestoreSnapshot(j)
  <2>1. j \in Restores /\ j \notin Backups /\ step[j] = "restore"
    BY <1>6, JobsAssumption DEF RestoreSnapshot, At, TypeInv, OwnSteps
  <2>2. Moved' = Moved \cup {j} \/ Moved' = Moved
    BY <1>1, <1>6 DEF RestoreSnapshot, Moved
  <2> QED
    BY <1>3, <1>4, <2>1, <2>2
<1>7. CASE DeleteSnapshot(j)
  <2>1. /\ j \in Deletes /\ step[j] # "none" /\ restored' = restored
        /\ stored' = stored \ {Wanted(j)}
    BY <1>7 DEF DeleteSnapshot, At, TypeInv, OwnSteps
  <2>2. SourceOf[j] \in Backups /\ vb[SourceOf[j]].id # 0
    BY <2>1, SourceAssumption DEF PodInv, DeletesFollow, DoneIsTrue
  <2>3. Moved' = Moved
    BY <1>1, <2>1, <2>2 DEF Moved, Wanted
  <2> QED
    BY <1>3, <2>3
<1>8. CASE UNCHANGED <<stored, restored>>
  BY <1>1, <1>3, <1>8 DEF Moved
<1> QED
  BY <1>5, <1>6, <1>7, <1>8 DEF CreateRepository, ConnectRepository,
     SetCompression, CreateIncompleteSnapshot, CommandFails, SetPolicy, Wait,
     Report, storeVars

\* A step of a job's state alone.
LEMMA StateKeeps ==
  ASSUME TypeInv, NEW j \in Backups \cup Restores, UNCHANGED <<Reports, Moved>>,
         \A k \in Jobs \ {j} : step'[k] = step[k],
         \/ JobState(j) = "pending" /\ JobState(j)' = "running"
         \/ JobState(j) = "running" /\ JobState(j)' = "failed"
         \/ /\ JobState(j) = "running" /\ JobState(j)' = "complete"
            /\ j \in Moved /\ (j \in Backups => VBState(j) = "saved")
  PROVE  KeepsTo
<1>1. \A k \in (Backups \cup Restores) \ {j} : JobState(k)' = JobState(k)
  BY DEF JobState, Jobs
<1>2. JobStates' = [JobStates EXCEPT ![j] = JobState(j)']
  BY <1>1 DEF JobStates
<1>3. JobStates[j] = JobState(j) /\ (j \in Backups => Reports[j] = VBState(j))
  BY DEF JobStates, Reports
<1>4. Contract!Start(j) \/ Contract!Fail(j) \/ Contract!Complete(j)
  BY <1>2, <1>3 DEF Contract!Start, Contract!Fail, Contract!Complete,
     Contract!SetState
<1> QED
  BY <1>4 DEF KeepsTo, Contract!Next, Contract!Work, Contract!Jobs

LEMMA KubernetesKeeps ==
  ASSUME TypeInv, PodInv, NEW j \in Jobs,
         StartJob(j) \/ CompleteJob(j) \/ Restart(j)
  PROVE  KeepsTo
<1>1. /\ \A b \in Backups : vb'[b] = vb[b]
      /\ UNCHANGED <<stored, restored>>
  BY JobsAssumption DEF StartJob, CompleteJob, Restart, storeVars, resourceVars,
     TypeInv, TypeOK
<1>2. UNCHANGED <<Reports, Moved>>
  <2>1. \A b \in Backups : VBState(b)' = VBState(b)
    BY <1>1 DEF VBState
  <2> QED
    BY <1>1, <2>1 DEF Reports, Moved
<1>3. PICK s \in {"start", "succeeded", "failed"} : Enter(j, s)
  BY DEF StartJob, CompleteJob, Restart
<1>4. /\ step'[j] = s /\ \A k \in Jobs \ {j} : step'[k] = step[k]
  BY <1>3, EnterEffect
<1>5. CASE j \in Deletes
  <2>1. \A k \in Backups \cup Restores : JobState(k)' = JobState(k)
    BY <1>4, <1>5, JobsAssumption DEF JobState, Jobs
  <2> QED
    BY <1>2, <2>1 DEF KeepsTo, Contract!vars, JobStates
<1>6. CASE j \in Backups \cup Restores /\ StartJob(j)
  <2>1. step[j] = "none" /\ step'[j] = "start"
    BY <1>4, <1>6, EnterEffect DEF StartJob
  <2> QED
    BY <1>2, <1>4, <1>6, <2>1, StateKeeps DEF JobState
<1>7. CASE j \in Backups \cup Restores /\ CompleteJob(j)
  <2>1. step[j] = "done" /\ step'[j] = "succeeded"
    BY <1>7, EnterEffect DEF CompleteJob
  <2>2. j \in Backups => vb[j].id # 0 /\ vb[j].spec # "none"
    BY <1>7, <2>1 DEF PodInv, DoneIsTrue, MadeFirst
  <2>3. j \in Moved
    BY <1>7, <2>1, <2>2 DEF PodInv, DoneIsTrue, Moved
  <2> QED
    BY <1>2, <1>4, <1>7, <2>1, <2>2, <2>3, StateKeeps DEF JobState, VBState
<1>8. CASE j \in Backups \cup Restores /\ Restart(j)
  <2>1. step[j] = "exited" /\ step'[j] \in {"start", "failed"}
    BY <1>8, EnterEffect DEF Restart
  <2>2. CASE step'[j] = "failed"
    BY <1>2, <1>4, <1>8, <2>1, <2>2, StateKeeps DEF JobState
  <2>3. CASE step'[j] = "start"
    <3>1. \A k \in Backups \cup Restores : JobState(k)' = JobState(k)
      BY <1>4, <2>1, <2>3 DEF JobState, Jobs
    <3> QED
      BY <1>2, <3>1 DEF KeepsTo, Contract!vars, JobStates
  <2> QED
    BY <2>1, <2>2, <2>3
<1> QED
  BY <1>5, <1>6, <1>7, <1>8 DEF Jobs

LEMMA NextKeeps == TypeInv /\ PodInv /\ [Next]_vars => KeepsTo
<1> SUFFICES ASSUME TypeInv, PodInv, [Next]_vars PROVE KeepsTo
  OBVIOUS
<1>1. CASE UNCHANGED vars
  BY <1>1 DEF KeepsTo, Contract!vars, JobStates, JobState, Reports, VBState,
     Moved, vars, storeVars, resourceVars, containerVars
<1>2. CASE Next
  BY <1>2, ProcessKeeps, ExecutorKeeps, KubernetesKeeps
     DEF Next, Process, Executor, Kubernetes, Mishap
<1> QED
  BY <1>1, <1>2

LEMMA InitKeeps == Init => Contract!Init
<1> SUFFICES ASSUME Init PROVE Contract!Init
  OBVIOUS
<1>1. JobStates = [j \in Backups \cup Restores |-> "pending"]
  BY DEF Init, JobStates, JobState, Jobs
<1>2. Reports = [b \in Backups |-> "none"]
  BY DEF Init, Reports, VBState
<1>3. Moved = {}
  BY DEF Init, Moved
<1> QED
  BY <1>1, <1>2, <1>3 DEF Contract!Init, Contract!Jobs

\* The containers, commands, goroutines and restarts of the jobs implement
\* TransferJob: what a job and its VolumeBackup say is said in that order, and
\* is true, for any number of jobs, any backoff limit and any number of faults.
THEOREM ContractIsKept == Spec => KeepsContract
<1>1. Spec => Contract!Init /\ [][Contract!Next]_(Contract!vars)
  BY InitKeeps, NextKeeps, PodInvHolds, PTL DEF Spec, KeepsTo
<1> QED
  BY <1>1 DEF KeepsContract, Contract!Spec

=============================================================================
