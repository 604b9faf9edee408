------------------------------ MODULE KopiaPod ------------------------------
(***************************************************************************)
(* The kopia executor: the program in the pod of a backup, restore or      *)
(* delete job (pkg/executor/kopia) and the wrappers around the kopia       *)
(* commands it runs one after the other (pkg/kopia).                       *)
(*                                                                         *)
(* A command has three actors.  The process changes the repository.  The   *)
(* goroutine that Run leaves behind waits for it and sets the wrapper's    *)
(* fields, one after the other and without a lock.  The executor calls     *)
(* Status every few seconds, which reads these fields one after the other. *)
(* A container that exits with an error is started again by Kubernetes, up *)
(* to the job's backoff limit, and starts over.  What the controller may   *)
(* expect of all this is module TransferJob.                               *)
(*                                                                         *)
(* The jobs of the model are those of one claim, hence of one repository.  *)
(* An operator that stands just before another one and extends its name is *)
(* a faulty variant of it, the bug a property is there to catch.           *)
(***************************************************************************)
EXTENDS Naturals

CONSTANTS
  Backups, Restores, Deletes,  \* the jobs
  SourceOf,      \* the backup a restore or delete job is for
  Compression,   \* --compression is given
  BackOffLimit,  \* JobPodBackOffLimit
  MaxFaults      \* bound: failed commands, writes, killed containers

Jobs == Backups \cup Restores \cup Deletes

ASSUME JobsAssumption == /\ Backups \cap Restores = {}
                         /\ Backups \cap Deletes = {}
                         /\ Restores \cap Deletes = {}
ASSUME SourceAssumption == SourceOf \in [Restores \cup Deletes -> Backups]
ASSUME CompressionAssumption == Compression \in BOOLEAN
ASSUME LimitAssumption == BackOffLimit \in Nat /\ MaxFaults \in Nat

VARIABLES
  \* the object store
  repo,          \* "none", "partial" (creation was interrupted) or "ready"
  policy,        \* the global policy of the repository has been set
  stored,        \* complete snapshots: <<backup, attempt that made it>>
  restored,      \* restores whose claim has all the data
  \* custom resources
  vb,            \* VolumeBackup of a backup or restore
  deleteFailed,  \* deletes whose VolumeBackupDelete says Failed
  \* jobs and their containers
  arg,           \* --snapshot-id: the attempt of SourceOf that is meant
  step, attempt,
  policyRunning, \* containers in which the policy command still runs
  proc,          \* the current command, up to the end of its goroutine
  lastError, finished,  \* fields of its wrapper
  seen,          \* Status has read lastError = nil, not yet the other field
  faults         \* how many faults may still happen

storeVars     == <<repo, policy, stored, restored>>
resourceVars  == <<vb, deleteFailed>>
containerVars == <<step, policyRunning, proc, lastError, finished, seen>>
vars == <<storeVars, resourceVars, arg, containerVars, attempt, faults>>

\* Steps that wait for a command, and those that are repeated for a minute; a
\* container that is through is "done" or has "exited" with an error.
Commands == {"create", "connect", "compression", "backup", "restore", "delete"}
Retried  == {"exists", "create", "policy", "connect", "compression"}
Ended    == {"succeeded", "failed"}
Steps    == {"none", "start", "blank", "done", "exited"}
              \cup Retried \cup Commands \cup Ended

Attempts == 1..(BackOffLimit + 1)
VolumeBackupType ==
  [spec: {"none", "blank", "named"}, id: {0} \cup Attempts, error: BOOLEAN]

TypeOK ==
  /\ repo \in {"none", "partial", "ready"} /\ policy \in BOOLEAN
  /\ stored \in SUBSET (Backups \X Attempts) /\ restored \in SUBSET Restores
  /\ vb \in [Backups \cup Restores -> VolumeBackupType]
  /\ deleteFailed \in SUBSET Deletes
  /\ arg \in [Restores \cup Deletes -> {0} \cup Attempts]
  /\ step \in [Jobs -> Steps] /\ attempt \in [Jobs -> Attempts]
  /\ policyRunning \in SUBSET Jobs
  /\ proc \in [Jobs -> {"idle", "running", "half", "ok", "partial", "exists",
                        "bad", "parsing", "clearing", "reported"}]
  /\ lastError \in [Jobs -> {"none", "error", "exists"}]
  /\ finished \in [Jobs -> BOOLEAN] /\ seen \in [Jobs -> BOOLEAN]
  /\ faults \in 0..MaxFaults

Init ==
  /\ repo = "none" /\ policy = FALSE /\ stored = {} /\ restored = {}
  /\ vb = [j \in Backups \cup Restores |-> [spec |-> "none", id |-> 0, error |-> FALSE]]
  /\ deleteFailed = {}
  /\ arg = [j \in Restores \cup Deletes |-> 0]
  /\ step = [j \in Jobs |-> "none"] /\ attempt = [j \in Jobs |-> 1]
  /\ policyRunning = {}
  /\ proc = [j \in Jobs |-> "idle"]
  /\ lastError = [j \in Jobs |-> "none"]
  /\ finished = [j \in Jobs |-> FALSE] /\ seen = [j \in Jobs |-> FALSE]
  /\ faults = MaxFaults

Fault == faults > 0 /\ faults' = faults - 1

-----------------------------------------------------------------------------
(* Going from step to step                                                 *)

\* A step begins with Run of its command; the wrapper is a new one.  Setting
\* the policy is not waited for; the end of the container kills it.
Enter(j, s) ==
  /\ step' = [step EXCEPT ![j] = s]
  /\ policyRunning' = IF s = "policy" THEN policyRunning \cup {j}
                      ELSE IF s \in {"exited"} \cup Ended THEN policyRunning \ {j}
                      ELSE policyRunning
  /\ proc' = [proc EXCEPT ![j] = IF s \in Commands THEN "running" ELSE "idle"]
  /\ lastError' = [lastError EXCEPT ![j] = "none"]
  /\ finished' = [finished EXCEPT ![j] = FALSE]
  /\ seen' = [seen EXCEPT ![j] = FALSE]

\* HandleErr: the container ends with an error.
Exit(j) == Enter(j, "exited")

\* What follows a command that has succeeded.
Following(j) ==
  LET work == IF j \in Backups THEN "backup"
              ELSE IF j \in Restores THEN "restore" ELSE "delete"
  IN  CASE step[j] = "create"  -> "policy"
        [] step[j] = "policy"  -> "connect"
        [] step[j] = "connect" -> IF j \in Backups /\ Compression
                                  THEN "compression" ELSE work
        [] step[j] = "compression" -> work
        [] OTHER -> "done"

-----------------------------------------------------------------------------
(* The custom resources                                                    *)

\* WriteVolumeBackupStatus overwrites the id and the error.
WriteStatus(j, id, error) ==
  vb' = IF j \in Deletes THEN vb
        ELSE [vb EXCEPT ![j].id = id, ![j].error = error]

\* A failed step is noted in the VolumeBackup or the VolumeBackupDelete.
WriteFailure(j) ==
  /\ WriteStatus(j, 0, TRUE)
  /\ deleteFailed' = IF j \in Deletes THEN deleteFailed \cup {j} ELSE deleteFailed

-----------------------------------------------------------------------------
(* The start of a job and of a container                                   *)

\* The claim has one backup job at a time.  A restore or delete job is given
\* the id of a backup that was successful; stork copies its VolumeBackup.
StartJob(j) ==
  /\ step[j] = "none"
  /\ Enter(j, "start")
  /\ \/ /\ j \in Backups
        /\ \A b \in Backups : step[b] \in {"none"} \cup Ended
        /\ UNCHANGED <<arg, vb>>
     \/ /\ j \in Restores \cup Deletes /\ step[SourceOf[j]] = "succeeded"
        /\ arg' = [arg EXCEPT ![j] = vb[SourceOf[j]].id]
        /\ vb' = IF j \in Restores THEN [vb EXCEPT ![j] = vb[SourceOf[j]]] ELSE vb
  /\ UNCHANGED <<storeVars, deleteFailed, attempt, faults>>

\* A file of the mounted secret cannot be read or makes no sense.
ParseCloudCredFails == Fault

PrepareBackupAnyway(j) ==
  /\ step[j] = "start" /\ j \in Backups
  /\ \/ /\ vb' = [vb EXCEPT ![j].spec = "named"]
        /\ Enter(j, "exists") /\ UNCHANGED faults
     \/ /\ ParseCloudCredFails
        /\ vb' = [vb EXCEPT ![j].spec = "blank"]
        /\ Enter(j, "blank")
  /\ UNCHANGED <<storeVars, deleteFailed, arg, attempt>>

\* CreateVolumeBackup makes it or finds it; without credentials it is created
\* with a blank repository name.  One that names another repository or has a
\* snapshot id already is left alone, and the container exits.
PrepareBackup(j) ==
  /\ step[j] = "start" /\ j \in Backups
  /\ \/ /\ vb[j].spec \in {"none", "named"} /\ vb[j].id = 0
        /\ vb' = [vb EXCEPT ![j].spec = "named"]
        /\ Enter(j, "exists") /\ UNCHANGED faults
     \/ /\ vb[j].spec = "blank" \/ vb[j].id # 0
        /\ Exit(j) /\ UNCHANGED <<vb, faults>>
     \/ /\ vb[j].spec \in {"none", "blank"} /\ vb[j].id = 0 /\ ParseCloudCredFails
        /\ vb' = [vb EXCEPT ![j].spec = "blank"]
        /\ Enter(j, "blank")
  /\ UNCHANGED <<storeVars, deleteFailed, arg, attempt>>

\* What is wrong with the credentials is written into it.
NoteBadCredentials(j) ==
  /\ step[j] = "blank"
  /\ WriteFailure(j) /\ Exit(j)
  /\ UNCHANGED <<storeVars, arg, attempt, faults>>

\* runRestore and runDelete.
PrepareOther(j) ==
  /\ step[j] = "start" /\ j \in Restores \cup Deletes
  /\ \/ Enter(j, "connect") /\ UNCHANGED <<resourceVars, faults>>
     \/ ParseCloudCredFails /\ WriteFailure(j) /\ Exit(j)
  /\ UNCHANGED <<storeVars, arg, attempt>>

\* isRepositoryExists looks for the file kopia.repository.
CheckRepository(j) ==
  /\ step[j] = "exists"
  /\ Enter(j, IF repo = "ready" THEN "connect" ELSE "create")
  /\ UNCHANGED <<storeVars, resourceVars, arg, attempt, faults>>

-----------------------------------------------------------------------------
(* The kopia processes (external)                                          *)

Returns(j, result) ==
  /\ proc' = [proc EXCEPT ![j] = result]
  /\ UNCHANGED <<resourceVars, arg, step, policyRunning, lastError, finished,
                 seen, attempt>>

At(j, s) == step[j] = s /\ proc[j] = "running"

\* kopia refuses to create a repository where it finds existing data.
CreateRepository(j) ==
  /\ step[j] = "create"
  /\ \/ /\ proc[j] = "running" /\ repo = "none"
        /\ repo' = "partial" /\ Returns(j, "half")
     \/ /\ proc[j] = "running" /\ repo # "none"
        /\ UNCHANGED repo /\ Returns(j, "exists")
     \/ /\ proc[j] = "half"
        /\ repo' = "ready" /\ Returns(j, "ok")
  /\ UNCHANGED <<policy, stored, restored, faults>>

ConnectRepository(j) ==
  /\ At(j, "connect")
  /\ Returns(j, IF repo = "ready" THEN "ok" ELSE "bad")
  /\ UNCHANGED <<storeVars, faults>>

SetCompression(j) ==
  /\ At(j, "compression") /\ Returns(j, "ok") /\ UNCHANGED <<storeVars, faults>>

CreateSnapshot(j) ==
  /\ At(j, "backup")
  /\ stored' = stored \cup {<<j, attempt[j]>>}
  /\ Returns(j, "ok")
  /\ UNCHANGED <<repo, policy, restored, faults>>

\* Some files could not be read: the summary has a non-zero numFailed.
CreateIncompleteSnapshot(j) ==
  /\ At(j, "backup") /\ Fault
  /\ Returns(j, "partial") /\ UNCHANGED storeVars

Wanted(j) == <<SourceOf[j], arg[j]>>

RestoreSnapshot(j) ==
  /\ At(j, "restore")
  /\ \/ /\ Wanted(j) \in stored
        /\ restored' = restored \cup {j} /\ Returns(j, "ok")
     \/ /\ Wanted(j) \notin stored
        /\ UNCHANGED restored /\ Returns(j, "bad")
  /\ UNCHANGED <<repo, policy, stored, faults>>

DeleteSnapshot(j) ==
  /\ At(j, "delete")
  /\ stored' = stored \ {Wanted(j)}
  /\ Returns(j, IF Wanted(j) \in stored THEN "ok" ELSE "bad")
  /\ UNCHANGED <<repo, policy, restored, faults>>

\* Any of them may fail, or not even start.
CommandFails(j) ==
  /\ step[j] \in Commands /\ proc[j] \in {"running", "half"} /\ Fault
  /\ Returns(j, "bad") /\ UNCHANGED storeVars

\* The policy command ends while the executor is steps ahead.  Its error is
\* seen only by a Status that comes later: there is hardly any.
SetPolicy(j) ==
  /\ j \in policyRunning
  /\ policyRunning' = policyRunning \ {j}
  /\ \/ policy' = TRUE /\ UNCHANGED <<lastError, faults>>
     \/ /\ Fault /\ UNCHANGED policy
        /\ lastError' = IF step[j] = "policy"
                        THEN [lastError EXCEPT ![j] = "error"] ELSE lastError
  /\ UNCHANGED <<repo, stored, restored, resourceVars, arg, step, proc,
                 finished, seen, attempt>>

-----------------------------------------------------------------------------
(* The goroutine of Run                                                    *)

Report(j, error, done, next) ==
  /\ lastError' = [lastError EXCEPT ![j] = error]
  /\ finished' = [finished EXCEPT ![j] = done]
  /\ proc' = [proc EXCEPT ![j] = next]
  /\ UNCHANGED <<storeVars, resourceVars, arg, step, policyRunning, seen,
                 attempt, faults>>

WaitSummaryOnly(j) ==
  \/ proc[j] \in {"ok", "partial"} /\ Report(j, "none", TRUE, "reported")
  \/ proc[j] \in {"bad", "exists"} /\ Report(j, "error", FALSE,
       CASE proc[j] = "exists" -> "parsing" [] step[j] = "delete" -> "clearing"
         [] OTHER -> "reported")
  \/ proc[j] = "parsing"  /\ Report(j, "exists", FALSE, "reported")
  \/ proc[j] = "clearing" /\ Report(j, "error", TRUE, "reported")

WaitSilent(j) ==
  \/ proc[j] = "ok" /\ Report(j, "none", TRUE, "reported")
  \/ proc[j] \in {"partial", "bad"} /\ Report(j, "none", FALSE, "reported")
  \/ proc[j] = "exists" /\ Report(j, "exists", FALSE, "reported")

\* finished is the summary of create, connect and backup, and ~isRunning of the
\* others.  The delete wrapper also resets isRunning after an error.  A create
\* that finds data first sets a general error, then ErrAlreadyRepoExist.
Wait(j) ==
  \/ proc[j] = "ok" /\ Report(j, "none", TRUE, "reported")
  \/ proc[j] \in {"partial", "bad", "exists"} /\ Report(j, "error", FALSE,
       CASE proc[j] = "exists" -> "parsing" [] step[j] = "delete" -> "clearing"
         [] OTHER -> "reported")
  \/ proc[j] = "parsing"  /\ Report(j, "exists", FALSE, "reported")
  \/ proc[j] = "clearing" /\ Report(j, "error", TRUE, "reported")

-----------------------------------------------------------------------------
(* The executor polls Status                                               *)

\* The first read.  Steps that are repeated for a minute see an error until
\* GiveUp; a repository that exists is as good as one created.
ReadError(j) ==
  /\ step[j] \in Commands /\ ~seen[j]
  /\ \/ /\ lastError[j] = "none"
        /\ seen' = [seen EXCEPT ![j] = TRUE]
        /\ UNCHANGED <<resourceVars, step, policyRunning, proc, lastError,
                       finished>>
     \/ /\ lastError[j] = "exists"
        /\ WriteStatus(j, 0, FALSE) /\ Enter(j, Following(j))
        /\ UNCHANGED deleteFailed
     \/ /\ lastError[j] = "error" /\ step[j] \notin Retried
        /\ WriteFailure(j) /\ Exit(j)
  /\ UNCHANGED <<storeVars, arg, attempt, faults>>

AnswerAhead(j) == IF j \in Backups /\ step[j] = "backup" THEN attempt[j] ELSE 0

\* The status that Status returns after the second read.
Answer(j) == IF finished[j] /\ j \in Backups /\ step[j] = "backup"
             THEN attempt[j] ELSE 0

\* Connect, compression and delete only write errors.
Written(j) == step[j] \in {"create", "backup", "restore"}

ReadFinishedUnwritten(j) ==
  /\ step[j] \in Commands /\ seen[j]
  /\ \/ /\ IF Written(j) THEN WriteStatus(j, Answer(j), FALSE) ELSE UNCHANGED vb
        /\ UNCHANGED faults
     \/ Fault /\ UNCHANGED vb
  /\ IF finished[j] THEN Enter(j, Following(j))
     ELSE /\ seen' = [seen EXCEPT ![j] = FALSE]
          /\ UNCHANGED <<step, policyRunning, proc, lastError, finished>>
  /\ UNCHANGED <<storeVars, deleteFailed, arg, attempt>>

\* The second read: the command is done or goes on.
ReadFinished(j) ==
  /\ step[j] \in Commands /\ seen[j]
  /\ IF Written(j) THEN WriteStatus(j, Answer(j), FALSE) ELSE UNCHANGED vb
  /\ IF finished[j] THEN Enter(j, Following(j))
     ELSE /\ seen' = [seen EXCEPT ![j] = FALSE]
          /\ UNCHANGED <<step, policyRunning, proc, lastError, finished>>
  /\ UNCHANGED <<storeVars, deleteFailed, arg, attempt, faults>>

\* The write returns an error, whether it took effect or not: the status is
\* asked for again, even of a command that is done.
WriteFails(j) ==
  /\ step[j] \in Commands /\ Written(j) /\ seen[j] /\ Fault
  /\ WriteStatus(j, Answer(j), FALSE) \/ UNCHANGED vb
  /\ seen' = [seen EXCEPT ![j] = FALSE]
  /\ UNCHANGED <<storeVars, deleteFailed, arg, step, policyRunning, proc,
                 lastError, finished, attempt>>

\* The first Status of the policy command says Done, running or not.
LeavePolicy(j) ==
  /\ step[j] = "policy" /\ lastError[j] = "none"
  /\ Enter(j, "connect")
  /\ UNCHANGED <<storeVars, resourceVars, arg, attempt, faults>>

\* DoRetryWithTimeout: the minute is over.
GiveUp(j) ==
  /\ step[j] \in Retried /\ lastError[j] = "error"
  /\ WriteFailure(j) /\ Exit(j)
  /\ UNCHANGED <<storeVars, arg, attempt, faults>>

\* The same with a command that is slow, or a bucket that cannot be reached;
\* of a slow create or compression nothing is written.
TimeOut(j) ==
  /\ step[j] \in Retried \ {"policy"} /\ Fault
  /\ IF step[j] \in {"exists", "connect"} THEN WriteFailure(j)
     ELSE UNCHANGED resourceVars
  /\ Exit(j)
  /\ UNCHANGED <<storeVars, arg, attempt>>

-----------------------------------------------------------------------------
(* Kubernetes                                                              *)

\* The container is killed, at any point.
Kill(j) ==
  /\ step[j] \notin {"none", "exited"} \cup Ended /\ Fault
  /\ Exit(j)
  /\ UNCHANGED <<storeVars, resourceVars, arg, attempt>>

CompleteJob(j) ==
  /\ step[j] = "done" /\ Enter(j, "succeeded")
  /\ UNCHANGED <<storeVars, resourceVars, arg, attempt, faults>>

RestartUnlimited(j) ==
  /\ step[j] = "exited"
  /\ attempt' = [attempt EXCEPT ![j] = @ + 1]
  /\ Enter(j, IF attempt[j] = BackOffLimit + 2 THEN "failed" ELSE "start")
  /\ UNCHANGED <<storeVars, resourceVars, arg, faults>>

\* The backoff limit is 3.
Restart(j) ==
  /\ step[j] = "exited"
  /\ IF attempt[j] <= BackOffLimit
     THEN attempt' = [attempt EXCEPT ![j] = @ + 1] /\ Enter(j, "start")
     ELSE UNCHANGED attempt /\ Enter(j, "failed")
  /\ UNCHANGED <<storeVars, resourceVars, arg, faults>>

-----------------------------------------------------------------------------
(* The specification                                                       *)

Process(j) ==
  \/ CreateRepository(j) \/ ConnectRepository(j) \/ SetCompression(j)
  \/ CreateSnapshot(j) \/ RestoreSnapshot(j) \/ DeleteSnapshot(j)

Executor(j) ==
  \/ PrepareBackup(j) \/ NoteBadCredentials(j) \/ PrepareOther(j)
  \/ CheckRepository(j) \/ ReadError(j) \/ ReadFinished(j)
  \/ LeavePolicy(j) \/ GiveUp(j)

Kubernetes(j) == CompleteJob(j) \/ Restart(j)

Mishap(j) ==
  \/ CreateIncompleteSnapshot(j) \/ CommandFails(j)
  \/ WriteFails(j) \/ TimeOut(j) \/ Kill(j)

Next ==
  \E j \in Jobs :
    \/ StartJob(j) \/ Process(j) \/ SetPolicy(j) \/ Wait(j) \/ Executor(j)
    \/ Kubernetes(j) \/ Mishap(j)

Spec == Init /\ [][Next]_vars

\* A kopia process ends, its goroutine goes on, and so do the executor and
\* Kubernetes; jobs need not be started.
FairSpec ==
  /\ Spec
  /\ \A j \in Jobs :
       /\ WF_vars(Process(j)) /\ WF_vars(Wait(j))
       /\ WF_vars(Executor(j)) /\ WF_vars(Kubernetes(j))

-----------------------------------------------------------------------------
(* Properties                                                              *)

\* A snapshot id in the VolumeBackup of a backup is that of a complete snapshot
\* in the repository, unless a delete job has been started for it: neither an
\* earlier attempt nor a snapshot with failed files is taken for it.
SavedIsStored ==
  \A b \in Backups :
    vb[b].id # 0 => \/ <<b, vb[b].id>> \in stored
                    \/ \E j \in Deletes : Wanted(j) = <<b, vb[b].id>>

\* A job that is complete has done its work and said so: a backup has its
\* snapshot id in the VolumeBackup, a restore the data in its claim, and no
\* error of an earlier attempt is left.
SuccessIsTrue ==
  \A j \in Backups \cup Restores :
    step[j] = "succeeded" =>
      /\ ~vb[j].error
      /\ j \in Backups => vb[j].id # 0
      /\ j \in Restores => j \in restored

\* The snapshot id of a backup does not change any more, although a container
\* that is killed after it was written starts over.
SavedStays ==
  [][\A b \in Backups : vb[b].id # 0 => vb'[b].id = vb[b].id]_vars

\* Every job that is started ends: the polling stops whatever the commands and
\* the container suffer.
EventuallyEnds ==
  \A j \in Jobs : step[j] = "start" ~> step[j] \in Ended

-----------------------------------------------------------------------------
(* What the controller expects of a job (module TransferJob)               *)

JobState(j) ==
  CASE step[j] = "none" -> "pending"
    [] step[j] = "succeeded" -> "complete"
    [] step[j] = "failed" -> "failed"
    [] OTHER -> "running"

VBState(b) ==
  CASE vb[b].spec = "none" -> "none"
    [] vb[b].spec # "none" /\ vb[b].id # 0 -> "saved"
    [] OTHER -> IF vb[b].error THEN "error" ELSE "empty"

\* The data of a job is where it belongs, or was when its id was written: a
\* delete job takes it away again.
Moved ==
  restored \cup {b \in Backups : \/ vb[b].id # 0
                                \/ \E a \in Attempts : <<b, a>> \in stored}

JobStates == [j \in Backups \cup Restores |-> JobState(j)]
Reports   == [b \in Backups |-> VBState(b)]

Contract == INSTANCE TransferJob WITH
  state <- JobStates, report <- Reports, moved <- Moved

\* A job reports what its containers have done, and when: through restarts the
\* VolumeBackup goes from nothing to an id that stays, an id only after the
\* snapshot, and a job is complete only after both.
KeepsContract == Contract!Spec

=============================================================================
