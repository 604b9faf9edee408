# Verification of kdmp

kdmp moves the data of Kubernetes claims. A controller turns `DataExport`
objects into Kubernetes jobs; the jobs run an *executor*, which drives kopia (or
restic, or rsync) in a pod. This directory holds TLA+ modules of that machinery,
TLC configurations that check them on small instances, and TLAPS proofs of the
properties that matter most for every instance.

    tlc -workers 2 -config two_backups.cfg MCDataExport.tla     # any *.cfg
    tlapm DataExportClaimProofs.tla                             # any *Proofs.tla

`PROJECT.json` lists the runs with their properties, the source lines every
definition stands for, the hazards of the code at their lines, the mutants (for
every checked property a faulty variant of the code that violates it), the
findings and the theorems. Paths below are relative to `src/`.

## 1. The system

| Component | State | Operations | Works with |
|---|---|---|---|
| DataExport controller, `pkg/controllers/dataexport` | the `DataExport` objects: finalizer, `Status.{Stage,Status,TransferID,SnapshotID,SnapshotPVCName}` | `Reconcile` → `sync`: one stage per call; `cleanUp`; `updateStatus` | drivers, snapshotter, API server |
| kopia drivers, `pkg/drivers/kopiabackup`, `kopiarestore` | one mutex per driver; jobs, credential secret, service account in the cluster | `StartJob`, `JobStatus`, `DeleteJob` | rate limit, API server |
| rate limit, `pkg/jobratelimit` | none, counts jobs by label | `CanJobBeScheduled`, `IsJobForPvcAlreadyRunning` | API server |
| driver utilities, `pkg/drivers/utils` | none | job and node predicates, service accounts | API server |
| kopia executor, `pkg/executor/kopia`, `pkg/executor/common.go` | its position; the `VolumeBackup` and `VolumeBackupDelete` objects | `runBackup`, `runRestore`, `runDelete` | kopia wrappers, API server |
| kopia wrappers, `pkg/kopia` | `lastError`, `isRunning`, `summaryResponse`, without a lock | `Run` (process and goroutine), `Status` | kopia |
| maintenance, `pkg/executor/kopia/maintenance.go`, `pkg/drivers/kopiamaintenance` | the owner in each repository; one `BackupLocationMaintenance` | `runMaintenance` over all repositories | kopia, API server |
| delete driver, `pkg/drivers/kopiadelete` | its jobs | as the other drivers | executor |
| restic drivers, `pkg/drivers/resticbackup`, `resticrestore` | jobs, secret, service account, named after the claim; no mutex | `StartJob`, `JobStatus`, `DeleteJob` | API server |
| rsync driver, `pkg/drivers/rsync` | as restic's, without a secret | the same | API server |
| restic executor and wrappers, `pkg/executor/restic`, `pkg/restic` | its position; the claim's one `VolumeBackup`; a wrapper's answer, under a lock | `runBackup`, `runRestore`, `Run`, `Status` | restic, API server |
| snapshots, generated clients, command line, CRDs | – | – | not modelled (section 8) |

What is hard in it:

* Several workers reconcile at once. Each checks for jobs, counts them, and
  creates its own some calls later; only a mutex per driver makes this atomic.
* Every call can fail, some after they took effect; the controller can restart
  between any two; a status update can be refused until its retries are over. A
  stage is then entered a second time and meets what its first try has left.
* One `Status` field serves all stages, so the success or failure of one stage
  can be taken for that of another.
* A user deletes an object in any stage. `cleanUp` is a sequence of calls that is
  repeated as a whole.
* The certificate secret has one fixed name and is shared by all exports of a
  namespace.
* In the pod, three actors share the fields of a wrapper without a lock: the
  kopia process's goroutine, `Run`, and the executor that polls `Status`. A
  container that fails starts over with the `VolumeBackup` its predecessor left.
* Two maintenance pods compete for the ownership of a repository and write the
  same object.
* The restic and rsync drivers name their objects after a claim: exports of one
  claim share job, service account, secret and `VolumeBackup`, and one's `cleanUp`
  takes away what another one uses.
* A request to delete a snapshot may be cut off before it learns the id of the
  job it has created; the job goes on, and counts.

What makes it correct, per component:

* *Controller*: a reported success has its data; a failure is final; every
  export gets to its last stage or is removed; a success leaves no objects.
* *Drivers and rate limit*: one backup job per claim; not more jobs than the
  limit; the job, secret and account of a polled transfer stay in place.
* *Executor and wrappers*: a snapshot id in a `VolumeBackup` names a complete
  snapshot and does not change; a complete job has done its work; polling ends.
* *Maintenance*: every repository has its turn; a pod writes only its own
  status; a round ends.
* *Delete driver*: not more jobs than the limit; nothing is left of a request
  that is done; a request ends.
* *Restic executor*: the shared `VolumeBackup` names complete snapshots only, an
  id is not lost without an error; a restore is not older than asked for.
* *Restic and rsync drivers*: a failure is final, a deletion completes and leaves
  nothing, a restic export that shares nothing ends.

## 2. Modules

| Module | Contents |
|---|---|
| `Transfer` | abstract: what a user may rely on, without stages, workers and retries |
| `TransferJob` | abstract: what the controller may expect of a job, without containers, commands and polls |
| `DataExport` | controller, backup and restore drivers of kopia, rate limit, and the job as they see it; implements `Transfer` |
| `KopiaPod` | the executor of a backup, restore or delete job, its wrappers and kopia's repository; implements `TransferJob` |
| `KopiaDelete` | the delete driver and the requests of a backup service |
| `Maintenance` | the two maintenance pods of a backup location |
| `ClaimTransfer` | the controller with the rsync and restic drivers |
| `ResticPod` | the restic executor of a backup or restore job, its wrappers and the repository |
| `MC…` | one per module: model values and function constants for TLC |
| `DataExportProofs` | type correctness, with the typing lemmas; successes are backed by data, failures are final; jobs do what `TransferJob` says |
| `DataExportClaimProofs` | one backup job per claim; the limit of jobs |
| `DataExportTransferProofs` | what a polled transfer has of its own is there; a success leaves nothing; `DataExport` implements `Transfer` |
| `KopiaPodProofs` | types; snapshot ids and successes are true; `KopiaPod` implements `TransferJob` |
| `KopiaDeleteProofs` | types; the limit of delete jobs; nothing is left |
| `ClaimTransferProofs` | types; failures are final; removed exports leave nothing |
| `ResticPodProofs` | types; the shared `VolumeBackup` is true; restores are not older than asked for |
| `MaintenanceProofs` | types; the statuses of the two maintenance pods stay apart; every repository has its turn |

### DataExport

State: `life` is finalizer and deletion timestamp; `stage`, `status`,
`transferID`, `snapPVCName`, `snapshotID` are the fields of the status. `pc` is
where the worker of an object is. The rest is the cluster: the job's state,
its `VolumeBackup` (`vb`), the sets of exports whose credential secret, service
account, temporary claim or local copy exist, the shared certificate secret
(`cert`), and whether the data has arrived (`data`).

A reconcile that only reads, and then writes one status, is one action named
after its function (`StageInitial`, `StageSnapshotInProgress`, ...): the worker
queue gives an object to one worker at a time, so nothing but the user and the
job interferes, and they act on other variables. Two stages call several
objects of the cluster in turn, and are split at each call:

* TransferScheduled: `CreateCertificateSecret` → `CreateCredentialsSecret` →
  `AcquireLock` → `CheckJob` → `SetupServiceAccount` → `CreateJob` →
  `RecordTransfer` or `RecordFailure`. `StartFails` ends it at any call, with or
  without the call's effect. The three steps from `CheckJob` on hold the driver's
  mutex.
* Cleanup and deletion: `BeginCleanUp` → `CleanUpSnapshot` →
  `DeleteCertificateSecret` → `DeleteVolumeBackup` (backups) →
  `DeleteCredentialsSecret` → `CleanServiceAccount` → `DeleteJob` →
  `FinishCleanUp`. `CleanUpError` is what an error makes of it.

`Crash` sends all workers back to the start of their reconcile; `LoseUpdate` is a
status update that is refused until its retries end. Job and pod are external
but for the executor's writes: `StartPod` needs the secrets and the service
account the template mounts, `CreateVolumeBackup`, `WriteError`,
`ClearError` and `WriteSnapshotID` are the executor's writes, which need the service
account's rights; `CompleteJob`, `FailJob` and `ReapPods` are Kubernetes.

Abstractions: all objects are in one namespace; an error code is told apart only
where the code tells it apart (not found, already exists); the wait for claims
and snapshots to be ready is a reply the cluster chooses (`Replies`); the time
limits of stages are that choice as well.

### Transfer

One abstract transfer per export: it is *open*, *transferred*, *succeeded*,
*failed* or *removed*, and has a set of requests that work, those that have left
traces, and those whose data has moved. `Phase` in `DataExport` reads the phase off
stage, status and life; a job is work, `Leftovers` are traces. `KeepsPromise`
says: a verdict is given once; a success has its data, and leaves no traces; two
backups of one claim never work together; nothing is created for a request once
its verdict is known. `KeepsPromiseInTime` adds that the verdict comes.

Exports with a temporary claim or a local copy are not *traceless*: the code
lets some of them end in success with something left (section 6). A failure
promises nothing about what still runs, as the code does not either.

### TransferJob

The line between the controller and the pod. A job is pending, running, complete
or failed; a backup reports nothing, an empty `VolumeBackup`, an error or a
saved snapshot. Data is moved before a snapshot is reported, and that before the
job is complete; an error may be withdrawn, by the status of the next attempt,
a snapshot may not. `KopiaPod` implements it (`KeepsContract`), where `JobStates`,
`Reports` and `Moved` read job, report and data off step, `VolumeBackup` and
repository; in `DataExport` the same variables are `job`, `vb` and `data`, and its
jobs take the steps of `TransferJob` and all of them, provided the secrets and the
service account are there. So `DataExport` neither invents what a pod does nor leaves
any of it out. What the contract does not cover: `cleanUp` deletes job and
`VolumeBackup` under a pod that still runs, which `DataExport` has and `KopiaPod`, with
no controller in it, has not.

### ClaimTransfer and KopiaDelete

`ClaimTransfer` has the stages, the life and the faults of `DataExport`, without
volume snapshots and certificates. Its cluster is indexed by *name* (`JobName`,
`SecretName`) instead of by export, as in these drivers: `CreateJob` and
`CreateSecret` take what is there for theirs, `DeleteSecret`,
`CleanServiceAccount` and `DeleteJob` remove it whoever made it. `Answer` is
`JobStatus` and what the controller makes of it: the reads of a `VolumeBackup`
after a complete job use a name only kopia's drivers report. `HasDriver` is
`getDriverType`, which refuses an rsync whose source is recognised as a claim.

`KopiaDelete` has the three calls of the delete driver split at each call of the
API server, under `deleteJobLock`, and their callers, which are external to the
repository: they repeat `StartJob` until they have an id, poll, and repeat
`DeleteJob` until it returns no error. `WriteStatus` is the executor's.

### KopiaPod

The jobs are those of one claim, hence of one repository. A command has a
*process* that changes the repository (`CreateRepository`, `CreateSnapshot`,
`DeleteSnapshot`, ...), the *goroutine* of `Run` (`Wait`) that notes the outcome
in the wrapper, one field at a time where it matters, and the *executor*, whose
`Status` is two reads: `ReadError`, then `ReadFinished`. `finished` stands for
the field the second read tests: `summaryResponse` in `create`, `connect` and
`backup`, `~isRunning` in the others. The fields are read and written without
synchronisation; the model interleaves them, i.e. it takes each access as atomic
and in program order. What a weaker memory order allows beyond that is not
modelled.

Setting the policy is different: its first `Status` answers Done, so the process
goes on beside the following steps (`policyRunning`) until the container ends.
`Exit` is the exit of a container; `Kubernetes` starts it over until the backoff
limit (`Restart`), or completes the job of one that has come to its end
(`CompleteJob`). The steps *done*, *exited* and *blank* (between a `VolumeBackup`
created without credentials and the error written into it) are places where a
container can be killed or the controller can look.
Snapshots are named `<<backup, attempt>>`; a `VolumeBackup` is its spec (none,
with a blank repository name, named), its snapshot id and whether it has an
error. A delete job may be started for a backup that has been successful, a
restore likewise, which is what stork does.

### ResticPod

The same actors as in `KopiaPod`, but `proc` and `answer` need no half-way states:
these wrappers set their result under a lock, which `Status` takes too. `vb` is one
record for all backups of the claim, `snapshots` a sequence, since a restore
asks for the latest. No command is retried inside a container, and a restore
writes no status.

### Maintenance

`status` is the shared object; `copy[t]` is what pod `t` has read and `fresh`
the pods whose copy has the resource version of the object. `Run` succeeds or,
if the other pod has become the owner since `SetOwner`, may fail (the race of
the wrapper, as in `KopiaPod`, can hide the error). `UpdateStatus` writes back the whole copy and is
refused if it is not fresh; either way the loop goes on. `outcome` and
`tried` are history variables of the properties.

## 3. Runs

Twelve configurations, of which nine must pass:

| Run | Instance | Properties |
|---|---|---|
| `two_backups` | two backups of one claim, TLS, one may be deleted, 1 fault | `TypeOK`, `OneJobPerClaim`, `ClaimInv`, `TransferHasResources`, `KeepsPromise` |
| `two_restores` | a plain and a local restore into one claim, limit 1, one may be deleted, 1 fault | `BackedInv` (which contains `SuccessIsBacked`), `SuccessLeavesNothing`, `JobLimitRespected` |
| `snapshot_backup` | a backup from a volume snapshot, TLS, deletable, 3 faults, fairness | `SuccessIsBacked`, `FailureIsFinal`, `EventuallyDone`, `DeletionCompletes`, `KeepsPromise` |
| `live_backups` | two backups of one claim, limit 1, one may be deleted, no fault, fairness | `EventuallyDone`, `DeletionCompletes`, `KeepsPromiseInTime` |
| `kopia_pods` | a backup, its restore and its deletion, compression, 3 faults, fairness | `TypeOK`, `SavedIsStored`, `SuccessIsTrue`, `SavedStays`, `KeepsContract`, `EventuallyEnds` |
| `restic_pods` | two backups and a restore of one claim, 3 faults, fairness | `TypeOK`, `SavedIsStored`, `SuccessIsTrue`, `SavedOrError`, `NeverOlder`, `EventuallyEnds` |
| `claim_transfers` | two exports of one claim, in four mixes of kinds, deletable, 1 fault, fairness | `TypeOK`, `RemovedLeavesNothing`, `FailureIsFinal`, `EventuallySettled` |
| `kopia_deletes` | three requests for two snapshots, limit 1, 2 faults, fairness | `TypeOK`, `JobLimitRespected`, `NothingLeft`, `EventuallyDone` |
| `maintenance` | both pods, two repositories, one round each, 2 faults, fairness | `TypeOK`, `EveryRepoTried`, `OwnStatusOnly`, `RoundEnds` |

The other three, `bad_*`, are violated; section 6.

Bounds, and why they are enough:

* `MaxFaults`: each failed call, restart, killed container or lost update costs
  one. Faults only matter by what they leave for the next try; one is enough
  for a try and its repetition among two exports, three for a failure, a
  repetition that fails and a restart in one export. Without a bound every
  export could fail for ever and no liveness would hold.
* *Two exports of a driver*: all of their interaction is pairwise (mutex, claim,
  shared secret), except for the count of jobs, where the limit of one or two makes two
  enough to reach it. `OneJobPerClaim` is proved for any number.
* `JobLimit` 1 makes a second job wait; 2 lets the claim, and not the limit, be
  what keeps the second job out.
* `BackOffLimit` 1 instead of the code's 3: two attempts have everything that
  attempts pass to each other; each further one meets the states of the second.
* *Two exports and one claim* in `claim_transfers`: names are shared by claim, so
  exports of different claims do not meet; `Mixes` are the pairs that share all,
  some or none of their names.
* *Three requests* in `kopia_deletes`: two that share a job and one that
  competes with them for the one slot.
* *Two backups* in `restic_pods`: one that finds what the other has left in the
  shared `VolumeBackup`, with the restore before, between and after them.
* `RepoCount` 2: a repository to fail at and one to go on with. `MaxRounds` 1:
  a round depends on earlier ones by the owner and the shared object
  only, and both are changed by the other pod within a round too.

`CHECK_DEADLOCK FALSE` is set in all of them: when all exports are final, all
jobs have ended or no cron job is due, the system stops.

## 4. Fairness

* `WF(Reconcile(d, "ok"))`, `WF(Continue(d))`: an object that is not final is
  requeued (by `sync`'s result, by the error back-off, by the resync of the
  informer), and a worker in a reconcile goes on. The reply "ok" says that
  checks the cluster is asked for again and again succeed in the end: otherwise
  an export waits for ever, which is no fault of the controller.
* `SF(AcquireLock(d))`: `sync.Mutex` hands itself to a waiter that has waited
  for more than a millisecond, so a worker that finds it free again and again
  gets it.
* `WF(JobStep(d))`: a job that can proceed does. It is disabled while a pod's
  secrets are missing, which is the point of `bad_shared_cert`.
* In `KopiaPod` and `ResticPod`, `WF` on process, goroutine and executor: the
  command ends, goroutines are scheduled, polling is a loop. `KopiaPod` has `WF` on
  `Kubernetes` too: the job controller starts a failed container again. Starting a job,
  failing, printing progress and being killed are never fair. In `Maintenance`,
  `WF(Work(t))` alone; cron jobs need not fire.
* In `ClaimTransfer`, `WF(Reconcile(d, "ok") \/ Continue(d))` and `WF(JobStep(d))`,
  for the same reasons; there is no mutex.
* In `KopiaDelete`, `SF(AcquireLock(r))` for the mutex, as above, of a request
  that is repeated; `WF` on the calls of the driver and on the pod. That a caller
  repeats its requests is an assumption about code outside of the repository.

## 5. Theorems

`TypeCorrect`: `Spec => []TypeOK` (`DataExportProofs`). One lemma per group of
actions, and below it a step per action and a lemma per shared helper
(`SetStatus`, `Record`, `Advance`, `Ask`, `FallBack`, `CleanUpError`).

`OneJob`: `Spec => []OneJobPerClaim` (`DataExportClaimProofs`). Alone, it is not
inductive: a worker that stands before `CreateJob` may have looked long ago. The
inductive invariant is `ClaimInv`:

* `MutualExclusion`: two workers of a driver are never both between the lock and
  the end of `StartJob`;
* `StartSeesNoJob`: a worker between its checks and `CreateJob` has looked, and
  no job of the claim has been created since – which holds because of the first;
* `OneJobPerClaim`: then follows at `CreateJob` from the second.

All actions but `AcquireLock`, `CheckJob`, `SetupServiceAccount`, `CreateJob` and
`StartFails` are *quiet*: nobody enters the critical section, passes its checks, or gets
a job. `QuietKeepsClaimInv` settles these at once.

`ClaimInvHolds` states the invariant itself.

`LimitIsRespected`: `Spec => []JobLimitRespected`, if the set of exports is finite.
The invariant `LimitInv` adds that a worker that has passed the count still finds
room: nobody of its driver can have created a job since, because it holds the
mutex. The lemmas `CountShrinks` and `CountGrowsByOne` are about the cardinality
of the counted jobs.

`SuccessHasData` (`Spec => []SuccessIsBacked`) and `FailureStaysFinal`
(`Spec => FailureIsFinal`) (`DataExportProofs`) rest on `BackedInv`
(`BackedInvHolds`):

* `WorkerStage`: a worker in the middle of a stage has its object in that stage,
  which has no outcome yet. Without it a worker that comes back from `StartJob`
  could turn a failure into a success; it is why `sync` tests the stage's
  outcome before it starts anything;
* `LocalStage`: only local restores are in the stages that go to Cleanup without
  a transfer, and their success has restored the data;
* `ReportIsBacked`: a complete job, and a snapshot id, report what was transferred;
* `SuccessIsBacked` itself.

`TransferIsSupplied` (`Spec => []TransferHasResources`) and `SuccessIsTidy`
(`Spec => []SuccessLeavesNothing`) (`DataExportTransferProofs`) rest on
`ResourceInv`. What a polled transfer has of its own was created stages before, so
`HasResources` follows secret, account and job from the first call of `StartJob` to
the poll. That a success leaves nothing needs to be known at every call of
`cleanUp` (`CleansUp`: what is behind the worker is gone), and that nothing comes
back: a job that has completed writes no more. `WorkerLife` and `StagesTaken` say
which exports get to which stage at all.

`PromiseIsKept` (`Spec => KeepsPromise`) (`DataExportTransferProofs`): `DataExport`
implements `Transfer`. Each action leaves what `Transfer` sees of the other exports
alone (`OthersStay`) and is, at its own export, one of `Transfer`'s steps
(`Matches`); `MatchIsStep` lifts this to a step of the whole. `Begin` needs
`ClaimInv` (the job that is created is the claim's only one), `Transferred` needs
`BackedInv`, `Succeed` needs `ResourceInv`, and that nothing is created after the
verdict is `WorkerStage`. A crash touches all workers but nothing `Transfer` sees.

`JobsAreTransferJobs` and `TransferJobsMayWork` (`DataExportProofs`): every step of a job
in `DataExport` is one of `TransferJob`, and every step by which a job of `TransferJob`
works is one of `DataExport`'s. The second is about one step from a typed state that
leaves what is not the job's alone, and has one condition: a report needs the
service account. (The first step, `Start`, is left out: it needs the mounted
secrets too.)

`PodTypeOK`, `SavedIsAlwaysStored`, `SuccessIsAlwaysTrue`, `IdIsFinal`
(`KopiaPodProofs`): `Spec => []TypeOK`, `[]SavedIsStored`, `[]SuccessIsTrue` and
`SavedStays`, for any number of jobs, attempts and faults. The invariant `PodInv`:

* `WrapperInv`: in which step a wrapper can be in which state, and that
  `finished` is only set of work that is done;
* `IdIsLast`: an id is in the `VolumeBackup` only while its own attempt is at the
  end of its last command, or when all that a container can do is exit;
* `DeletesFollow`: a delete job is there only of a backup that has ended;
* `SavedIsStored`, and `DoneIsTrue`: a container at its end has done its work and
  said so, which Kubernetes then takes for the success of the job;
* `MadeFirst`: a backup's `VolumeBackup` is there before any of its commands runs.

The second is why `CreateVolumeBackup` refuses a `VolumeBackup` with an id: a
container that went on would overwrite it with a blank one.

`ContractIsKept` (`Spec => KeepsContract`) (`KopiaPodProofs`): each action is one of
`TransferJob`'s steps of its job, or changes nothing the controller can see. A
process that makes a snapshot is `Move`, which needs `MadeFirst`; a second snapshot by
a later attempt, and the deletion of one, are stutters, since its data has been
moved; a write of the poll is `Report`, of an id only after `SavedIsStored` says that
its snapshot is there, and never from an id back to none (`IdIsLast`).

`DeleteTypeOK`, `DeleteLimitIsRespected`, `NothingIsLeft` (`KopiaDeleteProofs`):
`Spec => []TypeOK`, `[]JobLimitRespected` (if the set of snapshots is finite) and
`[]NothingLeft`. `RoomInv` is as above, with the mutex as an equivalence (`LockInv`);
`DutyInv` says that what is there is some request's to delete, which is why
`DeleteJob` has to repeat all of its calls after an error.

`PodTypeOK`, `SavedIsAlwaysStored`, `RestoresNeverOlder`, `SuccessIsAlwaysTrue`,
`IdGoesWithError` (`ResticPodProofs`): `Spec => []TypeOK`, `[]SavedIsStored`,
`[]NeverOlder`, `SuccessIsTrue` and `SavedOrError`. The invariant `ResticPodInv`:

* `OneBackup`: the backup jobs of the claim follow each other;
* `WrapperInv`: an answer is given when the goroutine is over, and what it
  answers is real: the *last* snapshot is still this backup's, which needs the
  first;
* `IdIsOwn`: a container past the start of a backup finds an id only if it has
  written it itself, of the last snapshot. So a report of progress never
  overwrites another job's id, although all share the object;
* `WantedIsThere`: no restore waits for a snapshot that is yet to come, so the
  latest one is not older than the one asked for.

`ClaimTransferTypeOK`, `FailureStaysFinal`, `RemovedLeaveNothing`, `JobsAndAccountsGo`
(`ClaimTransferProofs`). These drivers have no lock, and a job belongs to whoever
has its name; `OwnInv` says where a worker is in relation to its own object, and
suffices for `FailureIsFinal`. `RemovedLeavesNothing` rests on `DebtInv`: of whatever job,
account or secret exists, some export of its name has *yet to delete it* (`Owes`),
i.e. has left the stage Initial and is neither removed nor past that call in the
`cleanUp` that removes it, or has no transfer id. A namesake may delete what an export
has made, or find it and record it as its own; when the last of them is removed,
nobody is left to owe anything, so nothing is left.

The secret of a restore has the name of a `VolumeBackup`, jobs that of a claim.
If a claim bore the name of a `VolumeBackup`, the secret of one export would have the
name of another one's job, and that export would not delete it. Nothing in the
code prevents it, so `RemovedLeaveNothing` has the hypothesis `NamesDiffer`; for jobs
and service accounts, `JobsAndAccountsGo` holds without it.

`PodsTypeCorrect`: `Spec => []TypeOK` (`MaintenanceProofs`). It needs that a pod with
repositories left is at one of them, i.e. that a non-empty set of naturals has a
least element (`LeastExists`, from the well-foundedness of the strict subset
relation on finite sets, which is the form the prover can use).

`StatusesStayApart` (`Spec => OwnStatusOnly`) (`MaintenanceProofs`): whatever the
number of repositories, faults and rounds, no write of one pod takes back what the
other has written. The invariant is that a pod about to write with a current
resource version has a copy that equals the object (`CopyIsCurrent`): a write
with an older copy is refused.

`EveryRepoHasItsTurn` (`Spec => []EveryRepoTried`) (`MaintenanceProofs`): a pod
that ends has tried all repositories, because those it has left and those it has
tried make up the whole list at any time (`TurnInv`).

Assumptions: the ASSUMEs of `DataExport` (restores, snapshots, local restores
and deletable exports are exports, of the right kind; `PvcOf` is a function on
them; numbers are naturals), of `KopiaPod` (kinds of jobs are disjoint, a restore
or delete has a backup), of `ResticPod`, `ClaimTransfer` (sources and destinations
are claims), `KopiaDelete` and `Maintenance`. No theorem assumes fairness or a bound
on faults; the two about limits assume a finite set, `RemovedLeaveNothing` assumes
`NamesDiffer`, which the instance of its run satisfies.

Model-checked only: all liveness (`EventuallyDone`, `DeletionCompletes`,
`EventuallyEnds`, `EventuallySettled`, `RoundEnds`, and what `KeepsPromiseInTime` adds to
`KeepsPromise`), which is out of the prover's reach, as is ENABLED. Every invariant
and every safety property of the passing runs is proved.

## 6. Findings

Each is a run whose one property repeats what a line of the repository says.

* `bad_removed_snapshot` – `cleanUp` takes a missing secret for a sign that it
  ran before (`reconcile.go:1118`). An export deleted between the restore of its
  snapshot and the creation of the secret leaves its temporary claim. No fault
  is needed.
* `bad_shared_cert` – the certificate secret is shared and deleted by each
  `cleanUp` (`reconcile.go:1139`): a pod that is about to mount it never starts,
  and its export waits for ever. No fault is needed.
* `bad_rsync_verdict` – the test of an rsync between two claims expects it to
  succeed; `getDriverType` finds no driver for it (`reconcile.go:1647`), and one
  that got past it would never be seen to end (`rsync.go:105`).

Other places where the model shows the code to go astray, without a run of
their own; those that are hazards are in `PROJECT.json` with the actions of the
model that have them:

* A repeated `restoreSnapshot` gets an empty claim name (`reconcile.go:759`), and
  the backup silently reads the live claim.
* The policy of a repository is set only by the attempt that created it, and is
  not waited for (`kopiabackup.go:122`, `global_policy.go:70`).
* The delete wrapper resets `isRunning` after an error too, and `Status` may read
  between the two: the job succeeds, the snapshot is there (`delete.go:57`).
* The second of two concurrent updates of the maintenance object is refused,
  not retried and, on the success path, not logged (`maintenance.go:195`).
* A start that fails after `CreateJob` leaves a job nobody deletes: `cleanUp`
  only calls `DeleteJob` for a recorded transfer.
* A restore whose worker restarts after `CreateJob` counts its own job against the
  limit, and may wait for it for ever. So do all delete requests when a failed
  job is left whose id was lost: `EventuallyDone` of `KopiaDelete` excepts this
  case, `Abandoned` (`jobratelimit.go:59`).
* `DeleteJob` removes the `VolumeBackup` before the job; a pod that just starts
  creates it again.
* `cleanupLocalRestoredSnapshotResources` takes an error of
  `getSnapshotDriverName` for having nothing to do (`reconcile.go:1163`): a
  successful local restore may leave its local copy.
* A complete restore job whose pods were collected counts as pending for ever
  (`drivers/utils/utils.go:90`).
* A container killed between writing its snapshot id and its exit fails every
  restart, and so the job, with the backup saved (`executor/common.go:466`).
* A `VolumeBackup` created with a blank repository name makes every restart fail
  (`executor/common.go:462`).
* `volumebackupdelete.go:44` has states for success and progress; only Failed is ever written
  (`executor/common.go:395`), and stays when a later attempt succeeds.
* A restic export never succeeds: after a complete job the controller reads a
  `VolumeBackup` under the name kopia's drivers give it (`reconcile.go:404`).
* The restic restore driver creates its secret under one name and deletes
  another (`resticrestore.go:86`): the secret stays.
* Quick maintenance runs the command of full maintenance (`maintenance.go:211`);
  this needs no model.

## 7. Plan

Done: the kopia path with its pods, maintenance and deletion; restic and rsync;
the abstract `Transfer` and `TransferJob`, and the proofs that `DataExport` and
`KopiaPod` implement them; a proof of every safety property the runs check. What is
left:

1. *The same line for deletion and restic*: a contract between `KopiaDelete` and
   the delete jobs of `KopiaPod`, and between `ClaimTransfer` and `ResticPod`, whose
   jobs share one `VolumeBackup`.
2. *Properties nobody checks yet*: what the hazards of `PROJECT.json` without a
   property would take, mostly a statement with the exception in it.
3. *Liveness of restores*, which needs the two exceptions of section 6 (its own
   job counts, pods that were collected) stated as such.
4. *Maintenance driver*: its cron jobs and their secrets.

## 8. Not modelled

* `pkg/snapshots`, an older interface; the controller's snapshots go through
  stork and appear as replies of the cluster. The restic job of a claim that is
  mounted (live backup) differs in its pod template only.
* The cron jobs of the maintenance driver: single calls of the API server.
* The end-to-end tests; they were read for what they expect.
* Generated clients, CRD registration, versions, command lines: no logic.
* Contents of templates, commands, credentials, kopia's output: configuration
  and formats no property is about.
* Leader election and several controllers: one controller is assumed, with the
  mutexes of its process. Data races beyond interleaving, see `KopiaPod`.
* Access modes: whether a claim can be mounted by two pods is the cluster's.
