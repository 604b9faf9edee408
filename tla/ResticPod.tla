------------------------------ MODULE ResticPod ------------------------------
(***************************************************************************)
(* The restic executor: the program in the pod of a backup or restore job  *)
(* (pkg/executor/restic) and the wrappers around the restic commands it    *)
(* runs (pkg/restic).                                                      *)
(*                                                                         *)
(* It differs from the kopia executor in what can go wrong.  A wrapper     *)
(* holds its lock while its goroutine or Status is at work, so a poll sees *)
(* all of a result or nothing.  No error is retried inside a container.    *)
(* All backups of a claim share one VolumeBackup, which nobody deletes,    *)
(* and a restore gets the latest snapshot of the repository, whatever its  *)
(* VolumeBackup says.                                                      *)
(*                                                                         *)
(* The jobs of the model are those of one claim, hence of one repository.  *)
(* An operator that stands just before another one and extends its name is *)
(* a faulty variant of it, the bug a property is there to catch.           *)
(***************************************************************************)
EXTENDS Naturals, Sequences

CONSTANTS
  Backups, Restores,  \* the jobs
  BackOffLimit,       \* JobPodBackOffLimit
  MaxFaults           \* bound: failed commands, API calls, killed containers

Jobs == Backups \cup Restores

ASSUME JobsAssumption == Backups \cap Restores = {}
ASSUME LimitAssumption == BackOffLimit \in Nat /\ MaxFaults \in Nat

VARIABLES
  \* the object store
  initialized,  \* the repository has its config
  snapshots,    \* its snapshots, the latest is the last
  \* custom resource
  vb,           \* the VolumeBackup of the claim
  \* jobs and their containers
  step, attempt,
  proc,         \* the current command, up to the end of its goroutine
  answer,       \* what the wrapper knows of it
  wanted,       \* the snapshot id in the VolumeBackup when a restore started
  got,          \* the snapshot a restore has brought back, 0 for none
  faults        \* how many faults may still happen

storeVars     == <<initialized, snapshots>>
containerVars == <<step, proc, answer>>
vars == <<storeVars, vb, containerVars, attempt, wanted, got, faults>>

Commands == {"init", "backup", "restore"}
Ended    == {"succeeded", "failed"}
Attempts == 1..(BackOffLimit + 1)

\* The id is the place of the snapshot in the repository, 0 for none.
VolumeBackupType == [made: BOOLEAN, id: Nat, error: BOOLEAN]

TypeOK ==
  /\ initialized \in BOOLEAN
  /\ snapshots \in Seq([of: Backups, complete: BOOLEAN])
  /\ vb \in VolumeBackupType
  /\ step \in [Jobs -> {"none", "start"} \cup Commands \cup Ended]
  /\ attempt \in [Jobs -> Attempts]
  /\ proc \in [Jobs -> {"idle", "running", "printed", "ok", "bad", "exists", "over"}]
  /\ answer \in [Jobs -> {"nothing", "done", "error", "exists"}]
  /\ wanted \in [Restores -> Nat] /\ got \in [Restores -> Nat]
  /\ faults \in 0..MaxFaults

Init ==
  /\ initialized = FALSE /\ snapshots = <<>>
  /\ vb = [made |-> FALSE, id |-> 0, error |-> FALSE]
  /\ step = [j \in Jobs |-> "none"] /\ attempt = [j \in Jobs |-> 1]
  /\ proc = [j \in Jobs |-> "idle"] /\ answer = [j \in Jobs |-> "nothing"]
  /\ wanted = [r \in Restores |-> 0] /\ got = [r \in Restores |-> 0]
  /\ faults = MaxFaults

Fault == faults > 0 /\ faults' = faults - 1

-----------------------------------------------------------------------------
(* Going from step to step                                                 *)

\* A step begins with Run of its command, in a new wrapper.
Enter(j, s) ==
  /\ step' = [step EXCEPT ![j] = s]
  /\ proc' = [proc EXCEPT ![j] = IF s \in Commands THEN "running" ELSE "idle"]
  /\ answer' = [answer EXCEPT ![j] = "nothing"]

ExitUnlimited(j) ==
  /\ attempt' = [attempt EXCEPT ![j] = @ + 1]
  /\ Enter(j, IF attempt[j] = BackOffLimit + 2 THEN "failed" ELSE "start")

\* The container exits with an error; the backoff limit is 3.
Exit(j) ==
  IF attempt[j] <= BackOffLimit
  THEN attempt' = [attempt EXCEPT ![j] = @ + 1] /\ Enter(j, "start")
  ELSE UNCHANGED attempt /\ Enter(j, "failed")

\* WriteVolumeBackupStatus overwrites the id and the error.
WriteStatus(id, error) == vb' = [vb EXCEPT !.id = id, !.error = error]

-----------------------------------------------------------------------------
(* The start of a job and of a container                                   *)

\* The backup jobs of a claim have the same name: there is one at a time.  A
\* restore is given the repository of the VolumeBackup, not the snapshot.
StartJob(j) ==
  /\ step[j] = "none"
  /\ Enter(j, "start")
  /\ \/ /\ j \in Backups
        /\ \A b \in Backups : step[b] \in {"none"} \cup Ended
        /\ UNCHANGED wanted
     \/ /\ j \in Restores /\ vb.made
        /\ wanted' = [wanted EXCEPT ![j] = vb.id]
  /\ UNCHANGED <<storeVars, vb, attempt, got, faults>>

\* ParseBackupLocation fails: that is noted in the VolumeBackup, whatever it
\* holds.  A restore notes nothing.
ParseFails(j) ==
  /\ step[j] = "start" /\ Fault /\ Exit(j)
  /\ IF j \in Backups /\ vb.made THEN WriteStatus(0, TRUE) ELSE UNCHANGED vb
  /\ UNCHANGED <<storeVars, wanted, got>>

PrepareBackupAnyway(j) ==
  /\ step[j] = "start" /\ j \in Backups
  /\ \/ vb' = [vb EXCEPT !.made = TRUE] /\ Enter(j, "init") /\ UNCHANGED <<attempt, faults>>
     \/ Fault /\ UNCHANGED vb /\ Exit(j)
  /\ UNCHANGED <<storeVars, wanted, got>>

\* CreateVolumeBackup makes it or finds it; one with a snapshot id is left
\* alone, and the container exits.
PrepareBackup(j) ==
  /\ step[j] = "start" /\ j \in Backups
  /\ \/ /\ vb.id = 0
        /\ vb' = [vb EXCEPT !.made = TRUE]
        /\ Enter(j, "init") /\ UNCHANGED <<attempt, faults>>
     \/ vb.id # 0 /\ Exit(j) /\ UNCHANGED <<vb, faults>>
     \/ Fault /\ UNCHANGED vb /\ Exit(j)
  /\ UNCHANGED <<storeVars, wanted, got>>

PrepareRestore(j) ==
  /\ step[j] = "start" /\ j \in Restores
  /\ Enter(j, "restore")
  /\ UNCHANGED <<storeVars, vb, attempt, wanted, got, faults>>

-----------------------------------------------------------------------------
(* The restic processes (external)                                         *)

Returns(j, result) ==
  /\ proc' = [proc EXCEPT ![j] = result]
  /\ UNCHANGED <<vb, step, answer, attempt, wanted>>

At(j, s) == step[j] = s /\ proc[j] \in {"running", "printed"}

InitRepository(j) ==
  /\ At(j, "init")
  /\ initialized' = TRUE
  /\ Returns(j, IF initialized THEN "exists" ELSE "ok")
  /\ UNCHANGED <<snapshots, got, faults>>

\* The first lines of progress.
PrintProgress(j) ==
  /\ step[j] = "backup" /\ proc[j] = "running" /\ Returns(j, "printed")
  /\ UNCHANGED <<storeVars, got, faults>>

CreateSnapshot(j) ==
  /\ At(j, "backup")
  /\ snapshots' = Append(snapshots, [of |-> j, complete |-> TRUE])
  /\ Returns(j, "ok")
  /\ UNCHANGED <<initialized, got, faults>>

\* Some files could not be read: restic keeps the snapshot and fails.
CreateIncompleteSnapshot(j) ==
  /\ At(j, "backup") /\ Fault
  /\ snapshots' = Append(snapshots, [of |-> j, complete |-> FALSE])
  /\ Returns(j, "bad")
  /\ UNCHANGED <<initialized, got>>

\* restic restore latest.
RestoreLatest(j) ==
  /\ At(j, "restore")
  /\ got' = [got EXCEPT ![j] = Len(snapshots)]
  /\ Returns(j, IF snapshots = <<>> THEN "bad" ELSE "ok")
  /\ UNCHANGED <<storeVars, faults>>

\* Any of them may fail, or not even start.
CommandFails(j) ==
  /\ step[j] \in Commands /\ At(j, step[j]) /\ Fault
  /\ Returns(j, "bad") /\ UNCHANGED <<storeVars, got>>

-----------------------------------------------------------------------------
(* The goroutine of Run                                                    *)

WaitFallingThrough(j) ==
  /\ proc[j] \in {"ok", "bad", "exists"}
  /\ answer' = [answer EXCEPT ![j] = IF proc[j] = "exists" THEN "exists" ELSE "done"]
  /\ proc' = [proc EXCEPT ![j] = "over"]
  /\ UNCHANGED <<storeVars, vb, step, attempt, wanted, got, faults>>

WaitSilent(j) ==
  /\ proc[j] \in {"ok", "bad", "exists"}
  /\ answer' = [answer EXCEPT ![j] = CASE proc[j] = "ok" -> "done"
                                       [] proc[j] = "exists" -> "exists"
                                       [] OTHER -> "nothing"]
  /\ proc' = [proc EXCEPT ![j] = "over"]
  /\ UNCHANGED <<storeVars, vb, step, attempt, wanted, got, faults>>

\* Its result and its error are set under the lock.  That there is an error to
\* set relies on restic: a restore that fails and prints empty lines only, on
\* standard error, would leave none.
Wait(j) ==
  /\ proc[j] \in {"ok", "bad", "exists"}
  /\ answer' = [answer EXCEPT ![j] = CASE proc[j] = "ok" -> "done"
                                       [] proc[j] = "exists" -> "exists"
                                       [] OTHER -> "error"]
  /\ proc' = [proc EXCEPT ![j] = "over"]
  /\ UNCHANGED <<storeVars, vb, step, attempt, wanted, got, faults>>

-----------------------------------------------------------------------------
(* The executor polls Status every five seconds                            *)

\* A backup that has not printed yet has an error for Status: no progress.
Refused(j) ==
  \/ answer[j] = "error"
  \/ answer[j] = "nothing" /\ step[j] = "backup" /\ proc[j] = "running"

\* An error ends the container.
ReadError(j) ==
  /\ step[j] \in Commands /\ Refused(j)
  /\ Exit(j)
  /\ UNCHANGED <<storeVars, vb, wanted, got, faults>>

\* The snapshot id that Status returns; a backup that is done has made the
\* last snapshot, there is no other backup.
Answer(j) == IF step[j] = "backup" /\ answer[j] = "done" THEN Len(snapshots) ELSE 0

ReadStatusUnwritten(j) ==
  /\ step[j] \in Commands /\ ~Refused(j) /\ answer[j] # "nothing"
  /\ Enter(j, IF step[j] = "init" THEN "backup" ELSE "succeeded")
  /\ UNCHANGED <<storeVars, vb, attempt, wanted, got, faults>>

\* The status of a backup is written, then the command is done or goes on.  A
\* repository that exists is as good as one created.
ReadStatus(j) ==
  /\ step[j] \in Commands /\ ~Refused(j)
  /\ IF j \in Backups THEN WriteStatus(Answer(j), FALSE) ELSE UNCHANGED vb
  /\ IF answer[j] # "nothing"
     THEN Enter(j, IF step[j] = "init" THEN "backup" ELSE "succeeded")
     ELSE UNCHANGED containerVars
  /\ UNCHANGED <<storeVars, attempt, wanted, got, faults>>

\* The write takes effect but returns an error, and the status is asked for
\* again; one without effect is as if there had been no poll.
WriteFails(j) ==
  /\ step[j] \in {"init", "backup"} /\ ~Refused(j) /\ Fault
  /\ WriteStatus(Answer(j), FALSE)
  /\ UNCHANGED <<storeVars, containerVars, attempt, wanted, got>>

\* The container is killed, at any point.
Kill(j) ==
  /\ step[j] \notin {"none"} \cup Ended /\ Fault
  /\ Exit(j)
  /\ UNCHANGED <<storeVars, vb, wanted, got>>

-----------------------------------------------------------------------------
(* The specification                                                       *)

Process(j) == InitRepository(j) \/ CreateSnapshot(j) \/ RestoreLatest(j)

Executor(j) ==
  PrepareBackup(j) \/ PrepareRestore(j) \/ ReadError(j) \/ ReadStatus(j)

Mishap(j) ==
  \/ ParseFails(j) \/ CreateIncompleteSnapshot(j) \/ CommandFails(j)
  \/ WriteFails(j) \/ Kill(j)

Next ==
  \E j \in Jobs :
    \/ StartJob(j) \/ Process(j) \/ PrintProgress(j) \/ Wait(j) \/ Executor(j)
    \/ Mishap(j)

Spec == Init /\ [][Next]_vars

\* A restic process ends, its goroutine goes on, and so does the executor; jobs
\* need not be started, nor progress be printed.
FairSpec ==
  /\ Spec
  /\ \A j \in Jobs : WF_vars(Process(j)) /\ WF_vars(Wait(j)) /\ WF_vars(Executor(j))

-----------------------------------------------------------------------------
(* Properties                                                              *)

\* A snapshot id in the VolumeBackup is that of a complete snapshot: neither a
\* snapshot restic kept although files were missing nor that of an attempt that
\* was killed before it told.
SavedIsStored == vb.id # 0 => vb.id \in DOMAIN snapshots /\ snapshots[vb.id].complete

\* A backup job ends well only when the VolumeBackup names the snapshot it has
\* made itself and no error of an earlier attempt is left.
SuccessIsTrue ==
  [][\A b \in Backups :
       step[b] # "succeeded" /\ step'[b] = "succeeded" =>
         /\ vb'.id \in DOMAIN snapshots' /\ ~vb'.error
         /\ snapshots'[vb'.id] = [of |-> b, complete |-> TRUE]]_vars

\* A container that starts over, or a later job of the claim, does not take
\* the snapshot id away without saying that something went wrong: no progress
\* report of a later backup replaces it.
SavedOrError ==
  [][vb.id # 0 => vb'.id = vb.id \/ (vb'.id = 0 /\ vb'.error)]_vars

\* A restore that ends well brought a snapshot back, and none that is older
\* than the one its VolumeBackup named when it started.
NeverOlder ==
  \A r \in Restores : step[r] = "succeeded" => got[r] > 0 /\ got[r] >= wanted[r]

\* Every job that is started ends: the polling stops whatever the commands and
\* the container suffer.
EventuallyEnds ==
  \A j \in Jobs : step[j] = "start" ~> step[j] \in Ended

=============================================================================
