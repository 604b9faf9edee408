----------------------------- MODULE Maintenance -----------------------------
(***************************************************************************)
(* Maintenance of the kopia repositories of one backup location            *)
(* (pkg/executor/kopia/maintenance.go).  Two cron jobs, a full and a quick *)
(* one, start pods that go through the repositories one by one: connect,   *)
(* become the owner of the maintenance, run it, and note the outcome in    *)
(* the one BackupLocationMaintenance object of the location.  Their        *)
(* default schedules start both at midnight, so the pods overlap.          *)
(*                                                                         *)
(* An operator that stands just before another one and extends its name is *)
(* a faulty variant of it, the bug a property is there to catch.           *)
(***************************************************************************)
EXTENDS Naturals

CONSTANTS
  RepoCount,  \* repositories under generic-backup/, in the order of the list
  MaxRounds,  \* bound: how often each cron job starts a pod
  MaxFaults   \* bound: failed commands and calls, killed pods

ASSUME CountAssumption ==
  RepoCount \in Nat \ {0} /\ MaxRounds \in Nat /\ MaxFaults \in Nat

Repos == 1..RepoCount
Pods  == {"full", "quick"}     \* --maintenance-type

VARIABLES
  owner,    \* the pod whose host owns the maintenance of a repository
  status,   \* FullMaintenanceRepoStatus and QuickMaintenanceRepoStatus
  copy,     \* the object as the pod has read it
  fresh,    \* pods whose copy has the resource version of the object
  step, todo, result, tried,  \* the pod: where, repositories left, outcome, history
  outcome,  \* history: the outcome of a pod's last attempt at a repository
  rounds, faults

podVars == <<copy, fresh, step, todo, result, tried, outcome>>
vars    == <<owner, status, podVars, rounds, faults>>

Results == {"Successful", "Failed"}

TypeOK ==
  /\ owner \in [Repos -> Pods \cup {"none"}]
  /\ status \in [Pods -> [Repos -> Results \cup {"none"}]]
  /\ copy \in [Pods -> [Pods -> [Repos -> Results \cup {"none"}]]]
  /\ fresh \in SUBSET Pods
  /\ step \in [Pods -> {"idle", "list", "connect", "set", "run", "get", "update"}]
  /\ todo \in [Pods -> SUBSET Repos] /\ tried \in [Pods -> SUBSET Repos]
  /\ \A t \in Pods : step[t] \in {"idle", "list"} <=> todo[t] = {}
  /\ result \in [Pods -> Results]
  /\ outcome \in [Pods -> [Repos -> Results \cup {"none"}]]
  /\ rounds \in [Pods -> 0..MaxRounds] /\ faults \in 0..MaxFaults

NoStatus == [t \in Pods |-> [r \in Repos |-> "none"]]

Init ==
  /\ owner = [r \in Repos |-> "none"]
  /\ status = NoStatus /\ copy = [t \in Pods |-> NoStatus] /\ fresh = {}
  /\ step = [t \in Pods |-> "idle"]
  /\ todo = [t \in Pods |-> {}] /\ tried = [t \in Pods |-> {}]
  /\ result = [t \in Pods |-> "Failed"]
  /\ outcome = NoStatus
  /\ rounds = [t \in Pods |-> MaxRounds] /\ faults = MaxFaults

Fault == faults > 0 /\ faults' = faults - 1

Goto(t, s) == step' = [step EXCEPT ![t] = s]

\* The repository a pod is at: it follows the order of the list.
Current(t) == CHOOSE r \in todo[t] : \A q \in todo[t] : r <= q

-----------------------------------------------------------------------------
(* A round of a pod                                                        *)

StartPod(t) ==
  /\ step[t] = "idle" /\ rounds[t] > 0
  /\ rounds' = [rounds EXCEPT ![t] = @ - 1]
  /\ Goto(t, "list")
  /\ UNCHANGED <<owner, status, copy, fresh, todo, result, tried, outcome, faults>>

\* getRepoList leaves out a repository that it cannot look into.
ListRepos(t) ==
  /\ step[t] = "list"
  /\ \/ todo' = [todo EXCEPT ![t] = Repos] /\ UNCHANGED faults
     \/ Fault /\ \E list \in (SUBSET Repos) \ {{}} : todo' = [todo EXCEPT ![t] = list]
  /\ Goto(t, "connect")
  /\ tried' = [tried EXCEPT ![t] = Repos \ todo'[t]]
  /\ UNCHANGED <<owner, status, copy, fresh, result, outcome, rounds>>

\* The outcome of the work on a repository is known.
Conclude(t, r) ==
  /\ result' = [result EXCEPT ![t] = r]
  /\ outcome' = [outcome EXCEPT ![t][Current(t)] = r]
  /\ tried' = [tried EXCEPT ![t] = @ \cup {Current(t)}]
  /\ Goto(t, "get")
  /\ UNCHANGED <<status, copy, fresh, todo, rounds>>

Proceed(t, s) ==
  Goto(t, s) /\ UNCHANGED <<status, copy, fresh, todo, result, tried, outcome,
                            rounds, faults>>

Connect(t) == step[t] = "connect" /\ Proceed(t, "set") /\ UNCHANGED owner

SetOwner(t) ==
  /\ step[t] = "set"
  /\ owner' = [owner EXCEPT ![Current(t)] = t]
  /\ Proceed(t, "run")

\* kopia runs maintenance for the owner only.  An error may be overlooked: the
\* wrapper sets lastError and resets isRunning while Status reads them.
Run(t) ==
  /\ step[t] = "run"
  /\ Conclude(t, "Successful") \/ (owner[Current(t)] # t /\ Conclude(t, "Failed"))
  /\ UNCHANGED <<owner, faults>>

ForgetOthers(t) ==
  /\ step[t] \in {"connect", "set", "run"} /\ Fault
  /\ todo' = [todo EXCEPT ![t] = {}]
  /\ Goto(t, "idle")
  /\ UNCHANGED <<owner, status, copy, fresh, result, tried, outcome, rounds>>

\* One of the three commands fails: the next repository still has its turn.
CommandFails(t) ==
  /\ step[t] \in {"connect", "set", "run"} /\ Fault
  /\ Conclude(t, "Failed") /\ UNCHANGED owner

-----------------------------------------------------------------------------
(* updateBackupLocationMaintenace                                          *)

GetStatus(t) ==
  /\ step[t] = "get"
  /\ copy' = [copy EXCEPT ![t] = status] /\ fresh' = fresh \cup {t}
  /\ Goto(t, "update")
  /\ UNCHANGED <<owner, status, todo, result, tried, outcome, rounds, faults>>

Forget(t) == copy' = [copy EXCEPT ![t] = NoStatus]

NextRepoAlways(t) ==
  /\ todo' = [todo EXCEPT ![t] = @ \ {Current(t)}]
  /\ Goto(t, "connect") /\ Forget(t)
  /\ UNCHANGED <<owner, result, tried, outcome, rounds>>

\* The loop goes on, whether or not the status could be written.
NextRepo(t) ==
  /\ todo' = [todo EXCEPT ![t] = @ \ {Current(t)}]
  /\ Goto(t, IF todo[t] = {Current(t)} THEN "idle" ELSE "connect") /\ Forget(t)
  /\ UNCHANGED <<owner, result, tried, outcome, rounds>>

Written(t) == [copy[t] EXCEPT ![t][Current(t)] = result[t]]

UpdateStatusBlindly(t) ==
  /\ step[t] = "update"
  /\ status' = Written(t)
  /\ fresh' = fresh \ Pods
  /\ NextRepo(t) /\ UNCHANGED faults

UpdateStatusAgain(t) ==
  /\ step[t] = "update" /\ t \in fresh
  /\ status' = Written(t)
  /\ fresh' = fresh \ Pods
  /\ NextRepo(t) /\ UNCHANGED faults

\* The whole object is written back; the API server refuses it when the other
\* pod has changed the object since it was read.  A warning at most is logged.
UpdateStatus(t) ==
  /\ step[t] = "update"
  /\ status' = IF t \in fresh THEN Written(t) ELSE status
  /\ fresh' = IF t \in fresh THEN {} ELSE fresh
  /\ NextRepo(t) /\ UNCHANGED faults

StatusFails(t) ==
  /\ step[t] \in {"get", "update"} /\ Fault
  /\ NextRepo(t) /\ UNCHANGED <<status, fresh>>

\* The pod is killed or cannot list the bucket, and starts over.
Kill(t) ==
  /\ step[t] # "idle" /\ Fault
  /\ Goto(t, "list") /\ Forget(t)
  /\ todo' = [todo EXCEPT ![t] = {}]
  /\ UNCHANGED <<owner, status, fresh, result, tried, outcome, rounds>>

-----------------------------------------------------------------------------
(* The specification                                                       *)

Work(t) ==
  \/ ListRepos(t) \/ Connect(t) \/ SetOwner(t) \/ Run(t)
  \/ GetStatus(t) \/ UpdateStatus(t)

Next ==
  \E t \in Pods :
    StartPod(t) \/ Work(t) \/ CommandFails(t) \/ StatusFails(t) \/ Kill(t)

Spec == Init /\ [][Next]_vars

\* A pod that runs goes on; the cron jobs need not start one.
FairSpec == Spec /\ \A t \in Pods : WF_vars(Work(t))

-----------------------------------------------------------------------------
(* Properties                                                              *)

\* The status of a maintenance changes only by the pod of that type, at the
\* repository it is at and to the outcome of its last attempt there, although
\* each pod writes back the whole object that it read before the other's update.
OwnStatusOnly ==
  [][\A t \in Pods, r \in Repos :
       status'[t][r] # status[t][r] =>
         step[t] = "update" /\ r = Current(t) /\ status'[t][r] = outcome[t][r]]_vars

\* A pod that has finished has tried every repository of its list, whatever
\* failed at the others.
EveryRepoTried ==
  \A t \in Pods : step[t] = "idle" => tried[t] \in {{}, Repos}

\* A round that was begun ends, with both pods at work on the same object.
RoundEnds == \A t \in Pods : step[t] = "list" ~> step[t] = "idle"

=============================================================================
