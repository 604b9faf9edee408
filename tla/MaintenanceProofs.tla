--------------------------- MODULE MaintenanceProofs ---------------------------
(***************************************************************************)
(* The two maintenance pods, for any number of repositories: neither       *)
(* overwrites the statuses of the other, and each tries every repository.  *)
(***************************************************************************)
EXTENDS Maintenance, FiniteSetTheorems, TLAPS

-----------------------------------------------------------------------------
(* The repository a pod is at                                              *)

\* A set of naturals has a least element: the intervals 0..x of its elements
\* are finite sets, which the strict subset relation orders well.
LEMMA LeastExists ==
  ASSUME NEW S \in SUBSET Nat, S # {}
  PROVE  \E x \in S : \A y \in S : x <= y
<1> DEFINE less      == StrictSubsetOrdering(Nat)
           intervals == {0..x : x \in S}
<1>1. \A x \in Nat : IsFiniteSet(0..x) /\ 0..x \in SUBSET Nat
  BY FS_Interval
<1>2. intervals \subseteq FiniteSubsetsOf(Nat) /\ intervals # {}
  BY <1>1 DEF FiniteSubsetsOf
<1>3. \E I \in intervals : \A J \in intervals : <<J, I>> \notin less
  <2> HIDE DEF less, intervals
  <2>1. IsWellFoundedOn(less, FiniteSubsetsOf(Nat))
    BY FS_StrictSubsetOrderingWellFounded DEF less
  <2> QED
    BY <1>2, <2>1, WFMin
<1>4. PICK x \in S : \A y \in S : <<0..y, 0..x>> \notin less
  BY <1>3
<1>5. ASSUME NEW y \in S, y < x PROVE FALSE
  <2>1. 0..y \subseteq 0..x /\ x \in 0..x /\ x \notin 0..y
    BY <1>5
  <2>2. <<0..y, 0..x>> \in less
    BY <1>1, <2>1 DEF StrictSubsetOrdering
  <2> QED
    BY <1>4, <2>2
<1> QED
  BY <1>5

\* A pod with repositories left is at one of them.
LEMMA CurrentIsLeft ==
  ASSUME TypeOK, NEW t \in Pods, todo[t] # {}
  PROVE  Current(t) \in todo[t] /\ Current(t) \in Repos
<1>1. todo[t] \in SUBSET Nat /\ todo[t] \subseteq Repos
  BY CountAssumption DEF TypeOK, Repos
<1>2. \E x \in todo[t] : \A y \in todo[t] : x <= y
  BY <1>1, LeastExists
<1> QED
  BY <1>1, <1>2 DEF Current

-----------------------------------------------------------------------------
(* Types                                                                   *)

LEMMA InitTypeOK == Init => TypeOK
BY CountAssumption DEF Init, TypeOK, NoStatus, Pods, Results

\* The steps of a pod up to the outcome of its command.
LEMMA CommandTypes ==
  ASSUME TypeOK, NEW t \in Pods,
         \/ StartPod(t) \/ ListRepos(t) \/ Connect(t) \/ SetOwner(t) \/ Run(t)
         \/ CommandFails(t)
  PROVE  TypeOK'
<1> USE CountAssumption DEF TypeOK
<1>1. CASE StartPod(t)
  BY <1>1 DEF StartPod, Goto
<1>2. CASE ListRepos(t)
  <2>1. 1 \in Repos
    BY DEF Repos
  <2>2. PICK list \in (SUBSET Repos) \ {{}} :
           todo' = [todo EXCEPT ![t] = list] /\ faults' \in 0..MaxFaults
    BY <1>2, <2>1 DEF ListRepos, Fault
  <2> QED
    BY <1>2, <2>2 DEF ListRepos, Goto
<1>3. CASE Connect(t)
  BY <1>3 DEF Connect, Proceed, Goto
<1>4. CASE SetOwner(t)
  BY <1>4 DEF SetOwner, Proceed, Goto
<1>5. ASSUME NEW r \in Results, Conclude(t, r), faults' \in 0..MaxFaults,
             step[t] \in {"connect", "set", "run"}, owner' = owner
      PROVE  TypeOK'
  <2>1. Current(t) \in Repos
    BY <1>5, CurrentIsLeft
  <2> QED
    BY <1>5, <2>1 DEF Conclude, Goto
<1>6. CASE Run(t)
  BY <1>5, <1>6 DEF Run, Results
<1>7. CASE CommandFails(t)
  BY <1>5, <1>7 DEF CommandFails, Fault, Results
<1> QED
  BY <1>1, <1>2, <1>3, <1>4, <1>6, <1>7

LEMMA ForgetTypes ==
  ASSUME TypeOK, NEW t \in Pods, Forget(t)
  PROVE  copy' \in [Pods -> [Pods -> [Repos -> Results \cup {"none"}]]]
BY DEF TypeOK, Forget, NoStatus

\* The next repository, if one is left.
LEMMA NextRepoTypes ==
  ASSUME TypeOK, NEW t \in Pods, step[t] \in {"get", "update"}, NextRepo(t),
         status' \in [Pods -> [Repos -> Results \cup {"none"}]],
         fresh' \in SUBSET Pods, faults' \in 0..MaxFaults
  PROVE  TypeOK'
<1>1. Current(t) \in todo[t]
  BY CurrentIsLeft DEF TypeOK
<1>2. copy' \in [Pods -> [Pods -> [Repos -> Results \cup {"none"}]]]
  BY ForgetTypes DEF NextRepo
<1>3. \A u \in Pods : step'[u] \in {"idle", "list"} <=> todo'[u] = {}
  BY <1>1 DEF NextRepo, Goto, TypeOK
<1> QED
  BY <1>2, <1>3 DEF NextRepo, Goto, TypeOK

\* The steps that have to do with the object of both pods.
LEMMA StatusTypes ==
  ASSUME TypeOK, NEW t \in Pods,
         GetStatus(t) \/ UpdateStatus(t) \/ StatusFails(t) \/ Kill(t)
  PROVE  TypeOK'
<1>1. CASE GetStatus(t)
  BY <1>1 DEF GetStatus, Goto, TypeOK
<1>2. CASE UpdateStatus(t)
  <2>1. Written(t) \in [Pods -> [Repos -> Results \cup {"none"}]]
    <3> DEFINE Repository == [Repos -> Results \cup {"none"}]
    <3>1. copy[t] \in [Pods -> Repository] /\ result[t] \in Results
      BY DEF TypeOK
    <3>2. copy[t][t] \in Repository
      BY <3>1
    <3>3. [copy[t][t] EXCEPT ![Current(t)] = result[t]] \in Repository
      BY <3>1, <3>2
    <3> QED
      BY <3>1, <3>3 DEF Written
  <2> QED
    BY <1>2, <2>1, NextRepoTypes DEF UpdateStatus, TypeOK
<1>3. CASE StatusFails(t)
  <2>1. faults' \in 0..MaxFaults
    BY <1>3, CountAssumption DEF StatusFails, Fault, TypeOK
  <2>2. status' = status /\ fresh' = fresh /\ NextRepo(t)
        /\ step[t] \in {"get", "update"}
    BY <1>3 DEF StatusFails
  <2> QED
    BY <2>1, <2>2, NextRepoTypes DEF TypeOK
<1>4. CASE Kill(t)
  BY <1>4, ForgetTypes, CountAssumption DEF Kill, Fault, Goto, TypeOK
<1> QED
  BY <1>1, <1>2, <1>3, <1>4

LEMMA NextTypeOK == TypeOK /\ [Next]_vars => TypeOK'
<1> SUFFICES ASSUME TypeOK, [Next]_vars PROVE TypeOK'
  OBVIOUS
<1>1. CASE UNCHANGED vars
  BY <1>1 DEF vars, podVars, TypeOK
<1>2. CASE Next
  <2>1. PICK t \in Pods :
          StartPod(t) \/ Work(t) \/ CommandFails(t) \/ StatusFails(t) \/ Kill(t)
    BY <1>2 DEF Next
  <2> QED
    BY <2>1, CommandTypes, StatusTypes DEF Work
<1> QED
  BY <1>1, <1>2

\* Every variable keeps its type; a pod has repositories left exactly while it
\* is between the list and its end.
THEOREM PodsTypeCorrect == Spec => []TypeOK
<1> QED
  BY InitTypeOK, NextTypeOK, PTL DEF Spec

-----------------------------------------------------------------------------
(* The statuses of the two pods stay apart                                 *)

\* A pod that is about to write and whose copy has the resource version of the
\* object has a copy that is the object.
CopyIsCurrent ==
  \A t \in Pods : step[t] = "update" /\ t \in fresh => copy[t] = status

LEMMA NextCopyIsCurrent ==
  TypeOK /\ CopyIsCurrent /\ [Next]_vars => CopyIsCurrent'
<1> SUFFICES ASSUME TypeOK, CopyIsCurrent, [Next]_vars,
                    NEW u \in Pods, step'[u] = "update", u \in fresh'
             PROVE  copy'[u] = status'
  BY DEF CopyIsCurrent
<1>1. CASE UNCHANGED vars
  BY <1>1 DEF vars, podVars, CopyIsCurrent
<1>2. CASE Next
  <2>1. PICK t \in Pods :
          StartPod(t) \/ Work(t) \/ CommandFails(t) \/ StatusFails(t) \/ Kill(t)
    BY <1>2 DEF Next
  <2> USE DEF TypeOK, CopyIsCurrent, Goto
  <2>2. CASE StartPod(t)
    BY <2>2 DEF StartPod
  <2>3. CASE ListRepos(t)
    BY <2>3 DEF ListRepos
  <2>4. CASE Connect(t) \/ SetOwner(t)
    BY <2>4 DEF Connect, SetOwner, Proceed
  <2>5. CASE Run(t) \/ CommandFails(t)
    BY <2>5 DEF Run, CommandFails, Conclude
  <2>6. CASE GetStatus(t)
    BY <2>6 DEF GetStatus
  <2>7. CASE UpdateStatus(t)
    BY <2>7 DEF UpdateStatus, NextRepo, Forget
  <2>8. CASE StatusFails(t)
    BY <2>8 DEF StatusFails, NextRepo, Forget
  <2>9. CASE Kill(t)
    BY <2>9 DEF Kill, Forget
  <2> QED
    BY <2>1, <2>2, <2>3, <2>4, <2>5, <2>6, <2>7, <2>8, <2>9 DEF Work
<1> QED
  BY <1>1, <1>2

\* What a pod is about to write is the outcome of its last attempt.
ResultIsOutcome ==
  \A t \in Pods : step[t] \in {"get", "update"} => result[t] = outcome[t][Current(t)]

LEMMA NextResultIsOutcome ==
  TypeOK /\ ResultIsOutcome /\ [Next]_vars => ResultIsOutcome'
<1> SUFFICES ASSUME TypeOK, ResultIsOutcome, [Next]_vars, NEW u \in Pods,
                    step'[u] \in {"get", "update"}
             PROVE  result'[u] = outcome'[u][Current(u)']
  BY DEF ResultIsOutcome
<1>1. CASE /\ step'[u] = step[u] /\ todo'[u] = todo[u] /\ result'[u] = result[u]
           /\ outcome'[u] = outcome[u]
  BY <1>1 DEF ResultIsOutcome, Current
<1>2. CASE UNCHANGED vars
  BY <1>1, <1>2 DEF vars, podVars
<1>3. CASE Next
  <2>1. PICK t \in Pods :
          StartPod(t) \/ Work(t) \/ CommandFails(t) \/ StatusFails(t) \/ Kill(t)
    BY <1>3 DEF Next
  <2>2. CASE t # u
    <3>1. /\ step'[u] = step[u] /\ todo'[u] = todo[u] /\ result'[u] = result[u]
          /\ outcome'[u] = outcome[u]
      BY <2>1, <2>2 DEF TypeOK, StartPod, Work, ListRepos, Connect, SetOwner,
         Proceed, Run, CommandFails, Conclude, GetStatus, UpdateStatus,
         StatusFails, NextRepo, Kill, Goto
    <3> QED
      BY <1>1, <3>1
  <2>3. CASE t = u
    <3>1. CASE GetStatus(u)
      BY <3>1 DEF GetStatus, ResultIsOutcome, Current
    <3>2. CASE Run(u) \/ CommandFails(u)
      <4>1. PICK res \in Results : Conclude(u, res)
        BY <3>2 DEF Run, CommandFails, Results
      <4>2. Current(u) \in Repos
        BY <3>2, CurrentIsLeft DEF Run, CommandFails, TypeOK
      <4>3. Current(u)' = Current(u)
        BY <4>1 DEF Conclude, Current
      <4> QED
        BY <4>1, <4>2, <4>3 DEF Conclude, TypeOK
    <3>3. CASE StartPod(u) \/ ListRepos(u) \/ Connect(u) \/ SetOwner(u) \/ Kill(u)
      BY <3>3 DEF StartPod, ListRepos, Connect, SetOwner, Proceed, Kill, Goto, TypeOK
    <3>4. CASE UpdateStatus(u) \/ StatusFails(u)
      BY <3>4 DEF UpdateStatus, StatusFails, NextRepo, Goto, TypeOK
    <3> QED
      BY <2>1, <2>3, <3>1, <3>2, <3>3, <3>4 DEF Work
  <2> QED
    BY <2>2, <2>3
<1> QED
  BY <1>2, <1>3

\* Every step but a successful update leaves the object alone, and that one
\* changes a single entry of it.
LEMMA NextOwnStatus ==
  ASSUME TypeOK, CopyIsCurrent, ResultIsOutcome, [Next]_vars,
         NEW t \in Pods, NEW r \in Repos, status'[t][r] # status[t][r]
  PROVE  step[t] = "update" /\ r = Current(t) /\ status'[t][r] = outcome[t][r]
<1>1. PICK u \in Pods : UpdateStatus(u)
  <2>1. CASE UNCHANGED vars
    BY <2>1 DEF vars
  <2>2. CASE Next
    BY <2>2 DEF Next, StartPod, Work, ListRepos, Connect, SetOwner, Run, Conclude,
       Proceed, CommandFails, GetStatus, StatusFails, Kill
  <2> QED
    BY <2>1, <2>2
<1>2. u \in fresh /\ step[u] = "update" /\ status' = Written(u)
  BY <1>1 DEF UpdateStatus
<1>3. copy[u] = status
  BY <1>2 DEF CopyIsCurrent
<1>4. status' = [status EXCEPT ![u] = [@ EXCEPT ![Current(u)] = result[u]]]
  BY <1>2, <1>3 DEF Written
<1>5. u = t
  BY <1>4 DEF TypeOK
<1>6. status'[t] = [status[t] EXCEPT ![Current(t)] = result[t]]
  BY <1>4, <1>5 DEF TypeOK
<1>7. r = Current(t) /\ status'[t][r] = result[t]
  BY <1>6 DEF TypeOK
<1>8. result[t] = outcome[t][r]
  BY <1>2, <1>5, <1>7 DEF ResultIsOutcome
<1> QED
  BY <1>2, <1>5, <1>7, <1>8

\* However the pods interleave, and whatever fails, a pod writes nothing but the
\* outcome of its last attempt, and never takes back what the other one has
\* written.
THEOREM StatusesStayApart == Spec => OwnStatusOnly
<1>1. Init => CopyIsCurrent /\ ResultIsOutcome
  BY DEF Init, CopyIsCurrent, ResultIsOutcome
<1>2. TypeOK /\ CopyIsCurrent /\ ResultIsOutcome /\ [Next]_vars
      => [\A t \in Pods, r \in Repos :
            status'[t][r] # status[t][r] =>
              step[t] = "update" /\ r = Current(t)
              /\ status'[t][r] = outcome[t][r]]_vars
  BY NextOwnStatus
<1> QED
  BY <1>1, <1>2, NextCopyIsCurrent, NextResultIsOutcome, PodsTypeCorrect, PTL
     DEF Spec, OwnStatusOnly

-----------------------------------------------------------------------------
(* Every repository has its turn                                           *)

\* What a pod has tried and what it has left make up the list.
ListIsCovered ==
  \A t \in Pods :
    /\ step[t] \notin {"idle", "list"} => Repos \subseteq tried[t] \cup todo[t]
    /\ step[t] \in {"get", "update"}   => Current(t) \in tried[t]

TurnInv == EveryRepoTried /\ ListIsCovered

\* A pod keeps to its part of the invariant while it is not moved.
LEMMA OthersKeepTurn ==
  ASSUME TurnInv, NEW u \in Pods, step'[u] = step[u], todo'[u] = todo[u],
         tried'[u] = tried[u]
  PROVE  /\ step'[u] = "idle" => tried'[u] \in {{}, Repos}
         /\ step'[u] \notin {"idle", "list"} => Repos \subseteq tried'[u] \cup todo'[u]
         /\ step'[u] \in {"get", "update"}   => Current(u)' \in tried'[u]
<1>1. Current(u)' = Current(u)
  BY DEF Current
<1> QED
  BY <1>1 DEF TurnInv, EveryRepoTried, ListIsCovered

LEMMA NextTurnInv == TypeOK /\ TurnInv /\ [Next]_vars => TurnInv'
<1> SUFFICES ASSUME TypeOK, TurnInv, [Next]_vars, NEW u \in Pods
             PROVE  /\ step'[u] = "idle" => tried'[u] \in {{}, Repos}
                    /\ step'[u] \notin {"idle", "list"}
                       => Repos \subseteq tried'[u] \cup todo'[u]
                    /\ step'[u] \in {"get", "update"} => Current(u)' \in tried'[u]
  BY DEF TurnInv, EveryRepoTried, ListIsCovered
<1>1. CASE UNCHANGED vars
  BY <1>1, OthersKeepTurn DEF vars, podVars
<1>2. CASE Next
  <2>1. PICK t \in Pods :
          StartPod(t) \/ Work(t) \/ CommandFails(t) \/ StatusFails(t) \/ Kill(t)
    BY <1>2 DEF Next
  <2>2. CASE t # u
    <3>1. step'[u] = step[u] /\ todo'[u] = todo[u] /\ tried'[u] = tried[u]
      BY <2>1, <2>2 DEF TypeOK, StartPod, Work, ListRepos, Connect, SetOwner,
         Proceed, Run, CommandFails, Conclude, GetStatus, UpdateStatus,
         StatusFails, NextRepo, Kill, Goto
    <3> QED
      BY <3>1, OthersKeepTurn
  <2>3. CASE t = u
    <3> USE <2>3 DEF TypeOK, TurnInv, EveryRepoTried, ListIsCovered, Goto
    <3>1. ASSUME todo'[u] = todo[u] PROVE Current(u)' = Current(u)
      BY <3>1 DEF Current
    <3>2. CASE StartPod(u) \/ Kill(u)
      BY <3>2 DEF StartPod, Kill
    <3>3. CASE ListRepos(u)
      BY <3>3 DEF ListRepos
    <3>4. CASE Connect(u) \/ SetOwner(u)
      BY <3>4 DEF Connect, SetOwner, Proceed
    <3>5. CASE Run(u) \/ CommandFails(u)
      <4>1. /\ step[u] \in {"connect", "set", "run"} /\ step'[u] = "get"
            /\ todo'[u] = todo[u] /\ tried'[u] = tried[u] \cup {Current(u)}
        BY <3>5 DEF Run, CommandFails, Conclude
      <4> QED
        BY <3>1, <4>1
    <3>6. CASE GetStatus(u)
      BY <3>1, <3>6 DEF GetStatus
    <3>7. CASE UpdateStatus(u) \/ StatusFails(u)
      <4>1. /\ step[u] \in {"get", "update"}
            /\ todo'[u] = todo[u] \ {Current(u)} /\ tried'[u] = tried[u]
            /\ step'[u] = IF todo[u] = {Current(u)} THEN "idle" ELSE "connect"
        BY <3>7 DEF UpdateStatus, StatusFails, NextRepo
      <4>2. Repos \subseteq tried[u] \cup (todo[u] \ {Current(u)})
        BY <4>1
      <4>3. tried[u] \subseteq Repos
        OBVIOUS
      <4> QED
        BY <4>1, <4>2, <4>3
    <3> QED
      BY <2>1, <3>2, <3>3, <3>4, <3>5, <3>6, <3>7 DEF Work
  <2> QED
    BY <2>2, <2>3
<1> QED
  BY <1>1, <1>2

\* A pod that has finished has tried every repository of its list, whatever
\* failed at the others or at the object.
THEOREM EveryRepoHasItsTurn == Spec => []EveryRepoTried
<1>1. Init => TurnInv
  BY DEF Init, TurnInv, EveryRepoTried, ListIsCovered
<1>2. TurnInv => EveryRepoTried
  BY DEF TurnInv
<1> QED
  BY <1>1, <1>2, NextTurnInv, PodsTypeCorrect, PTL DEF Spec

=============================================================================
