--------------------------- MODULE KopiaDeleteProofs ---------------------------
(***************************************************************************)
(* Proofs about KopiaDelete for any number of requests and snapshots, any  *)
(* limit and any number of faults: the mutex makes the check of the limit  *)
(* and the creation of the job one, and who leaves last leaves nothing.    *)
(***************************************************************************)
EXTENDS KopiaDelete, TLAPS, FiniteSetTheorems

Counted == {s \in Snapshots : job[s] \in {"running", "failed"}}

\* Who is in StartJob holds the mutex.
LockInv == \A r \in Requests : pc[r] \in Starting <=> lock = r

\* Past the check there is room for the job.
RoomInv ==
  \A r \in Requests :
    pc[r] \in {"create", "job"} => Cardinality(Counted) < JobLimit

\* Some request for it has yet to delete a job or an object that is there.
DutyInv ==
  \A s \in Snapshots :
    /\ job[s] # "none" =>
         \E r \in Requests : SnapshotOf[r] = s /\ pc[r] # "done"
    /\ vbd[s] # "none" =>
         \E r \in Requests : SnapshotOf[r] = s /\ pc[r] \notin {"delete", "done"}

-----------------------------------------------------------------------------
(* Types                                                                   *)

\* Type correctness: in particular a pod is not started again beyond the limit.
THEOREM DeleteTypeOK == Spec => []TypeOK
<1>1. Init => TypeOK
  BY LimitAssumption DEF Init, TypeOK, Labels
<1>2. TypeOK /\ [Next]_vars => TypeOK'
  <2> SUFFICES ASSUME TypeOK, [Next]_vars PROVE TypeOK'
    OBVIOUS
  <2> USE SnapshotAssumption, LimitAssumption
      DEF TypeOK, Labels, Starting, Goto, Fault, NewJob
  <2>1. CASE Crash
    BY <2>1 DEF Crash
  <2>2. ASSUME NEW r \in Requests,
               \/ AcquireLock(r) \/ CheckLimit(r) \/ CreateJob(r) \/ Refuse(r)
               \/ CreateVolumeBackupDelete(r) \/ StartFails(r)
        PROVE  TypeOK'
    BY <2>2 DEF AcquireLock, CheckLimit, CreateJob, Refuse,
       CreateVolumeBackupDelete, StartFails
  <2>3. ASSUME NEW r \in Requests,
               \/ SeeEnd(r) \/ GiveUp(r) \/ DeleteVolumeBackupDelete(r)
               \/ DeleteJob(r) \/ DeleteFails(r)
        PROVE  TypeOK'
    BY <2>3 DEF SeeEnd, GiveUp, DeleteVolumeBackupDelete, DeleteJob,
       DeleteFails
  <2>4. ASSUME NEW s \in Snapshots, Pod(s) PROVE TypeOK'
    BY <2>4 DEF Pod, CompleteJob, SetJob, PodFails, WriteStatus
  <2>5. CASE UNCHANGED vars
    BY <2>5 DEF vars
  <2> QED
    BY <2>1, <2>2, <2>3, <2>4, <2>5 DEF Next, StartJob, FollowJob
<1> QED
  BY <1>1, <1>2, PTL DEF Spec

-----------------------------------------------------------------------------
(* The limit                                                               *)

LEMMA LockHolds ==
  ASSUME TypeOK, LockInv, [Next]_vars PROVE LockInv'
<1> USE NobodyAssumption DEF TypeOK, LockInv, Labels, Starting, Goto
<1>1. CASE Crash
  BY <1>1 DEF Crash
<1>2. ASSUME NEW r \in Requests,
             \/ AcquireLock(r) \/ CheckLimit(r) \/ CreateJob(r) \/ Refuse(r)
             \/ CreateVolumeBackupDelete(r) \/ StartFails(r)
      PROVE  LockInv'
  BY <1>2 DEF AcquireLock, CheckLimit, CreateJob, Refuse,
     CreateVolumeBackupDelete, StartFails
<1>3. ASSUME NEW r \in Requests,
             \/ SeeEnd(r) \/ GiveUp(r) \/ DeleteVolumeBackupDelete(r)
             \/ DeleteJob(r) \/ DeleteFails(r)
      PROVE  LockInv'
  BY <1>3 DEF SeeEnd, GiveUp, DeleteVolumeBackupDelete, DeleteJob, DeleteFails
<1>4. ASSUME NEW s \in Snapshots, Pod(s) PROVE LockInv'
  BY <1>4 DEF Pod, CompleteJob, SetJob, PodFails
<1>5. CASE UNCHANGED vars
  BY <1>5 DEF vars
<1> QED
  BY <1>1, <1>2, <1>3, <1>4, <1>5 DEF Next, StartJob, FollowJob

\* All but the creation of a job leave the count as it is, or lower it.
LEMMA CountFalls ==
  ASSUME IsFiniteSet(Snapshots), Counted' \subseteq Counted
  PROVE  /\ Cardinality(Counted) \in Nat /\ Cardinality(Counted') \in Nat
         /\ Cardinality(Counted') <= Cardinality(Counted)
<1>1. IsFiniteSet(Counted)
  BY FS_Subset DEF Counted
<1> QED
  BY <1>1, FS_Subset, FS_CardinalityType

LEMMA CountGrowsByOne ==
  ASSUME IsFiniteSet(Snapshots), NEW s, Counted' \subseteq Counted \cup {s}
  PROVE  /\ Cardinality(Counted) \in Nat /\ Cardinality(Counted') \in Nat
         /\ Cardinality(Counted') <= Cardinality(Counted) + 1
<1>1. IsFiniteSet(Counted)
  BY FS_Subset DEF Counted
<1>2. /\ IsFiniteSet(Counted \cup {s})
      /\ Cardinality(Counted \cup {s}) \in
           {Cardinality(Counted), Cardinality(Counted) + 1}
  BY <1>1, FS_AddElement, FS_CardinalityType
<1>3. /\ Cardinality(Counted') \in Nat
      /\ Cardinality(Counted') <= Cardinality(Counted \cup {s})
  BY <1>2, FS_Subset, FS_CardinalityType
<1> QED
  BY <1>1, <1>2, <1>3, FS_CardinalityType

LimitInv == LockInv /\ RoomInv /\ JobLimitRespected

LEMMA LimitInvHolds ==
  ASSUME IsFiniteSet(Snapshots), TypeOK, LimitInv, [Next]_vars PROVE LimitInv'
<1>1. LockInv'
  BY LockHolds DEF LimitInv
<1>2. /\ Cardinality(Counted) <= JobLimit
      /\ \A r \in Requests :
           pc[r] \in {"create", "job"} => Cardinality(Counted) < JobLimit
  BY DEF LimitInv, RoomInv, JobLimitRespected, Counted
<1>3. Cardinality(Counted) \in Nat
  BY FS_Subset, FS_CardinalityType DEF Counted
<1>4. ASSUME NEW r \in Requests, CreateJob(r) \/ StartFails(r), pc[r] = "job",
             Counted' \subseteq Counted \cup {SnapshotOf[r]},
             \A q \in Requests : pc'[q] \notin {"create", "job"}
      PROVE  LimitInv'
  <2>1. /\ Cardinality(Counted') \in Nat
        /\ Cardinality(Counted') <= Cardinality(Counted) + 1
    BY <1>4, CountGrowsByOne
  <2>2. Cardinality(Counted') <= JobLimit
    BY <1>2, <1>3, <1>4, <2>1, LimitAssumption
  <2> QED
    BY <1>1, <1>4, <2>2 DEF LimitInv, RoomInv, JobLimitRespected, Counted
<1>5. ASSUME Counted' \subseteq Counted,
             \A r \in Requests : pc'[r] \in {"create", "job"} =>
               pc[r] \in {"create", "job"} \/ Cardinality(Counted) < JobLimit
      PROVE  LimitInv'
  <2>1. /\ Cardinality(Counted') \in Nat
        /\ Cardinality(Counted') <= Cardinality(Counted)
    BY <1>5, CountFalls
  <2>2. Cardinality(Counted') <= JobLimit
    BY <1>2, <1>3, <2>1, LimitAssumption
  <2>3. \A r \in Requests :
          pc'[r] \in {"create", "job"} => Cardinality(Counted') < JobLimit
    BY <1>2, <1>3, <1>5, <2>1, LimitAssumption
  <2> QED
    BY <1>1, <2>2, <2>3 DEF LimitInv, RoomInv, JobLimitRespected, Counted
<1>6. ASSUME NEW r \in Requests, CreateJob(r) \/ StartFails(r), pc[r] = "job"
      PROVE  LimitInv'
  <2>1. Counted' \subseteq Counted \cup {SnapshotOf[r]}
    BY <1>6, SnapshotAssumption
       DEF CreateJob, StartFails, NewJob, Counted, TypeOK
  <2>2. \A q \in Requests : pc'[q] \notin {"create", "job"}
    BY <1>6 DEF CreateJob, StartFails, Goto, TypeOK, LimitInv, LockInv,
       Starting
  <2> QED
    BY <1>4, <1>6, <2>1, <2>2
<1>7. CASE Crash
  BY <1>5, <1>7 DEF Crash, Counted, Starting, TypeOK
<1>8. ASSUME NEW r \in Requests,
             \/ AcquireLock(r) \/ CheckLimit(r) \/ Refuse(r)
             \/ CreateVolumeBackupDelete(r)
             \/ StartFails(r) /\ pc[r] # "job"
      PROVE  LimitInv'
  BY <1>5, <1>8 DEF AcquireLock, CheckLimit, Refuse, CreateVolumeBackupDelete,
     StartFails, Goto, Counted, CanJobBeScheduled, TypeOK
<1>9. ASSUME NEW r \in Requests,
             \/ SeeEnd(r) \/ GiveUp(r) \/ DeleteVolumeBackupDelete(r)
             \/ DeleteJob(r) \/ DeleteFails(r)
      PROVE  LimitInv'
  BY <1>5, <1>9, SnapshotAssumption DEF SeeEnd, GiveUp,
     DeleteVolumeBackupDelete, DeleteJob, DeleteFails, Goto, Counted, TypeOK
<1>10. ASSUME NEW s \in Snapshots, Pod(s) PROVE LimitInv'
  BY <1>5, <1>10 DEF Pod, CompleteJob, SetJob, PodFails, Counted, TypeOK
<1>11. CASE UNCHANGED vars
  BY <1>5, <1>11 DEF vars, Counted
<1> QED
  BY <1>6, <1>7, <1>8, <1>9, <1>10, <1>11
     DEF Next, StartJob, FollowJob, CreateJob

\* There are never more delete jobs than the limit says, failed ones included,
\* although the check and the creation are calls apart and others end or are
\* deleted in between: StartJob holds the mutex over both.
THEOREM DeleteLimitIsRespected ==
  ASSUME IsFiniteSet(Snapshots) PROVE Spec => []JobLimitRespected
<1>1. Init => LimitInv
  <2> SUFFICES ASSUME Init PROVE LimitInv
    OBVIOUS
  <2>1. Counted = {}
    BY DEF Init, Counted
  <2>2. Cardinality(Counted) = 0
    BY <2>1, FS_EmptySet
  <2> QED
    BY <2>2, LimitAssumption, NobodyAssumption DEF Init, LimitInv, LockInv,
       RoomInv, JobLimitRespected, Counted, Starting
<1>2. TypeOK /\ LimitInv /\ [Next]_vars => LimitInv'
  BY LimitInvHolds
<1> QED
  BY <1>1, <1>2, DeleteTypeOK, PTL DEF Spec, LimitInv

-----------------------------------------------------------------------------
(* What is left                                                            *)

LEMMA DutyInvHolds ==
  ASSUME TypeOK, DutyInv, [Next]_vars PROVE DutyInv'
<1> USE SnapshotAssumption DEF TypeOK, DutyInv, Labels, Starting, Goto, NewJob
<1>1. CASE Crash
  BY <1>1 DEF Crash
<1>2. ASSUME NEW r \in Requests,
             \/ AcquireLock(r) \/ CheckLimit(r) \/ Refuse(r)
             \/ CreateVolumeBackupDelete(r)
      PROVE  DutyInv'
  BY <1>2 DEF AcquireLock, CheckLimit, Refuse, CreateVolumeBackupDelete
<1>3. ASSUME NEW r \in Requests, CreateJob(r) \/ StartFails(r) PROVE DutyInv'
  BY <1>3 DEF CreateJob, StartFails
<1>4. ASSUME NEW r \in Requests,
             \/ SeeEnd(r) \/ GiveUp(r) \/ DeleteVolumeBackupDelete(r)
             \/ DeleteJob(r)
      PROVE  DutyInv'
  BY <1>4 DEF SeeEnd, GiveUp, DeleteVolumeBackupDelete, DeleteJob
<1>5. ASSUME NEW r \in Requests, DeleteFails(r) PROVE DutyInv'
  BY <1>5 DEF DeleteFails
<1>6. ASSUME NEW s \in Snapshots, Pod(s) PROVE DutyInv'
  BY <1>6 DEF Pod, CompleteJob, SetJob, PodFails, WriteStatus
<1>7. CASE UNCHANGED vars
  BY <1>7 DEF vars
<1> QED
  BY <1>1, <1>2, <1>3, <1>4, <1>5, <1>6, <1>7 DEF Next, StartJob, FollowJob

\* When the requests for a snapshot are done, neither the job nor its object is
\* left: whoever brings one back has yet to delete it.
THEOREM NothingIsLeft == Spec => []NothingLeft
<1>1. Init => DutyInv
  BY DEF Init, DutyInv
<1>2. TypeOK /\ DutyInv /\ [Next]_vars => DutyInv'
  BY DutyInvHolds
<1>3. DutyInv => NothingLeft
  BY DEF DutyInv, NothingLeft
<1> QED
  BY <1>1, <1>2, <1>3, DeleteTypeOK, PTL DEF Spec

=============================================================================
