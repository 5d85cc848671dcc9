----------------------------- MODULE DataProofs -----------------------------
(***************************************************************************)
(* What becomes of the data of the members: that a new pod can start, that *)
(* a running cluster implements SingleRepair, and that its data is kept.   *)
(* The cache of the members may lag and API calls may fail, except where a *)
(* theorem says otherwise; the cache of the pods may not: with an old pod  *)
(* in the cache the operator takes a member that has no data for running.  *)
(***************************************************************************)
EXTENDS MarkProofs

NoData(k) == pvcs[k] # "data"

\* A member without data is as obj says: it bootstraps the cluster, or it has
\* been added to it again, and a pod it has was made for that.
Fits(k, obj) ==
    \/ /\ etcd[k] = "none" /\ obj.status.phase \in {"Absent", "None"}
       /\ pods[k].state = "starting" => pods[k].mode = "new"
    \/ /\ etcd[k] = "added"
       /\ \/ /\ obj.status.phase = "Recreating"
             /\ pods[k].state = "starting" => pods[k].mode = "existing"
          \/ obj.status.phase = "Failed" /\ pvcs[k] = "none"

StoredFits(k) == NoData(k) /\ ~members[k].spec.broken => Fits(k, members[k])

\* The cache may show an old spec, but not an old phase.
CachedFits(k) ==
    NoData(k) /\ ~mcache[k].spec.broken =>
        /\ Fits(k, mcache[k])
        /\ etcd[k] # "none" =>
              /\ mcache[k].status.phase = members[k].status.phase
              /\ members[k].spec.broken => members[k].status.phase = "Failed"

InRepair(k) ==
    members[k].spec.broken \/ mcache[k].spec.broken \/ (mc.pc \in RepairSteps /\ mc.m = k)

\* Until every trace of the repair is gone, no pod has a claim to start with.
RepairHolds(k) ==
    NoData(k) /\ InRepair(k) =>
        etcd[k] # "none" /\ (pods[k].state # "none" => pvcs[k] = "none")

ServedData(k) ==
    /\ pods[k].state \in {"ready", "unready"} => pvcs[k] = "data"
    /\ pvcs[k] = "data" => etcd[k] = "started"

MemberFits(k) == StoredFits(k) /\ CachedFits(k) /\ RepairHolds(k) /\ ServedData(k)

\* The member the worker builds fits, and is the one stored, or the one whose
\* repair was done and not recorded.
HeldFits ==
    mc.pc \in BuildSteps /\ NoData(mc.m) =>
        /\ Fits(mc.m, mc.obj)
        /\ etcd[mc.m] = "added" =>
              \/ /\ mc.obj.status.phase = members[mc.m].status.phase
                 /\ mc.obj.status.phase = "Recreating" => ~members[mc.m].spec.broken
              \/ /\ members[mc.m].spec.broken /\ mcache[mc.m].spec.broken
                 /\ mc.obj.status.phase = "Recreating"
                 /\ pods[mc.m].state = "none" /\ pvcs[mc.m] = "none"
                 /\ mc.pc \in {"certificates", "pvc"}

StatusFits ==
    mc.pc = "status" /\ mc.fresh /\ NoData(mc.m) /\ ~members[mc.m].spec.broken =>
        /\ Fits(mc.m, mc.obj)
        /\ etcd[mc.m] = "added" => mc.obj.status.phase = members[mc.m].status.phase

\* A repair that still does anything is one that is stored and shown as well.
RepairKnown ==
    /\ mc.pc \in RepairSteps
    /\ pvcs[mc.m] = "data" \/ etcd[mc.m] # "added" \/ mc.pc \in {"repairStatus", "repairSpec"}
    => members[mc.m].spec.broken /\ mcache[mc.m].spec.broken

StepKnown ==
    /\ mc.pc = "pvc" => IsCreating(mc.obj)
    /\ mc.pc = "updatePod" => mc.obj.status.phase = "Running"

WorkerFits == HeldFits /\ StatusFits /\ RepairKnown /\ StepKnown

DataFits == (\A k \in Members : MemberFits(k)) /\ WorkerFits

-----------------------------------------------------------------------------

LEMMA InitDataFits == Init => DataFits
<1> SUFFICES ASSUME Init PROVE DataFits
    OBVIOUS
<1>1. PICK v, backup : InitRunning(v, backup) \/ InitCreated(v, backup)
    BY DEF Init
<1>2. \A k \in Members :
        /\ members[k].spec.broken = FALSE
        /\ \/ pvcs[k] = "data" /\ etcd[k] = "started"
           \/ /\ etcd[k] = "none" /\ pods[k].state = "none" /\ pvcs[k] = "none"
              /\ members[k].status.phase = "Absent"
    BY <1>1 DEF InitRunning, InitCreated, RunningMember, AbsentMember, NoPod
<1>3. mcache = members /\ mc.pc = "idle"
    BY DEF Init, IdleMemberWorker
<1>4. \A k \in Members : MemberFits(k)
    BY <1>2, <1>3 DEF MemberFits, StoredFits, CachedFits, RepairHolds, InRepair, ServedData,
        NoData, Fits, RepairSteps
<1>5. WorkerFits
    BY <1>3 DEF WorkerFits, HeldFits, StatusFits, RepairKnown, StepKnown, RepairSteps, BuildSteps
<1> QED
    BY <1>4, <1>5 DEF DataFits

\* A member that is not the worker's keeps what is said of it.
LEMMA MemberFitsFrame ==
    ASSUME NEW k, MemberFits(k), InRepair(k)' => InRepair(k),
           members'[k] = members[k], mcache'[k] = mcache[k], pods'[k] = pods[k],
           pvcs'[k] = pvcs[k], etcd'[k] = etcd[k]
    PROVE  MemberFits(k)'
BY DEF MemberFits, StoredFits, CachedFits, RepairHolds, ServedData, NoData, Fits

LEMMA OutsideMemberFits ==
    ASSUME TypeOK, MarkMeans, DataFits, OutsideChanges, NEW k \in Members PROVE MemberFits(k)'
<1>1. /\ UNCHANGED members
      /\ mcache'[k] = mcache[k] \/ mcache'[k] = members[k]
      /\ PodServes(k) \/ PodLives(k)
    BY DEF OutsideChanges
<1>2. InRepair(k)' => InRepair(k)
    BY <1>1 DEF OutsideChanges, InRepair, IdleMemberWorker, RepairSteps
<1>3. MemberFits(k)
    BY DEF DataFits
<1>4. CASE PodServes(k)
    BY <1>4 DEF PodServes, MemberFits, StoredFits, CachedFits, RepairHolds, ServedData, NoData
<1>5. CASE PodLives(k)
  <2>1. /\ etcd'[k] = etcd[k] /\ (NoData(k)' <=> NoData(k))
        /\ pvcs[k] = "none" => pvcs'[k] = "none"
        /\ pods'[k].state = "starting" =>
              pods[k].state = "starting" /\ pods'[k].mode = pods[k].mode
        /\ pods'[k].state # "none" => pods[k].state # "none"
        /\ pods'[k].state \in {"ready", "unready"} => pods[k].state \in {"ready", "unready"}
      BY <1>5 DEF PodLives, NoData, NoPod
  <2>2. /\ Fits(k, members[k]) => Fits(k, members[k])'
        /\ Fits(k, mcache[k]) /\ mcache'[k] = mcache[k] => Fits(k, mcache[k])'
        /\ mcache'[k] = members[k] /\ Fits(k, members[k]) => Fits(k, mcache[k])'
      BY <1>1, <2>1 DEF Fits
  <2>3. StoredFits(k)' /\ CachedFits(k)'
      BY <1>1, <1>3, <2>1, <2>2 DEF MemberFits, StoredFits, CachedFits
  <2>4. RepairHolds(k)' /\ ServedData(k)'
      BY <1>1, <1>2, <1>3, <2>1 DEF MemberFits, RepairHolds, ServedData, NoData
  <2> QED
      BY <2>3, <2>4 DEF MemberFits
<1> QED
    BY <1>1, <1>4, <1>5

LEMMA OutsideDataFits ==
    ASSUME TypeOK, MarkMeans, DataFits, OutsideChanges PROVE DataFits'
<1>1. \A k \in Members : MemberFits(k)'
    BY OutsideMemberFits
<1>2. UNCHANGED members /\ (mc' = mc \/ mc'.pc = "idle")
    BY DEF OutsideChanges, IdleMemberWorker
<1>3. CASE mc'.pc = "idle"
    BY <1>1, <1>3 DEF DataFits, WorkerFits, HeldFits, StatusFits, RepairKnown, StepKnown,
        RepairSteps, BuildSteps
<1>4. CASE mc' = mc /\ mc.pc # "idle"
  <2>1. mc.m \in Members /\ (mcache'[mc.m] = mcache[mc.m] \/ mcache'[mc.m] = members[mc.m])
      BY <1>4, Held DEF TypeOK, OutsideChanges
  <2>2. MemberFits(mc.m) /\ (PodServes(mc.m) \/ PodLives(mc.m)) /\ WorkerFits
      BY <2>1 DEF DataFits, OutsideChanges
  <2>3. CASE PodServes(mc.m)
    <3>1. pvcs'[mc.m] = "data" /\ etcd'[mc.m] = "started"
          /\ pods[mc.m].state # "none" /\ pvcs[mc.m] # "none"
        BY <2>3 DEF PodServes, CanServe
    <3>2. mc.pc \in RepairSteps => pvcs[mc.m] = "data"
        BY <2>1, <2>2, <3>1 DEF MemberFits, RepairHolds, InRepair, NoData
    <3>3. RepairKnown'
        BY <1>2, <1>4, <2>1, <2>2, <3>1, <3>2 DEF WorkerFits, RepairKnown
    <3> QED
        BY <1>1, <1>2, <1>4, <2>2, <3>1, <3>3
           DEF DataFits, WorkerFits, HeldFits, StatusFits, StepKnown, NoData
  <2>4. CASE PodLives(mc.m)
    <3>1. /\ etcd'[mc.m] = etcd[mc.m] /\ (NoData(mc.m)' <=> NoData(mc.m))
          /\ pvcs[mc.m] = "none" => pvcs'[mc.m] = "none"
          /\ pods[mc.m].state = "none" => pods'[mc.m].state = "none"
          /\ pods'[mc.m].state = "starting" =>
                pods[mc.m].state = "starting" /\ pods'[mc.m].mode = pods[mc.m].mode
        BY <1>4, <2>4 DEF PodLives, NoData, NoPod
    <3>2. Fits(mc.m, mc.obj) => Fits(mc.m, mc.obj)'
        BY <1>4, <3>1 DEF Fits
    <3>3. HeldFits' /\ StatusFits'
        BY <1>2, <1>4, <2>1, <2>2, <3>1, <3>2 DEF WorkerFits, HeldFits, StatusFits
    <3>4. RepairKnown'
        BY <1>2, <1>4, <2>1, <2>2, <3>1 DEF WorkerFits, RepairKnown, NoData
    <3> QED
        BY <1>1, <1>2, <1>4, <2>2, <3>3, <3>4 DEF DataFits, WorkerFits, StepKnown
  <2> QED
      BY <2>2, <2>3, <2>4
<1> QED
    BY <1>2, <1>3, <1>4

LEMMA ClusterDataFits ==
    ASSUME TypeOK, MarkMeans, DataFits, ClusterChanges PROVE DataFits'
<1>1. UNCHANGED <<mcache, pods, pvcs, etcd>> /\ mc'.pc = mc.pc /\ mc'.m = mc.m
      /\ mc'.obj = mc.obj /\ (mc'.fresh => mc.fresh)
    BY DEF ClusterChanges, WorkerKept
<1>2. \A k \in Members : MemberFits(k) /\ (Keeps(k) \/ Creates(k) \/ Marks(k))
    BY DEF DataFits, ClusterChanges
<1>3. ASSUME NEW k \in Members, Keeps(k) PROVE MemberFits(k)'
    BY <1>1, <1>2, <1>3 DEF Keeps, MemberFits, StoredFits, CachedFits, RepairHolds, InRepair,
        ServedData, NoData, Fits
<1>4. ASSUME NEW k \in Members, Creates(k)
      PROVE  /\ members[k].status.phase = "Absent" /\ mcache[k].status.phase = "Absent"
             /\ members'[k].status.phase = "None"
             /\ ~members[k].spec.broken /\ ~members'[k].spec.broken /\ ~mcache[k].spec.broken
             /\ NoData(k) => etcd[k] = "none"
  <2>1. /\ members[k].status.phase = "Absent" /\ mcache[k].status.phase = "Absent"
        /\ members'[k].status.phase = "None" /\ ~members'[k].spec.broken
      BY <1>4 DEF Creates, AbsentMember
  <2>2. ~members[k].spec.broken /\ ~mcache[k].spec.broken
      BY <2>1 DEF MarkMeans, MarkStands, MayBeBroken
  <2>3. NoData(k) => etcd[k] = "none"
      BY <1>2, <2>1, <2>2 DEF MemberFits, StoredFits, Fits
  <2> QED
      BY <2>1, <2>2, <2>3
<1>5. ASSUME NEW k \in Members, Creates(k) PROVE MemberFits(k)'
    BY <1>1, <1>2, <1>4, <1>5 DEF MemberFits, StoredFits, CachedFits, RepairHolds, InRepair,
        ServedData, NoData, Fits
<1>6. ASSUME NEW k \in Members, Marks(k)
      PROVE  /\ mcache[k] = members[k] /\ ~members[k].spec.broken /\ members'[k].spec.broken
             /\ members'[k].status = members[k].status /\ members[k].status.phase = "Failed"
             /\ NoData(k) => etcd[k] = "added" /\ pvcs[k] = "none"
             /\ mc.pc # "idle" /\ mc.m = k => ~mc'.fresh
    BY <1>2, <1>6 DEF Marks, Oldest, Overdue, MemberFits, StoredFits, Fits
<1>7. ASSUME NEW k \in Members, Marks(k) PROVE MemberFits(k)'
    BY <1>1, <1>2, <1>6, <1>7 DEF MemberFits, StoredFits, CachedFits, RepairHolds, InRepair,
        ServedData, NoData, Fits
<1>8. WorkerFits'
  <2>1. CASE mc.pc = "idle"
      BY <1>1, <2>1 DEF WorkerFits, HeldFits, StatusFits, RepairKnown, StepKnown,
        RepairSteps, BuildSteps
  <2>2. CASE mc.pc # "idle"
    <3>1. mc.m \in Members /\ (Keeps(mc.m) \/ Creates(mc.m) \/ Marks(mc.m)) /\ WorkerFits
        BY <1>2, <2>2, Held DEF TypeOK, DataFits
    <3>2. CASE Keeps(mc.m)
        BY <1>1, <3>1, <3>2 DEF Keeps, WorkerFits, HeldFits, StatusFits, RepairKnown, StepKnown,
          NoData, Fits
    <3>3. CASE Creates(mc.m)
        BY <1>1, <1>4, <3>1, <3>3 DEF WorkerFits, HeldFits, StatusFits, RepairKnown, StepKnown,
          NoData, Fits
    <3>4. CASE Marks(mc.m)
        BY <1>1, <1>6, <2>2, <3>1, <3>4 DEF WorkerFits, HeldFits, StatusFits, RepairKnown,
          StepKnown, NoData, Fits
    <3> QED
        BY <3>1, <3>2, <3>3, <3>4
  <2> QED
      BY <2>1, <2>2
<1> QED
    BY <1>2, <1>3, <1>5, <1>7, <1>8 DEF DataFits

-----------------------------------------------------------------------------
(* The steps of the member controller *)

\* They concern the member the worker holds.
LEMMA OthersKept ==
    ASSUME TypeOK, MemberReconcile, mc.pc # "idle", NEW k \in Members, k # mc.m
    PROVE  /\ members'[k] = members[k] /\ mcache'[k] = mcache[k] /\ pods'[k] = pods[k]
           /\ pvcs'[k] = pvcs[k] /\ etcd'[k] = etcd[k]
<1>1. UNCHANGED mcache
    BY WorkerEffect
<1>2. /\ members \in [Members -> Member] /\ pods \in [Members -> Pod]
      /\ pvcs = [i \in Members |-> pvcs[i]] /\ etcd = [i \in Members |-> etcd[i]]
    BY DEF TypeOK, StoreTypeOK, OwnedTypeOK
<1>3. members'[k] = members[k]
    BY <1>2, WorkerEffect DEF Reads, Works, Stores, Ends
<1>4. UNCHANGED pods \/ RepairDeletePod \/ UpdatePod \/ EnsurePod
    BY DEF MemberReconcile, MemberWorkerStep, MemberWorkerFault, GetMember, RepairDeletePVC,
        ReaddRemove, ReaddAdd, ReaddAddReplyLost, RepairStatus, RepairStatusFails, RepairSpec,
        RepairSpecFails, Certificates, EnsurePVC, MemberCallFails, MemberStatusUpdate,
        MemberStatusUpdateFails
<1>5. pods'[k] = pods[k]
    BY <1>2, <1>4 DEF RepairDeletePod, UpdatePod, EnsurePod, DeletePod
<1>6. UNCHANGED pvcs \/ RepairDeletePVC \/ EnsurePVC
    BY DEF MemberReconcile, MemberWorkerStep, MemberWorkerFault, GetMember, RepairDeletePod,
        ReaddRemove, ReaddAdd, ReaddAddReplyLost, RepairStatus, RepairStatusFails, RepairSpec,
        RepairSpecFails, Certificates, UpdatePod, EnsurePod, MemberCallFails,
        MemberStatusUpdate, MemberStatusUpdateFails
<1>7. pvcs'[k] = pvcs[k]
    BY <1>2, <1>6 DEF RepairDeletePVC, EnsurePVC
<1>8. UNCHANGED etcd \/ ReaddRemove \/ ReaddAdd \/ ReaddAddReplyLost
    BY DEF MemberReconcile, MemberWorkerStep, MemberWorkerFault, GetMember, RepairDeletePod,
        RepairDeletePVC, RepairStatus, RepairStatusFails, RepairSpec, RepairSpecFails,
        Certificates, EnsurePVC, UpdatePod, EnsurePod, MemberCallFails, MemberStatusUpdate,
        MemberStatusUpdateFails
<1>9. etcd'[k] = etcd[k]
    BY <1>2, <1>8 DEF ReaddRemove, ReaddAdd, ReaddAddReplyLost
<1> QED
    BY <1>1, <1>3, <1>5, <1>7, <1>9

LEMMA OthersFit ==
    ASSUME TypeOK, DataFits, MemberReconcile, mc.pc # "idle", NEW k \in Members, k # mc.m,
           mc'.m = mc.m \/ mc'.pc = "idle"
    PROVE  MemberFits(k)'
<1>1. InRepair(k)' => InRepair(k)
    BY OthersKept DEF InRepair, RepairSteps
<1> QED
    BY <1>1, OthersKept, MemberFitsFrame DEF DataFits

LEMMA GetMemberDataFits ==
    ASSUME TypeOK, Repairing, MarkMeans, DataFits, NEW m \in Members, GetMember(m)
    PROVE  DataFits'
<1>1. UNCHANGED <<members, mcache, pods, pvcs, etcd>>
    BY DEF GetMember, objectsUnchanged
<1>2. \/ mc' = mc /\ mc.pc = "idle"
      \/ /\ mc.pc = "idle" /\ mc'.m = m /\ mc'.obj = mcache[m]
         /\ mc'.pc = IF mcache[m].spec.broken THEN "deletePod" ELSE "certificates"
    BY DEF GetMember
<1>3. \A k \in Members : MemberFits(k) /\ (InRepair(k)' => InRepair(k))
    BY <1>1, <1>2 DEF DataFits, InRepair, RepairSteps
<1>4. \A k \in Members : MemberFits(k)'
    BY <1>1, <1>3, MemberFitsFrame
<1>5. CASE mc' = mc /\ mc.pc = "idle"
    BY <1>4, <1>5 DEF DataFits, WorkerFits, HeldFits, StatusFits, RepairKnown, StepKnown,
        RepairSteps, BuildSteps
<1>6. CASE mc'.m = m /\ mcache[m].spec.broken /\ mc'.pc = "deletePod"
  <2>1. ~members[m].spec.broken => pvcs[m] # "data" /\ etcd[m] = "added"
      BY <1>6 DEF MarkMeans, StaleMark, Wiped
  <2>2. RepairKnown'
      BY <1>1, <1>6, <2>1 DEF RepairKnown
  <2> QED
      BY <1>4, <1>6, <2>2 DEF DataFits, WorkerFits, HeldFits, StatusFits, StepKnown, BuildSteps
<1>7. CASE mc'.m = m /\ mc'.obj = mcache[m] /\ ~mcache[m].spec.broken /\ mc'.pc = "certificates"
  <2>1. CachedFits(m)
      BY <1>3 DEF MemberFits
  <2>2. NoData(m) => Fits(m, mcache[m])'
      BY <1>1, <1>7, <2>1 DEF CachedFits, Fits
  <2>3. HeldFits'
      BY <1>1, <1>7, <2>1, <2>2 DEF HeldFits, CachedFits, NoData
  <2> QED
      BY <1>4, <1>7, <2>3 DEF DataFits, WorkerFits, StatusFits, RepairKnown, StepKnown, RepairSteps
<1> QED
    BY <1>2, <1>5, <1>6, <1>7

\* Repair takes the pod, the claim and the entry of its member away: of a member
\* without a trace of the repair nothing is left to take.
LEMMA RepairStepDataFits ==
    ASSUME TypeOK, MarkMeans, DataFits,
           \/ RepairDeletePod \/ RepairDeletePVC \/ ReaddRemove \/ ReaddAdd \/ ReaddAddReplyLost
    PROVE  DataFits'
<1>0. MemberReconcile
    BY DEF MemberReconcile, MemberWorkerStep, MemberWorkerFault
<1>1. UNCHANGED <<members, mcache>>
    BY DEF RepairDeletePod, RepairDeletePVC, ReaddRemove, ReaddAdd, ReaddAddReplyLost,
        objectsUnchanged
<1>2. /\ mc.pc \in RepairSteps \ {"repairStatus", "repairSpec"} /\ mc.m \in Members
      /\ mc.pc # "idle" /\ MemberWorkerTypeOK
    BY Held DEF RepairDeletePod, RepairDeletePVC, ReaddRemove, ReaddAdd, ReaddAddReplyLost,
        RepairSteps, TypeOK
<1>3. /\ mc'.m = mc.m /\ mc'.fresh = mc.fresh
      /\ mc'.pc \in (RepairSteps \ {"repairSpec"}) \cup {"status"}
      /\ mc'.pc = "repairStatus" => MemberAddAccepted
    BY <1>2, ContinueFields, ReturnFields DEF RepairDeletePod, RepairDeletePVC, ReaddRemove,
        ReaddAdd, ReaddAddReplyLost, RepairSteps
<1>4. MemberFits(mc.m) /\ RepairKnown
    BY <1>2 DEF DataFits, WorkerFits
<1>5. InRepair(mc.m)
    BY <1>2 DEF InRepair
<1>6. /\ pods'[mc.m].state = pods[mc.m].state /\ pods'[mc.m].mode = pods[mc.m].mode
      /\ \/ UNCHANGED <<pvcs, etcd>>
         \/ /\ RepairDeletePVC /\ UNCHANGED etcd /\ pods[mc.m].state = "none"
            /\ pvcs[mc.m] # "none" /\ pvcs'[mc.m] = "terminating"
         \/ /\ UNCHANGED pvcs /\ pods[mc.m].state = "none" /\ pvcs[mc.m] = "none"
            /\ etcd[mc.m] \in {"started", "removed"} /\ etcd'[mc.m] \in {"removed", "added"}
  <2>1. CASE RepairDeletePod
    <3>1. [pods[mc.m] EXCEPT !.terminating = TRUE].state = pods[mc.m].state
          /\ [pods[mc.m] EXCEPT !.terminating = TRUE].mode = pods[mc.m].mode
        BY <1>2 DEF TypeOK, OwnedTypeOK, Pod
    <3> QED
        BY <1>2, <2>1, <3>1 DEF RepairDeletePod, DeletePod, TypeOK, OwnedTypeOK
  <2>2. CASE RepairDeletePVC
      BY <1>2, <2>2 DEF RepairDeletePVC, MarkMeans, TakenApart, RepairSteps, TypeOK, OwnedTypeOK
  <2>3. CASE ReaddRemove \/ ReaddAdd \/ ReaddAddReplyLost
    <3>1. pods[mc.m].state = "none" /\ pvcs[mc.m] = "none" /\ UNCHANGED <<pods, pvcs>>
        BY <2>3 DEF ReaddRemove, ReaddAdd, ReaddAddReplyLost, MarkMeans, TakenApart, RepairSteps
    <3> QED
        BY <1>2, <2>3, <3>1 DEF ReaddRemove, ReaddAdd, ReaddAddReplyLost, MemberAddAccepted,
          TypeOK, OwnedTypeOK
  <2> QED
      BY <2>1, <2>2, <2>3
<1>7. RepairKnown'
  <2>1. pvcs'[mc.m] = "data" => pvcs[mc.m] = "data"
      BY <1>6
  <2>2. etcd'[mc.m] # "added" => etcd[mc.m] # "added"
      BY <1>6
  <2> QED
      BY <1>1, <1>2, <1>3, <1>4, <2>1, <2>2 DEF RepairKnown, MemberAddAccepted
<1>8. MemberFits(mc.m)'
  <2>1. CASE UNCHANGED <<pvcs, etcd>>
      BY <1>1, <1>3, <1>4, <1>5, <1>6, <2>1 DEF MemberFits, StoredFits, CachedFits, RepairHolds,
          ServedData, NoData, Fits
  <2>2. CASE /\ RepairDeletePVC /\ UNCHANGED etcd /\ pods[mc.m].state = "none"
             /\ pvcs[mc.m] # "none" /\ pvcs'[mc.m] = "terminating"
    <3>1. pods'[mc.m] = pods[mc.m] /\ mc.pc = "deletePVC"
        BY <2>2 DEF RepairDeletePVC
    <3>2. CASE NoData(mc.m)
        BY <1>1, <1>3, <1>4, <1>5, <2>2, <3>1, <3>2 DEF MemberFits, StoredFits, CachedFits,
          RepairHolds, ServedData, NoData, Fits
    <3>3. CASE ~NoData(mc.m)
      <4>1. members[mc.m].spec.broken /\ mcache[mc.m].spec.broken /\ etcd[mc.m] = "started"
          BY <1>2, <1>4, <3>3 DEF RepairKnown, MemberFits, ServedData, NoData
      <4> QED
          BY <1>1, <1>3, <2>2, <3>1, <4>1 DEF MemberFits, StoredFits, CachedFits, RepairHolds,
              ServedData, NoData
    <3> QED
        BY <3>2, <3>3
  <2>3. CASE /\ UNCHANGED pvcs /\ pods[mc.m].state = "none" /\ pvcs[mc.m] = "none"
             /\ etcd[mc.m] \in {"started", "removed"} /\ etcd'[mc.m] \in {"removed", "added"}
    <3>1. members[mc.m].spec.broken /\ mcache[mc.m].spec.broken
        BY <1>2, <1>4, <2>3 DEF RepairKnown
    <3> QED
        BY <1>1, <1>3, <1>6, <2>3, <3>1 DEF MemberFits, StoredFits, CachedFits, RepairHolds,
          ServedData, NoData
  <2> QED
      BY <1>6, <2>1, <2>2, <2>3
<1>9. \A k \in Members : MemberFits(k)'
    BY <1>0, <1>2, <1>3, <1>8, OthersFit
<1>10. HeldFits' /\ StepKnown'
    BY <1>3 DEF HeldFits, StepKnown, RepairSteps, BuildSteps
<1>11. StatusFits'
    BY <1>1, <1>2, <1>3 DEF StatusFits, MarkMeans, FreshRead
<1> QED
    BY <1>7, <1>9, <1>10, <1>11 DEF DataFits, WorkerFits

LEMMA RepairStatusDataFits ==
    ASSUME TypeOK, MarkMeans, DataFits, RepairStatus \/ RepairStatusFails PROVE DataFits'
<1>0. MemberReconcile
    BY DEF MemberReconcile, MemberWorkerStep, MemberWorkerFault
<1>1. UNCHANGED <<mcache, pods, pvcs, etcd>> /\ mc.pc = "repairStatus" /\ mc.pc # "idle"
    BY DEF RepairStatus, RepairStatusFails, objectsUnchanged
<1>2. mc.m \in Members /\ mc.obj \in Member /\ MemberWorkerTypeOK /\ members \in [Members -> Member]
    BY <1>1, Held DEF TypeOK, StoreTypeOK
<1>3. MemberFits(mc.m) /\ members[mc.m].spec.broken /\ mcache[mc.m].spec.broken
    BY <1>1, <1>2 DEF DataFits, WorkerFits, RepairKnown, RepairSteps
<1> DEFINE new == [members[mc.m] EXCEPT !.status = Recreated(mc.obj).status]
<1>4. new.spec = members[mc.m].spec /\ new.status.phase = "Recreating"
    BY <1>2, ObjectFields DEF Member
<1>5. \/ mc.fresh /\ StoreMember(mc.m, new) /\ Continue("repairSpec", new)
      \/ UNCHANGED members /\ Continue("repairSpec", Recreated(mc.obj)) /\ (mc.fresh => Fault)
    BY DEF RepairStatus, RepairStatusFails
<1> HIDE DEF new
<1>6. mc'.pc = "repairSpec" /\ mc'.m = mc.m /\ mc'.fresh = mc.fresh
    BY <1>2, <1>5, ContinueFields
<1>7. /\ members'[mc.m].spec = members[mc.m].spec
      /\ mc.fresh /\ ~Fault => members'[mc.m].status.phase = "Recreating"
    BY <1>2, <1>4, <1>5 DEF StoreMember
<1>8. MemberFits(mc.m)'
    BY <1>1, <1>3, <1>6, <1>7 DEF MemberFits, StoredFits, CachedFits, RepairHolds, InRepair,
        ServedData, NoData
<1>9. \A k \in Members : MemberFits(k)'
    BY <1>0, <1>1, <1>6, <1>8, OthersFit
<1>10. RepairKnown' /\ StepKnown'
    BY <1>1, <1>3, <1>6, <1>7 DEF RepairKnown, StepKnown
<1>11. HeldFits' /\ StatusFits'
    BY <1>6 DEF HeldFits, StatusFits, BuildSteps
<1> QED
    BY <1>9, <1>10, <1>11 DEF DataFits, WorkerFits

LEMMA RepairSpecDataFits ==
    ASSUME TypeOK, MarkMeans, DataFits, RepairSpec \/ RepairSpecFails PROVE DataFits'
<1>0. MemberReconcile
    BY DEF MemberReconcile, MemberWorkerStep, MemberWorkerFault
<1>1. UNCHANGED <<mcache, pods, pvcs, etcd>> /\ mc.pc = "repairSpec" /\ mc.pc # "idle"
    BY DEF RepairSpec, RepairSpecFails, objectsUnchanged
<1>2. mc.m \in Members /\ mc.obj \in Member /\ MemberWorkerTypeOK /\ members \in [Members -> Member]
    BY <1>1, Held DEF TypeOK, StoreTypeOK
<1>3. /\ MemberFits(mc.m) /\ StepKnown
      /\ members[mc.m].spec.broken /\ mcache[mc.m].spec.broken
    BY <1>1, <1>2 DEF DataFits, WorkerFits, RepairKnown, RepairSteps
<1>4. /\ pods[mc.m].state = "none" /\ pvcs[mc.m] = "none" /\ etcd[mc.m] = "added"
      /\ mc.obj.status.phase = "Recreating" /\ MayBeBroken(members[mc.m])
    BY <1>1, <1>2, <1>3 DEF MarkMeans, TakenApart, MarkStands, RepairSteps
<1> DEFINE new == [members[mc.m] EXCEPT !.spec = Mended(mc.obj).spec]
<1>5. new.status = members[mc.m].status /\ ~new.spec.broken
    BY <1>2, ObjectFields DEF Member
<1>6. \/ mc.fresh /\ StoreMember(mc.m, new) /\ Continue("certificates", new)
      \/ UNCHANGED members /\ Continue("certificates", Mended(mc.obj))
    BY DEF RepairSpec, RepairSpecFails
<1> HIDE DEF new
<1>7. mc'.pc = "certificates" /\ mc'.m = mc.m /\ mc'.fresh = mc.fresh
    BY <1>2, <1>6, ContinueFields
<1>8. /\ members'[mc.m].status = members[mc.m].status
      /\ \/ /\ mc.fresh /\ ~members'[mc.m].spec.broken
            /\ mc'.obj.status = members[mc.m].status
         \/ /\ UNCHANGED members /\ mc'.obj.status.phase = "Recreating"
    BY <1>2, <1>4, <1>5, <1>6, ContinueFields, ObjectFields DEF StoreMember
<1>9. Fits(mc.m, members[mc.m])' /\ Fits(mc.m, mc.obj)'
    BY <1>1, <1>4, <1>7, <1>8 DEF Fits, MayBeBroken
<1>11. MemberFits(mc.m)'
  <2>1. StoredFits(mc.m)'
      BY <1>9 DEF StoredFits
  <2>2. CachedFits(mc.m)'
      BY <1>1, <1>3, <1>7 DEF CachedFits
  <2>3. RepairHolds(mc.m)' /\ ServedData(mc.m)'
      BY <1>1, <1>4, <1>7 DEF RepairHolds, ServedData
  <2> QED
      BY <2>1, <2>2, <2>3 DEF MemberFits
<1>12. \A k \in Members : MemberFits(k)'
    BY <1>0, <1>1, <1>7, <1>11, OthersFit
<1>13. HeldFits'
    BY <1>1, <1>3, <1>4, <1>7, <1>8, <1>9 DEF HeldFits
<1>14. StatusFits' /\ RepairKnown' /\ StepKnown'
    BY <1>7 DEF StatusFits, RepairKnown, StepKnown, RepairSteps
<1> QED
    BY <1>12, <1>13, <1>14 DEF DataFits, WorkerFits

LEMMA LeaveDataFits ==
    ASSUME TypeOK, MarkMeans, DataFits,
           MemberCallFails \/ MemberStatusUpdate \/ MemberStatusUpdateFails
    PROVE  DataFits'
<1>0. MemberReconcile
    BY DEF MemberReconcile, MemberWorkerStep, MemberWorkerFault
<1>1. UNCHANGED <<mcache, pods, pvcs, etcd>> /\ mc.pc # "idle"
    BY DEF MemberCallFails, MemberStatusUpdate, MemberStatusUpdateFails, objectsUnchanged
<1>2. /\ mc.m \in Members /\ mc.obj \in Member /\ MemberWorkerTypeOK
      /\ members \in [Members -> Member]
    BY <1>1, Held DEF TypeOK, StoreTypeOK
<1>3. MemberFits(mc.m) /\ WorkerFits
    BY <1>2 DEF DataFits
<1>4. CASE MemberCallFails
  <2>1. /\ mc'.pc = "status" /\ mc'.m = mc.m /\ mc'.fresh = mc.fresh /\ mc'.obj = mc.obj
        /\ UNCHANGED members /\ mc.pc \in MemberSteps \ {"idle", "status"}
    <3>1. UNCHANGED members /\ Return("requeue", mc.obj) /\ mc.pc \notin {"idle", "status"}
        BY <1>4 DEF MemberCallFails
    <3>2. mc.pc \in MemberSteps
        BY <1>2 DEF MemberWorkerTypeOK, MemberWorker
    <3> QED
        BY <1>2, <3>1, <3>2, ReturnFields
  <2>2. \A k \in Members : MemberFits(k) /\ (InRepair(k)' => InRepair(k))
      BY <1>1, <2>1 DEF DataFits, InRepair, RepairSteps
  <2>3. ASSUME NEW k \in Members PROVE MemberFits(k)'
    <3>1. /\ MemberFits(k) /\ (InRepair(k)' => InRepair(k))
          /\ members'[k] = members[k] /\ mcache'[k] = mcache[k] /\ pods'[k] = pods[k]
          /\ pvcs'[k] = pvcs[k] /\ etcd'[k] = etcd[k]
        BY <1>1, <2>1, <2>2
    <3> QED
        BY <3>1, MemberFitsFrame
  <2>4. mc.pc \in RepairSteps \/ mc.pc \in BuildSteps
      BY <2>1 DEF MemberSteps, RepairSteps, BuildSteps
  <2>5. StatusFits'
    <3>1. CASE mc.pc \in RepairSteps
        BY <1>1, <2>1, <3>1 DEF StatusFits, MarkMeans, FreshRead
    <3>2. CASE mc.pc \in BuildSteps
      <4>1. Fits(mc.m, mc.obj) => Fits(mc.m, mc.obj)'
          BY <1>1, <2>1 DEF Fits
      <4> QED
          BY <1>1, <1>3, <2>1, <3>2, <4>1 DEF StatusFits, WorkerFits, HeldFits, NoData
    <3> QED
        BY <2>4, <3>1, <3>2
  <2> QED
      BY <2>1, <2>3, <2>5 DEF DataFits, WorkerFits, HeldFits, RepairKnown, StepKnown,
        RepairSteps, BuildSteps
<1>5. CASE MemberStatusUpdate \/ MemberStatusUpdateFails
  <2> DEFINE new == [members[mc.m] EXCEPT !.status = mc.obj.status]
  <2>1. new.spec = members[mc.m].spec /\ new.status = mc.obj.status
      BY <1>2 DEF Member
  <2>2. mc.pc = "status" /\ mc'.pc = "idle"
      BY <1>5 DEF MemberStatusUpdate, MemberStatusUpdateFails, FinishMember, IdleMemberWorker
  <2>3. UNCHANGED members \/ (mc.fresh /\ StoreMember(mc.m, new))
      BY <1>5 DEF MemberStatusUpdate, MemberStatusUpdateFails
  <2> HIDE DEF new
  <2>4. \/ members'[mc.m] = members[mc.m]
        \/ /\ mc.fresh /\ members'[mc.m].spec = members[mc.m].spec
           /\ members'[mc.m].status = mc.obj.status
      BY <1>2, <2>1, <2>3 DEF StoreMember
  <2>m. PICK m \in Members : /\ m = mc.m
                             /\ \/ members'[m] = members[m]
                                \/ /\ mc.fresh /\ members'[m].spec = members[m].spec
                                   /\ members'[m].status = mc.obj.status
      BY <1>2, <2>4
  <2>5. MemberFits(m) /\ (members'[m] = members[m] => MemberFits(m)')
    <3>1. members'[m] = members[m] => (InRepair(m)' => InRepair(m))
        BY <1>1, <2>2 DEF InRepair, RepairSteps
    <3> QED
        BY <1>1, <1>3, <2>m, <3>1, MemberFitsFrame
  <2>6. StatusFits /\ mc.fresh => 
           (NoData(m) /\ ~members[m].spec.broken =>
              /\ Fits(m, mc.obj)
              /\ etcd[m] = "added" => mc.obj.status.phase = members[m].status.phase)
      BY <2>2, <2>m DEF StatusFits
  <2>7. mc.fresh /\ members[m].spec.broken => mcache[m].spec.broken
      BY <1>1, <2>m DEF MarkMeans, FreshRead
  <2>8. ASSUME mc.fresh, members'[m].spec = members[m].spec, members'[m].status = mc.obj.status
        PROVE  MemberFits(m)'
    <3>1. StoredFits(m)'
        BY <1>1, <1>3, <2>6, <2>8 DEF WorkerFits, StoredFits, Fits, NoData
    <3>2. CachedFits(m)'
      <4>1. CASE members[m].spec.broken
          BY <1>1, <2>7, <2>8, <4>1 DEF CachedFits
      <4>2. CASE ~members[m].spec.broken
          BY <1>1, <1>3, <2>5, <2>6, <2>8, <4>2 DEF WorkerFits, MemberFits, CachedFits, Fits, NoData
      <4> QED
          BY <4>1, <4>2
    <3>3. RepairHolds(m)' /\ ServedData(m)'
        BY <1>1, <2>2, <2>5, <2>8 DEF MemberFits, RepairHolds, InRepair, ServedData, NoData, RepairSteps
    <3> QED
        BY <3>1, <3>2, <3>3 DEF MemberFits
  <2>9. MemberFits(m)'
      BY <2>5, <2>8, <2>m
  <2>10. ASSUME NEW k \in Members PROVE MemberFits(k)'
      BY <1>0, <1>1, <2>2, <2>9, <2>m, OthersFit
  <2> QED
      BY <2>2, <2>10 DEF DataFits, WorkerFits, HeldFits, StatusFits, RepairKnown, StepKnown,
        RepairSteps, BuildSteps
<1> QED
    BY <1>4, <1>5

\* The steps after Repair.  What is built for a member without data is what it was
\* added to the cluster for: nothing is made from a member read before its repair.
LEMMA BuildStepDataFits ==
    ASSUME TypeOK, MarkMeans, DataFits, pcache = pods,
           Certificates \/ EnsurePVC \/ UpdatePod \/ EnsurePod
    PROVE  DataFits'
<1>0. MemberReconcile
    BY DEF MemberReconcile, MemberWorkerStep
<1>1. UNCHANGED <<members, mcache, etcd>> /\ mc.pc \in BuildSteps /\ mc.pc # "idle"
    BY DEF Certificates, EnsurePVC, UpdatePod, EnsurePod, objectsUnchanged, BuildSteps
<1>2. /\ mc.m \in Members /\ mc.obj \in Member /\ MemberWorkerTypeOK
      /\ pods \in [Members -> Pod] /\ pvcs = [k \in Members |-> pvcs[k]]
    BY <1>1, Held DEF TypeOK, OwnedTypeOK
<1>3. mc'.pc \in BuildSteps \cup {"status"} /\ mc'.m = mc.m /\ mc'.fresh = mc.fresh
    BY <1>2, ContinueFields, ReturnFields DEF Certificates, EnsurePVC, UpdatePod, EnsurePod,
        BuildSteps, AfterCertificates, AfterPVC
<1>m. PICK m \in Members : m = mc.m
    BY <1>2
<1>4. MemberFits(m) /\ WorkerFits /\ (InRepair(m)' => InRepair(m))
    BY <1>m, <1>1, <1>2, <1>3 DEF DataFits, InRepair, RepairSteps, BuildSteps
<1>5. InRepair(m) => members[m].spec.broken \/ mcache[m].spec.broken
    BY <1>m, <1>1 DEF InRepair, RepairSteps, BuildSteps
<1>6. /\ NoData(m) => Fits(m, mc.obj)
      /\ NoData(m) /\ etcd[m] = "added" =>
            \/ /\ mc.obj.status.phase = members[m].status.phase
               /\ mc.obj.status.phase = "Recreating" => ~members[m].spec.broken
            \/ /\ members[m].spec.broken /\ mcache[m].spec.broken
               /\ mc.obj.status.phase = "Recreating"
               /\ pods[m].state = "none" /\ pvcs[m] = "none"
               /\ mc.pc \in {"certificates", "pvc"}
    BY <1>m, <1>1, <1>4 DEF WorkerFits, HeldFits
<1>7. mcache[m].spec.broken /\ ~members[m].spec.broken =>
        /\ pods[m].state = "none" /\ pvcs[m] = "none"
        /\ mc.pc = "pod" => mc.obj.status.phase = "Failed"
    BY <1>m, <1>1 DEF MarkMeans, AfterRepair
\* All that is left to show of a step.
<1>8. ASSUME MemberFits(m)', HeldFits', StatusFits', StepKnown' PROVE DataFits'
  <2>1. \A k \in Members : MemberFits(k)'
      BY <1>m, <1>0, <1>1, <1>3, <1>8, OthersFit
  <2>2. RepairKnown'
      BY <1>m, <1>3 DEF RepairKnown, RepairSteps, BuildSteps
  <2> QED
      BY <1>8, <2>1, <2>2 DEF DataFits, WorkerFits
<1>9. CASE Certificates
  <2>1. UNCHANGED <<pods, pvcs>>
      BY <1>9 DEF Certificates
  <2>2. /\ mc'.obj.status.phase = mc.obj.status.phase
        /\ mc'.pc \in {"pvc", "updatePod", "pod", "status"}
        /\ mc'.pc = "pvc" => IsCreating(mc'.obj)
        /\ mc'.pc = "updatePod" => mc'.obj.status.phase = "Running"
        /\ mc.obj.status.phase = "Recreating" => mc'.pc \in {"pvc", "status"}
    <3>1. ASSUME Return("requeue", mc.obj) PROVE mc'.pc = "status" /\ mc'.obj = mc.obj
        BY <1>m, <1>2, <3>1, ReturnFields
    <3>2. ASSUME Continue(AfterCertificates(Checked(mc.obj, m)), Checked(mc.obj, m))
          PROVE  /\ mc'.obj = Checked(mc.obj, m)
                 /\ mc'.pc = AfterCertificates(Checked(mc.obj, m))
        BY <1>m, <1>2, <3>2, ContinueFields
    <3>3. Checked(mc.obj, m).status.phase = mc.obj.status.phase
        BY <1>m, <1>2, ObjectFields
    <3> QED
        BY <1>m, <1>9, <3>1, <3>2, <3>3 DEF Certificates, AfterCertificates, AfterPVC, IsCreating,
            MemberShouldUpdate
  <2>3. MemberFits(m)'
      BY <1>m, <1>1, <1>4, <2>1, MemberFitsFrame
  <2>4. Fits(m, mc.obj) => Fits(m, mc.obj)'
      BY <1>m, <1>1, <1>3, <2>1, <2>2 DEF Fits
  <2>5. NoData(m)' <=> NoData(m)
      BY <1>m, <1>3, <2>1 DEF NoData
  <2>6. HeldFits'
      BY <1>m, <1>1, <1>3, <1>6, <2>1, <2>2, <2>4, <2>5 DEF HeldFits, BuildSteps
  <2>7. StatusFits'
      BY <1>m, <1>1, <1>3, <1>6, <2>1, <2>2, <2>4, <2>5 DEF StatusFits
  <2>8. StepKnown'
      BY <2>2 DEF StepKnown
  <2> QED
      BY <1>8, <2>3, <2>6, <2>7, <2>8
<1>10. CASE EnsurePVC
  <2>1. UNCHANGED pods /\ mc.pc = "pvc" /\ IsCreating(mc.obj)
      BY <1>m, <1>4, <1>10 DEF EnsurePVC, WorkerFits, StepKnown
  <2>2. \/ /\ pvcs[m] = "none" /\ pvcs'[m] = "empty"
           /\ mc'.pc = "status" /\ mc'.obj = mc.obj
        \/ /\ pvcs[m] # "none" /\ UNCHANGED pvcs
           /\ mc'.pc = "pod" /\ mc'.obj = mc.obj
      BY <1>m, <1>2, <1>10, <2>1, ContinueFields, ReturnFields DEF EnsurePVC, AfterPVC,
          MemberShouldUpdate, IsCreating
  <2>3. NoData(m)' <=> NoData(m)
      BY <1>m, <1>3, <2>2 DEF NoData
  <2>4. Fits(m, mc.obj) => Fits(m, mc.obj)'
      BY <1>m, <1>1, <1>3, <2>1, <2>2 DEF Fits, IsCreating
  <2>5. HeldFits' /\ StatusFits' /\ StepKnown'
      BY <1>m, <1>1, <1>3, <1>6, <2>1, <2>2, <2>3, <2>4 DEF HeldFits, StatusFits, StepKnown, BuildSteps
  <2>6. CASE UNCHANGED pvcs
    <3>1. MemberFits(m)'
        BY <1>m, <1>1, <1>4, <2>1, <2>6, MemberFitsFrame
    <3> QED
        BY <1>8, <2>5, <3>1
  <2>7. CASE pvcs[m] = "none" /\ pvcs'[m] = "empty"
    <3>1. NoData(m) /\ Fits(m, mc.obj)
        BY <1>6, <2>7 DEF NoData
    <3>2. etcd[m] = "added" => mc.obj.status.phase = "Recreating"
        BY <2>1, <3>1 DEF Fits, IsCreating
    <3>3. etcd[m] = "added" /\ members[m].status.phase = "Failed" =>
             members[m].spec.broken /\ mcache[m].spec.broken
        BY <1>6, <3>1, <3>2
    <3>4. StoredFits(m)'
        BY <1>m, <1>1, <1>4, <2>1, <3>1, <3>3 DEF MemberFits, StoredFits, Fits
    <3>5. CachedFits(m)'
        BY <1>m, <1>1, <1>4, <2>1, <3>1, <3>3 DEF MemberFits, CachedFits, Fits
    <3>6. InRepair(m) => etcd[m] = "added" /\ pods[m].state = "none"
        BY <1>4, <1>5, <1>6, <1>7, <3>1, <3>2 DEF MemberFits, RepairHolds, Fits
    <3>7. RepairHolds(m)' /\ ServedData(m)'
        BY <1>m, <1>1, <1>4, <2>1, <2>7, <3>1, <3>6 DEF MemberFits, RepairHolds, ServedData, NoData
    <3> QED
        BY <1>8, <2>5, <3>4, <3>5, <3>7 DEF MemberFits
  <2> QED
      BY <2>2, <2>6, <2>7
<1>11. CASE UpdatePod
  <2>1. mc.pc = "updatePod" /\ UNCHANGED pvcs
      BY <1>m, <1>11 DEF UpdatePod
  <2>2. ~NoData(m) /\ ~NoData(m)'
      BY <1>m, <1>3, <1>4, <1>6, <2>1 DEF WorkerFits, StepKnown, Fits, NoData
  <2>3. pods'[m].state = pods[m].state
    <3>1. [pods[m] EXCEPT !.terminating = TRUE].state = pods[m].state
        BY <1>m, <1>2 DEF Pod
    <3> QED
        BY <1>m, <1>2, <1>11, <3>1 DEF UpdatePod, DeletePod
  <2>4. MemberFits(m)'
      BY <1>m, <1>1, <1>4, <2>1, <2>2, <2>3 DEF MemberFits, StoredFits, CachedFits, RepairHolds,
          ServedData, NoData
  <2>5. HeldFits' /\ StatusFits'
      BY <1>m, <1>3, <2>2 DEF HeldFits, StatusFits
  <2>6. mc'.pc \in {"pod", "status"}
      BY <1>m, <1>2, <1>11, ContinueFields, ReturnFields DEF UpdatePod
  <2>7. StepKnown'
      BY <2>6 DEF StepKnown
  <2> QED
      BY <1>8, <2>4, <2>5, <2>7
<1>12. CASE EnsurePod
  <2>1. mc.pc = "pod" /\ mc'.pc = "status" /\ UNCHANGED pvcs
      BY <1>m, <1>2, <1>12, ReturnFields DEF EnsurePod
  <2>2. \/ pods[m].state # "none" /\ UNCHANGED pods /\ mc'.obj = PodObserved(mc.obj, pods[m])
        \/ /\ pods[m].state = "none" /\ pods' = [pods EXCEPT ![m] = GetPod(mc.obj)]
           /\ mc'.obj = PodCreated(mc.obj)
      BY <1>m, <1>2, <1>12, ReturnFields DEF EnsurePod
  <2>3. HeldFits' /\ StepKnown'
      BY <2>1 DEF HeldFits, StepKnown, BuildSteps
  <2>4. CASE ~NoData(m)
    <3>1. ~NoData(m)'
        BY <1>m, <1>3, <2>1, <2>4 DEF NoData
    <3>2. GetPod(mc.obj).state = "starting"
        BY DEF GetPod, NoPod
    <3>3. pods'[m].state \in {pods[m].state, "starting"}
        BY <1>m, <1>2, <2>2, <3>2
    <3>4. MemberFits(m)'
        BY <1>m, <1>1, <1>4, <2>1, <2>4, <3>1, <3>3 DEF MemberFits, StoredFits, CachedFits, RepairHolds,
            ServedData, NoData
    <3>5. StatusFits'
        BY <1>m, <1>3, <3>1 DEF StatusFits
    <3> QED
        BY <1>8, <2>3, <3>4, <3>5
  <2>5. CASE NoData(m)
    <3>1. Fits(m, mc.obj) /\ NoData(m)' /\ mc.obj.status.phase # "Running"
          /\ pods[m].state \notin {"ready", "unready"}
        BY <1>m, <1>3, <1>4, <1>6, <2>1, <2>5 DEF Fits, NoData, MemberFits, ServedData
    <3>2. mc'.obj = mc.obj
        BY <2>2, <3>1 DEF PodObserved, PodCreated
    <3>3. etcd[m] = "added" =>
             /\ mc.obj.status.phase = members[m].status.phase
             /\ mc.obj.status.phase = "Recreating" => ~members[m].spec.broken
        BY <1>6, <2>1, <2>5
    <3>4. CASE UNCHANGED pods
      <4>1. MemberFits(m)'
          BY <1>m, <1>1, <1>4, <2>1, <3>4, MemberFitsFrame
      <4>2. StatusFits'
          BY <1>m, <1>1, <1>3, <2>1, <3>1, <3>2, <3>3, <3>4 DEF StatusFits, Fits
      <4> QED
          BY <1>8, <2>3, <4>1, <4>2
    <3>5. CASE /\ pods[m].state = "none" /\ pods' = [pods EXCEPT ![m] = GetPod(mc.obj)]
               /\ mc'.obj = PodCreated(mc.obj)
      <4>1. /\ pods'[m].state = "starting"
            /\ pods'[m].mode = IF mc.obj.status.phase = "Recreating" THEN "existing" ELSE "new"
        <5>1. GetPod(mc.obj).state = "starting" /\ GetPod(mc.obj).mode = GetState(mc.obj)
            BY DEF GetPod, NoPod
        <5> QED
            BY <1>m, <1>2, <3>5, <5>1 DEF GetState
      <4>2. StatusFits'
          BY <1>m, <1>1, <1>3, <2>1, <3>1, <3>2, <3>3, <4>1 DEF StatusFits, Fits
      <4>3. StoredFits(m)'
          BY <1>m, <1>1, <1>4, <2>1, <2>5, <3>1, <3>3, <4>1 DEF MemberFits, StoredFits, Fits
      <4>4. CachedFits(m)'
          BY <1>m, <1>1, <1>4, <2>1, <2>5, <3>1, <3>3, <4>1 DEF MemberFits, CachedFits, Fits
      <4>5. InRepair(m) => etcd[m] # "none" /\ pvcs[m] = "none"
          BY <1>4, <1>5, <1>7, <2>1, <2>5, <3>1, <3>3 DEF MemberFits, RepairHolds, Fits
      <4>6. RepairHolds(m)' /\ ServedData(m)'
          BY <1>m, <1>1, <1>4, <2>1, <2>5, <4>1, <4>5 DEF MemberFits, RepairHolds, ServedData, NoData
      <4> QED
          BY <1>8, <2>3, <4>2, <4>3, <4>4, <4>6 DEF MemberFits
    <3> QED
        BY <2>2, <3>4, <3>5
  <2> QED
      BY <2>4, <2>5
<1> QED
    BY <1>m, <1>9, <1>10, <1>11, <1>12

LEMMA DataFitsInductive ==
    ASSUME "pods" \notin Lagging
    PROVE  TypeOK /\ Repairing /\ MarkMeans /\ DataFits /\ [Next]_vars => DataFits'
<1> SUFFICES ASSUME TypeOK, Repairing, MarkMeans, DataFits, [Next]_vars PROVE DataFits'
    OBVIOUS
<1>1. CASE Settled /\ MemberReconcile
  <2>1. pcache = pods
      BY <1>1 DEF Settled
  <2> QED
      BY <1>1, <2>1, GetMemberDataFits, RepairStepDataFits, RepairStatusDataFits,
          RepairSpecDataFits, LeaveDataFits, BuildStepDataFits
         DEF MemberReconcile, MemberWorkerStep, MemberWorkerFault
<1>2. CASE ClusterReconcile
    BY <1>2, ClusterEffect, ClusterDataFits
<1>3. CASE Sync \/ EnvironmentStep \/ UNCHANGED vars
    BY <1>3, OutsideEffect, OutsideDataFits
<1> QED
    BY <1>1, <1>2, <1>3 DEF Next, Step

LEMMA DataFitsInvariant ==
    ASSUME "pods" \notin Lagging
    PROVE  Spec => [](TypeOK /\ Repairing /\ MarkMeans /\ DataFits)
<1>1. TypeOK /\ Repairing /\ MarkMeans /\ DataFits /\ [Next]_vars => DataFits'
    BY DataFitsInductive
<1> QED
    BY <1>1, InitDataFits, MarkMeansInvariant, PTL DEF Spec

-----------------------------------------------------------------------------
(* New pods *)

\* No pod of a cluster that was not made from a backup restores one.
NoRestores == ~cluster.spec.backup /\ \A k \in Members : ~pods[k].restore

LEMMA BackupFixed ==
    ASSUME TypeOK, [Next]_vars PROVE cluster'.spec.backup = cluster.spec.backup
<1>1. cluster \in Cluster
    BY DEF TypeOK, StoreTypeOK
<1>2. CASE ClusterStatusUpdate
  <2> DEFINE new == [cluster EXCEPT !.status = cc.obj.status]
  <2>1. new.spec = cluster.spec
      BY <1>1 DEF Cluster
  <2>2. StoreCluster(new) \/ UNCHANGED cluster
      BY <1>2 DEF ClusterStatusUpdate
  <2> HIDE DEF new
  <2> QED
      BY <2>1, <2>2 DEF StoreCluster
<1>3. CASE ChangeVersion
  <2>1. PICK v : StoreCluster([cluster EXCEPT !.spec.version = v])
      BY <1>3 DEF ChangeVersion
  <2>2. [cluster EXCEPT !.spec.version = v].spec.backup = cluster.spec.backup
      BY <1>1 DEF Cluster, ClusterSpec
  <2> QED
      BY <2>1, <2>2 DEF StoreCluster
<1>4. CASE UNCHANGED cluster
    BY <1>4
<1>5. CASE MemberReconcile
    BY <1>4, <1>5 DEF MemberReconcile, MemberWorkerStep, MemberWorkerFault, GetMember,
        RepairDeletePod, RepairDeletePVC, ReaddRemove, ReaddAdd, ReaddAddReplyLost, RepairStatus,
        RepairStatusFails, RepairSpec, RepairSpecFails, Certificates, EnsurePVC, UpdatePod,
        EnsurePod, MemberCallFails, MemberStatusUpdate, MemberStatusUpdateFails, objectsUnchanged
<1>6. CASE ClusterReconcile
    BY <1>2, <1>4, <1>6 DEF ClusterReconcile, ClusterWorkerStep, ClusterWorkerFault, GetCluster,
        EnsureInfra, EnsureMembers, EnsureMembersAlreadyExists, EnsureMembersCallFails, PanicAt,
        RepairWaits, RepairDeclined, RepairMember, UpdateMemberWaits, UpdateMemberVersion,
        UpdateMemberCertificate, UpdateMemberDone, ClusterCallFails, ClusterStatusUpdateFails,
        storeUnchanged
<1>7. CASE Sync \/ UNCHANGED vars
    BY <1>4, <1>7 DEF Sync, SyncCluster, SyncMembers, SyncPods, vars
<1>8. CASE EnvironmentStep
  <2>1. CASE \E m \in Members : KubeletStep(m) \/ Mishap(m)
      BY <1>4, <2>1, KubeletEffect
  <2>2. CASE Tick \/ Crash \/ RestartOnPanic
      BY <1>4, <2>2 DEF Tick, Crash, RestartOnPanic, RestartManager
  <2> QED
      BY <1>3, <1>8, <2>1, <2>2 DEF EnvironmentStep
<1> QED
    BY <1>5, <1>6, <1>7, <1>8 DEF Next, Step

LEMMA NoRestoresInductive ==
    TypeOK /\ Repairing /\ NoRestores /\ [Next]_vars => NoRestores'
<1> SUFFICES ASSUME TypeOK, Repairing, NoRestores, [Next]_vars PROVE NoRestores'
    OBVIOUS
<1>0. pods \in [Members -> Pod]
    BY DEF TypeOK, OwnedTypeOK
<1>1. CASE UNCHANGED pods
    BY <1>1, BackupFixed DEF NoRestores
<1>2. CASE RepairDeletePod \/ UpdatePod
  <2>1. UNCHANGED pods \/ DeletePod(mc.m)
      BY <1>2 DEF RepairDeletePod, UpdatePod
  <2>2. \A k \in Members : [pods[k] EXCEPT !.terminating = TRUE].restore = pods[k].restore
      BY <1>0 DEF Pod
  <2>3. \A k \in Members : pods'[k].restore = pods[k].restore
      BY <1>0, <2>1, <2>2 DEF DeletePod
  <2> QED
      BY <2>3, BackupFixed DEF NoRestores
<1>3. CASE EnsurePod
  <2>1. GetPod(mc.obj).restore = Restores(mc.obj)
      BY DEF GetPod, NoPod
  <2>2. ~Restores(mc.obj)
      BY DEF Restores, NoRestores
  <2>3. UNCHANGED pods \/ pods' = [pods EXCEPT ![mc.m] = GetPod(mc.obj)]
      BY <1>3 DEF EnsurePod
  <2> QED
      BY <1>0, <2>1, <2>2, <2>3, BackupFixed DEF NoRestores
<1>4. CASE MemberReconcile
    BY <1>1, <1>2, <1>3, <1>4 DEF MemberReconcile, MemberWorkerStep, MemberWorkerFault, GetMember,
        RepairDeletePVC, ReaddRemove, ReaddAdd, ReaddAddReplyLost, RepairStatus, RepairStatusFails,
        RepairSpec, RepairSpecFails, Certificates, EnsurePVC, MemberCallFails, MemberStatusUpdate,
        MemberStatusUpdateFails
<1>5. CASE ClusterReconcile
    BY <1>1, <1>5, ClusterEffect DEF ClusterChanges
<1>6. CASE Sync \/ EnvironmentStep \/ UNCHANGED vars
  <2>1. \A k \in Members : pods'[k].restore => pods[k].restore
      BY <1>6, OutsideEffect DEF OutsideChanges, PodServes, PodLives
  <2> QED
      BY <2>1, BackupFixed DEF NoRestores
<1> QED
    BY <1>4, <1>5, <1>6 DEF Next, Step

LEMMA InitNoRestores == ASSUME TRUE \notin FromBackup PROVE Init => NoRestores
<1> SUFFICES ASSUME Init PROVE NoRestores
    OBVIOUS
<1>1. PICK v \in FirstVersions, backup \in FromBackup : InitRunning(v, backup) \/ InitCreated(v, backup)
    BY DEF Init
<1>2. backup = FALSE
    BY FlagAssumption
<1>3. RunningPod(v, backup).restore = backup /\ NoPod.restore = FALSE
    BY DEF RunningPod, NoPod
<1> QED
    BY <1>1, <1>2, <1>3 DEF InitRunning, InitCreated, NoRestores

\* A new pod with its claim always finds what etcd needs to start, whatever was
\* repaired, failed, lost and done again before, in a cluster that was not made from
\* a backup and while the cache of the pods keeps up (Member.GetState,
\* member_types.go:359-365; Repair, member_controller.go:219-244; EnsurePVC and
\* EnsurePod).
THEOREM NewPodsCanStart ==
    ASSUME "pods" \notin Lagging, TRUE \notin FromBackup PROVE Spec => []NewPodCanStart
<1>1. DataFits /\ NoRestores => NewPodCanStart
  <2> SUFFICES ASSUME DataFits, NoRestores, NEW m \in Members,
                      pods[m].state = "starting", pvcs[m] \in {"empty", "data"}
               PROVE  CanServe(m)
      BY DEF NewPodCanStart
  <2>1. MemberFits(m) /\ ~pods[m].restore
      BY DEF DataFits, NoRestores
  <2> QED
      BY <2>1 DEF MemberFits, StoredFits, RepairHolds, InRepair, ServedData, NoData, Fits, CanServe
<1>2. Init => NoRestores
    BY InitNoRestores
<1>3. Spec => [](TypeOK /\ Repairing /\ MarkMeans /\ DataFits)
    BY DataFitsInvariant
<1> QED
    BY <1>1, <1>2, <1>3, NoRestoresInductive, PTL DEF Spec

-----------------------------------------------------------------------------
(* A running cluster implements SingleRepair.  Init and each step of Next  *)
(* are mapped: Marked is its marked, WithoutData its lost.                  *)

Marked == {m \in Members : members[m].spec.broken}

\* No member of a running cluster is new to etcd.
NoneNew == \A k \in Members : etcd[k] # "none"

LEMMA NoneNewInductive ==
    TypeOK /\ Repairing /\ NoneNew /\ [Next]_vars => NoneNew'
<1> SUFFICES ASSUME TypeOK, Repairing, NoneNew, [Next]_vars PROVE NoneNew'
    OBVIOUS
<1>1. CASE UNCHANGED etcd
    BY <1>1 DEF NoneNew
<1>2. CASE ReaddRemove \/ ReaddAdd \/ ReaddAddReplyLost
  <2>1. etcd = [k \in Members |-> etcd[k]]
      BY DEF TypeOK, OwnedTypeOK
  <2> QED
      BY <1>2, <2>1 DEF NoneNew, ReaddRemove, ReaddAdd, ReaddAddReplyLost
<1>3. CASE MemberReconcile
    BY <1>1, <1>2, <1>3 DEF MemberReconcile, MemberWorkerStep, MemberWorkerFault, GetMember,
        RepairDeletePod, RepairDeletePVC, RepairStatus, RepairStatusFails, RepairSpec,
        RepairSpecFails, Certificates, EnsurePVC, UpdatePod, EnsurePod, MemberCallFails,
        MemberStatusUpdate, MemberStatusUpdateFails
<1>4. CASE ClusterReconcile
    BY <1>1, <1>4, ClusterEffect DEF ClusterChanges
<1>5. CASE Sync \/ EnvironmentStep \/ UNCHANGED vars
    BY <1>5, OutsideEffect DEF NoneNew, OutsideChanges, PodServes, PodLives
<1> QED
    BY <1>3, <1>4, <1>5 DEF Next, Step

\* While Repair records its end, a member without data that is not marked (any
\* more) is being recreated: RepairMembers takes it for a repair under way.
Rejoins(k) ==
    NoData(k) /\ ~members[k].spec.broken => members[k].status.phase = "Recreating"

RejoinsNext ==
    mc.pc = "repairSpec" /\ mc.fresh => members[mc.m].status.phase = "Recreating"

Rejoining == (\A k \in Members : Rejoins(k)) /\ RejoinsNext

LEMMA InitRepairs ==
    ASSUME FALSE \notin Deployed, Init
    PROVE  NoneNew /\ Rejoining /\ Marked = {} /\ WithoutData = {}
<1>1. PICK v, backup : InitRunning(v, backup)
    BY DEF Init
<1>2. mc.pc = "idle"
    BY DEF Init, IdleMemberWorker
<1> QED
    BY <1>1, <1>2 DEF InitRunning, RunningMember, NoneNew, Marked, WithoutData, Rejoining, Rejoins,
        RejoinsNext, NoData

LEMMA ClusterRejoining ==
    ASSUME TypeOK, MarkMeans, Rejoining, ClusterChanges PROVE Rejoining'
<1>1. /\ UNCHANGED pvcs /\ WorkerKept
      /\ \A k \in Members : Rejoins(k) /\ (Keeps(k) \/ Creates(k) \/ Marks(k))
    BY DEF ClusterChanges, Rejoining
<1>2. ASSUME NEW k \in Members, Creates(k)
      PROVE  members[k].status.phase = "Absent" /\ ~members[k].spec.broken
    BY <1>2 DEF Creates, MarkMeans, MarkStands, MayBeBroken
<1>3. \A k \in Members : Rejoins(k)'
    BY <1>1, <1>2 DEF Keeps, Marks, Rejoins, NoData
<1>4. RejoinsNext'
  <2>1. CASE mc.pc = "repairSpec"
    <3>1. mc.m \in Members
        BY <2>1, Held DEF TypeOK
    <3> QED
        BY <1>1, <1>2, <2>1, <3>1 DEF WorkerKept, Keeps, Marks, Rejoining, RejoinsNext
  <2>2. CASE mc.pc # "repairSpec"
      BY <1>1, <2>2 DEF WorkerKept, RejoinsNext
  <2> QED
      BY <2>1, <2>2
<1> QED
    BY <1>3, <1>4 DEF Rejoining

LEMMA MemberRejoining ==
    ASSUME TypeOK, MarkMeans, DataFits, NoneNew, Rejoining, MemberReconcile, ~RepairStatusFails
    PROVE  Rejoining'
<1>0. members \in [Members -> Member] /\ pvcs = [k \in Members |-> pvcs[k]] /\ MemberWorkerTypeOK
    BY DEF TypeOK, StoreTypeOK, OwnedTypeOK
<1>h. mc.pc # "idle" => mc.m \in Members /\ mc.obj \in Member
    BY <1>0, Held
<1>1. CASE RepairStatus
  <2> DEFINE new == [members[mc.m] EXCEPT !.status = Recreated(mc.obj).status]
  <2>1. mc.m \in Members /\ mc.obj \in Member /\ UNCHANGED pvcs
      BY <1>1, <1>h DEF RepairStatus
  <2>2. new.spec = members[mc.m].spec /\ new.status.phase = "Recreating"
      BY <1>0, <2>1, ObjectFields DEF Member
  <2>3. \/ mc.fresh /\ StoreMember(mc.m, new) /\ Continue("repairSpec", new)
        \/ ~mc.fresh /\ UNCHANGED members /\ Continue("repairSpec", Recreated(mc.obj))
      BY <1>1 DEF RepairStatus
  <2> HIDE DEF new
  <2>4. mc'.m = mc.m /\ mc'.fresh = mc.fresh
      BY <1>0, <2>3, ContinueFields
  <2>5. mc.fresh => members'[mc.m].status.phase = "Recreating"
      BY <1>0, <2>1, <2>2, <2>3 DEF StoreMember
  <2>6. \A k \in Members : Rejoins(k)'
      BY <1>0, <2>1, <2>2, <2>3 DEF StoreMember, Rejoining, Rejoins, NoData
  <2> QED
      BY <2>4, <2>5, <2>6 DEF Rejoining, RejoinsNext
<1>2. CASE RepairSpec
  <2> DEFINE new == [members[mc.m] EXCEPT !.spec = Mended(mc.obj).spec]
  <2>1. mc.pc = "repairSpec" /\ mc.m \in Members /\ UNCHANGED pvcs
      BY <1>2, <1>h DEF RepairSpec
  <2>2. new.status = members[mc.m].status
      BY <1>0, <2>1 DEF Member
  <2>3. \/ mc.fresh /\ StoreMember(mc.m, new) /\ Continue("certificates", new)
        \/ UNCHANGED members /\ Continue("certificates", Mended(mc.obj))
      BY <1>2 DEF RepairSpec
  <2> HIDE DEF new
  <2>4. mc'.pc = "certificates"
      BY <1>0, <2>3, ContinueFields
  <2>5. \A k \in Members : Rejoins(k)'
      BY <1>0, <2>1, <2>2, <2>3 DEF StoreMember, Rejoining, Rejoins, RejoinsNext, NoData
  <2> QED
      BY <2>4, <2>5 DEF Rejoining, RejoinsNext
<1>3. CASE MemberStatusUpdate
  <2> DEFINE new == [members[mc.m] EXCEPT !.status = mc.obj.status]
  <2>1. mc.pc = "status" /\ mc.m \in Members /\ UNCHANGED pvcs /\ mc'.pc = "idle"
      BY <1>3, <1>h DEF MemberStatusUpdate, FinishMember, IdleMemberWorker
  <2>2. new.spec = members[mc.m].spec /\ new.status = mc.obj.status
      BY <1>0, <2>1 DEF Member
  <2>3. UNCHANGED members \/ (mc.fresh /\ StoreMember(mc.m, new))
      BY <1>3 DEF MemberStatusUpdate
  <2> HIDE DEF new
  <2>4. mc.fresh /\ NoData(mc.m) /\ ~members[mc.m].spec.broken =>
           mc.obj.status.phase = members[mc.m].status.phase
      BY <2>1 DEF DataFits, WorkerFits, StatusFits, Fits, NoneNew
  <2>5. \A k \in Members : Rejoins(k)'
      BY <1>0, <2>1, <2>2, <2>3, <2>4 DEF StoreMember, Rejoining, Rejoins, NoData
  <2> QED
      BY <2>1, <2>5 DEF Rejoining, RejoinsNext
<1>4. CASE RepairDeletePVC \/ EnsurePVC
  <2>1. mc.m \in Members /\ UNCHANGED members /\ mc.pc \in {"deletePVC", "pvc"}
      BY <1>4, <1>h DEF RepairDeletePVC, EnsurePVC
  <2>2. mc.pc = "deletePVC" => NoData(mc.m) \/ members[mc.m].spec.broken
      BY <2>1 DEF DataFits, WorkerFits, RepairKnown, RepairSteps, NoData
  <2>3. \A k \in Members : pvcs'[k] # "data" => pvcs[k] # "data" \/ members[k].spec.broken
      BY <1>0, <1>4, <2>1, <2>2 DEF RepairDeletePVC, EnsurePVC, NoData
  <2>4. mc'.pc # "repairSpec"
      BY <1>0, <1>4, ContinueFields, ReturnFields DEF RepairDeletePVC, EnsurePVC, AfterPVC
  <2> QED
      BY <2>1, <2>3, <2>4 DEF Rejoining, Rejoins, RejoinsNext, NoData
<1>5. CASE UNCHANGED <<members, pvcs>> /\ (mc'.pc = "repairSpec" => mc' = mc)
    BY <1>5 DEF Rejoining, Rejoins, RejoinsNext, NoData
<1>6. ASSUME \/ \E m \in Members : GetMember(m)
             \/ RepairDeletePod \/ ReaddRemove \/ ReaddAdd \/ ReaddAddReplyLost \/ RepairSpecFails
             \/ Certificates \/ UpdatePod \/ EnsurePod \/ MemberCallFails \/ MemberStatusUpdateFails
      PROVE  UNCHANGED <<members, pvcs>> /\ (mc'.pc = "repairSpec" => mc' = mc)
  <2>1. UNCHANGED <<members, pvcs>>
      BY <1>6 DEF GetMember, RepairDeletePod, ReaddRemove, ReaddAdd, ReaddAddReplyLost,
        RepairSpecFails, Certificates, UpdatePod, EnsurePod, MemberCallFails,
        MemberStatusUpdateFails
  <2>2. CASE \E m \in Members : GetMember(m)
      BY <2>1, <2>2 DEF GetMember
  <2>3. CASE MemberStatusUpdateFails
      BY <2>1, <2>3 DEF MemberStatusUpdateFails, FinishMember, IdleMemberWorker
  <2>4. CASE \/ RepairDeletePod \/ ReaddRemove \/ ReaddAdd \/ ReaddAddReplyLost \/ RepairSpecFails
             \/ Certificates \/ UpdatePod \/ EnsurePod \/ MemberCallFails
      BY <1>0, <2>1, <2>4, ContinueFields, ReturnFields DEF RepairDeletePod, ReaddRemove, ReaddAdd,
        ReaddAddReplyLost, RepairSpecFails, Certificates, UpdatePod, EnsurePod, MemberCallFails,
        AfterCertificates, AfterPVC
  <2> QED
      BY <1>6, <2>2, <2>3, <2>4
<1> QED
    BY <1>1, <1>2, <1>3, <1>4, <1>5, <1>6 DEF MemberReconcile, MemberWorkerStep, MemberWorkerFault

LEMMA OutsideRejoining ==
    ASSUME Rejoining, OutsideChanges PROVE Rejoining'
<1>1. \A k \in Members : NoData(k)' => NoData(k)
    BY DEF OutsideChanges, PodServes, PodLives, NoData
<1>2. UNCHANGED members /\ (mc'.pc = "repairSpec" => mc' = mc)
    BY DEF OutsideChanges, IdleMemberWorker
<1> QED
    BY <1>1, <1>2 DEF Rejoining, Rejoins, RejoinsNext

LEMMA RejoiningInductive ==
    ASSUME TypeOK, Repairing, MarkMeans, DataFits, NoneNew, Rejoining, [Next]_vars,
           [~RepairStatusFails]_vars
    PROVE  Rejoining'
<1>1. CASE MemberReconcile
  <2>1. CASE UNCHANGED vars
      BY <2>1 DEF vars, Rejoining, Rejoins, RejoinsNext, NoData
  <2> QED
      BY <1>1, <2>1, MemberRejoining
<1>2. CASE ClusterReconcile
    BY <1>2, ClusterEffect, ClusterRejoining
<1>3. CASE Sync \/ EnvironmentStep \/ UNCHANGED vars
    BY <1>3, OutsideEffect, OutsideRejoining
<1> QED
    BY <1>1, <1>2, <1>3 DEF Next, Step

\* RepairMembers marks a member only when no other is marked and none is without
\* its data: such a one is being recreated, in the store and in the cache.
LEMMA ClusterRepairs ==
    ASSUME TypeOK, Repairing, MarkMeans, DataFits, Rejoining, ClusterReconcile
    PROVE  \/ UNCHANGED <<Marked, WithoutData>>
           \/ \E i \in Members : Repairs!Mark(i)
<1>1. /\ UNCHANGED <<mcache, pvcs>>
      /\ \A k \in Members : Keeps(k) \/ Creates(k) \/ Marks(k)
    BY ClusterEffect DEF ClusterChanges
<1>2. UNCHANGED WithoutData
    BY <1>1 DEF WithoutData
<1>3. ASSUME NEW k \in Members, Creates(k)
      PROVE  ~members[k].spec.broken /\ ~members'[k].spec.broken
    BY <1>3 DEF Creates, MarkMeans, MarkStands, MayBeBroken
<1>4. CASE \A k \in Members : ~Marks(k)
  <2>1. \A k \in Members : members'[k].spec.broken <=> members[k].spec.broken
      BY <1>1, <1>3, <1>4 DEF Keeps
  <2>2. UNCHANGED Marked
      BY <2>1 DEF Marked
  <2> QED
      BY <1>2, <2>2
<1>5. ASSUME NEW i \in Members, Marks(i) PROVE Repairs!Mark(i)
  <2>1. /\ Oldest(i) /\ ~members[i].spec.broken /\ members'[i].spec.broken
        /\ \A k \in Members : ~mcache[k].spec.broken /\ ~IsCreating(mcache[k])
      BY <1>5 DEF Marks, RepairUnderWay, RepairStops
  <2>2. \A k \in Members : ~members[k].spec.broken
      BY <2>1, OldestUnique DEF Repairing, MarkedOldest
  <2>3. ASSUME NEW k \in Members PROVE ~NoData(k)
    <3>1. MemberFits(k) /\ Rejoins(k) /\ ~members[k].spec.broken /\ ~mcache[k].spec.broken
        BY <2>1, <2>2 DEF DataFits, Rejoining
    <3>2. NoData(k) => mcache[k].status.phase = "Recreating"
        BY <3>1 DEF MemberFits, StoredFits, CachedFits, Rejoins, Fits
    <3> QED
        BY <2>1, <3>2 DEF IsCreating
  <2>4. \A k \in Members : members'[k].spec.broken => k = i
    <3>1. \A k \in Members : Marks(k) => k = i
        BY <2>1, OldestUnique DEF Marks
    <3> QED
        BY <1>1, <1>3, <2>2, <3>1 DEF Keeps
  <2>5. Marked = {} /\ Marked' = {i}
      BY <2>1, <2>2, <2>4 DEF Marked
  <2>6. WithoutData = {}
      BY <2>3 DEF WithoutData, NoData
  <2> QED
      BY <1>2, <2>5, <2>6 DEF Repairs!Mark, Marked
<1> QED
    BY <1>4, <1>5

\* What a member's own reconciler does: Repair takes the data of a member that is
\* marked, and clears the mark when it is done.
LEMMA MemberRepairs ==
    ASSUME TypeOK, MarkMeans, DataFits, MemberReconcile
    PROVE  \/ UNCHANGED <<Marked, WithoutData>>
           \/ \E i \in Members : Repairs!Wipe(i) \/ Repairs!Unmark(i)
<1>0. members \in [Members -> Member] /\ pvcs = [k \in Members |-> pvcs[k]] /\ MemberWorkerTypeOK
    BY DEF TypeOK, StoreTypeOK, OwnedTypeOK
<1>h. mc.pc # "idle" => mc.m \in Members /\ mc.obj \in Member
    BY <1>0, Held
<1>1. CASE RepairDeletePVC
  <2>1. mc.pc = "deletePVC" /\ mc.m \in Members /\ UNCHANGED members
      BY <1>1, <1>h DEF RepairDeletePVC
  <2>2. UNCHANGED Marked
      BY <2>1 DEF Marked
  <2>3. UNCHANGED pvcs \/ pvcs' = [pvcs EXCEPT ![mc.m] = "terminating"]
      BY <1>1 DEF RepairDeletePVC
  <2>4. CASE UNCHANGED pvcs
      BY <2>2, <2>4 DEF WithoutData
  <2>5. CASE pvcs' = [pvcs EXCEPT ![mc.m] = "terminating"]
    <3>1. WithoutData' = WithoutData \cup {mc.m}
        BY <1>0, <2>1, <2>5 DEF WithoutData
    <3>2. mc.m \in WithoutData \/ mc.m \in Marked
        BY <2>1 DEF DataFits, WorkerFits, RepairKnown, RepairSteps, WithoutData, Marked
    <3>3. CASE mc.m \in Marked
        BY <2>1, <2>2, <3>1, <3>3 DEF Repairs!Wipe, Marked
    <3>4. CASE mc.m \in WithoutData
        BY <2>2, <3>1, <3>4
    <3> QED
        BY <3>2, <3>3, <3>4
  <2> QED
      BY <2>3, <2>4, <2>5
<1>2. CASE RepairSpec
  <2>1. mc.pc = "repairSpec" /\ mc.m \in Members /\ mc.obj \in Member /\ UNCHANGED pvcs
      BY <1>2, <1>h DEF RepairSpec
  <2>2. UNCHANGED WithoutData
      BY <2>1 DEF WithoutData
  <2>3. mc.m \in Marked
      BY <2>1 DEF DataFits, WorkerFits, RepairKnown, RepairSteps, Marked
  <2> DEFINE new == [members[mc.m] EXCEPT !.spec = Mended(mc.obj).spec]
  <2>4. ~new.spec.broken
      BY <1>0, <2>1, ObjectFields DEF Member
  <2>5. UNCHANGED members \/ StoreMember(mc.m, new)
      BY <1>2 DEF RepairSpec
  <2> HIDE DEF new
  <2>6. UNCHANGED Marked \/ Marked' = Marked \ {mc.m}
      BY <1>0, <2>1, <2>4, <2>5 DEF Marked, StoreMember
  <2> QED
      BY <2>1, <2>2, <2>3, <2>6 DEF Repairs!Unmark, Marked
<1>3. CASE EnsurePVC
  <2>1. mc.m \in Members /\ UNCHANGED members
      BY <1>3, <1>h DEF EnsurePVC
  <2>2. \A k \in Members : pvcs'[k] = "data" <=> pvcs[k] = "data"
      BY <1>0, <1>3, <2>1 DEF EnsurePVC
  <2> QED
      BY <2>1, <2>2 DEF Marked, WithoutData
<1>4. CASE RepairStatus \/ MemberStatusUpdate
  <2> DEFINE recreated == [members[mc.m] EXCEPT !.status = Recreated(mc.obj).status]
             finished == [members[mc.m] EXCEPT !.status = mc.obj.status]
  <2>1. mc.m \in Members /\ UNCHANGED pvcs
      BY <1>4, <1>h DEF RepairStatus, MemberStatusUpdate
  <2>2. recreated.spec = members[mc.m].spec /\ finished.spec = members[mc.m].spec
      BY <1>0, <2>1 DEF Member
  <2>3. UNCHANGED members \/ StoreMember(mc.m, recreated) \/ StoreMember(mc.m, finished)
      BY <1>4 DEF RepairStatus, MemberStatusUpdate
  <2> HIDE DEF recreated, finished
  <2>4. \A k \in Members : members'[k].spec = members[k].spec
      BY <1>0, <2>1, <2>2, <2>3 DEF StoreMember
  <2> QED
      BY <2>1, <2>4 DEF Marked, WithoutData
<1>5. CASE UNCHANGED <<members, pvcs>>
    BY <1>5 DEF Marked, WithoutData
<1> QED
    BY <1>1, <1>2, <1>3, <1>4, <1>5 DEF MemberReconcile, MemberWorkerStep, MemberWorkerFault,
        GetMember, RepairDeletePod, ReaddRemove, ReaddAdd, ReaddAddReplyLost, RepairStatusFails,
        RepairSpecFails, Certificates, UpdatePod, EnsurePod, MemberCallFails,
        MemberStatusUpdateFails

\* etcd fills the claim of a member whose repair is over.
LEMMA OutsideRepairs ==
    ASSUME TypeOK, DataFits, Sync \/ EnvironmentStep \/ UNCHANGED vars
    PROVE  \/ UNCHANGED <<Marked, WithoutData>>
           \/ \E i \in Members : Repairs!Refill(i)
<1>0. UNCHANGED members /\ pvcs = [k \in Members |-> pvcs[k]]
    BY OutsideEffect DEF OutsideChanges, TypeOK, OwnedTypeOK
<1>1. UNCHANGED Marked
    BY <1>0 DEF Marked
<1>2. CASE \E i \in Members : PodReady(i) \/ PodRecovers(i)
  <2>1. PICK i \in Members : pvcs' = [pvcs EXCEPT ![i] = "data"] /\ pods[i].state # "none" /\ CanServe(i)
      BY <1>2 DEF PodReady, PodRecovers, Serve
  <2>2. WithoutData' = WithoutData \ {i}
      BY <1>0, <2>1 DEF WithoutData
  <2>3. i \notin WithoutData \/ i \notin Marked
      BY <2>1 DEF DataFits, MemberFits, RepairHolds, InRepair, NoData, CanServe, WithoutData, Marked
  <2>4. CASE i \in WithoutData \ Marked
      BY <1>1, <2>1, <2>2, <2>4 DEF Repairs!Refill, Marked
  <2>5. CASE i \notin WithoutData
      BY <1>1, <2>2, <2>5
  <2> QED
      BY <2>3, <2>4, <2>5
<1>3. CASE \E i \in Members : PvcGone(i)
    BY <1>0, <1>1, <1>3 DEF PvcGone, WithoutData
<1>4. CASE UNCHANGED pvcs
    BY <1>1, <1>4 DEF WithoutData
<1> QED
    BY <1>2, <1>3, <1>4 DEF Sync, SyncCluster, SyncMembers, SyncPods, EnvironmentStep,
        ChangeVersion, Tick, Crash, RestartOnPanic, RestartManager, KubeletStep, Mishap, PodFails,
        PodEvicted, PodGone, IssueCertificates, RenewCertificate, podUnchanged, certUnchanged, vars

LEMMA StepRepairs ==
    ASSUME TypeOK, Repairing, MarkMeans, DataFits, Rejoining, [Next]_vars
    PROVE  [Repairs!Next]_<<Marked, WithoutData>>
BY ClusterRepairs, MemberRepairs, OutsideRepairs DEF Next, Step, Repairs!Next

\* Repair's first write, "the member is being recreated", never fails for another
\* reason than a conflict: its error is swallowed (member_controller.go:232-236).
RepairIsRecorded == [][~RepairStatusFails]_vars

\* A running cluster of any size implements SingleRepair, however many members fail
\* or calls are lost, however often the manager crashes and however far the cached
\* members are behind, as long as the one write is not lost that says a repair is
\* under way once the mark is gone: a member is marked only while the data of every
\* other is there, wiped only while it is marked, and filled again only when its
\* repair is over (RepairMembers, cluster_controller.go:292-331; Repair,
\* member_controller.go:219-244).
THEOREM RecordedRepairsOneByOne ==
    ASSUME "pods" \notin Lagging, FALSE \notin Deployed
    PROVE  Spec /\ RepairIsRecorded => RepairsOneByOne
<1>1. Init => Repairs!Init /\ NoneNew /\ Rejoining
    BY InitRepairs DEF Repairs!Init, Marked
<1>2. TypeOK /\ Repairing /\ MarkMeans /\ DataFits /\ Rejoining /\ [Next]_vars =>
         [Repairs!Next]_<<{m \in Members : members[m].spec.broken}, WithoutData>>
    BY StepRepairs DEF Marked
<1>3. TypeOK /\ Repairing /\ NoneNew /\ [Next]_vars => NoneNew'
    BY NoneNewInductive
<1>4. /\ TypeOK /\ Repairing /\ MarkMeans /\ DataFits /\ NoneNew /\ Rejoining
      /\ [Next]_vars /\ [~RepairStatusFails]_vars
      => Rejoining'
    BY RejoiningInductive
<1>5. Spec => [](TypeOK /\ Repairing /\ MarkMeans /\ DataFits)
    BY DataFitsInvariant
<1> QED
    BY <1>1, <1>2, <1>3, <1>4, <1>5, PTL
       DEF Spec, RepairIsRecorded, RepairsOneByOne, Repairs!Spec

\* In particular when no call fails at all: then the members without their data
\* are one at most, which is never a majority.
THEOREM ImplementsSingleRepair ==
    ASSUME MaxFaults = 0, "pods" \notin Lagging, FALSE \notin Deployed
    PROVE  Spec => RepairsOneByOne
<1>1. TypeOK => ~RepairStatusFails
    BY DEF TypeOK, BoundsOK, Budgets, RepairStatusFails, Fault
<1> QED
    BY <1>1, TypeCorrect, RecordedRepairsOneByOne, PTL DEF RepairIsRecorded

\* What the repairs are for: a running cluster keeps its data but for one member's.
THEOREM RecordedRepairsKeepData ==
    ASSUME "pods" \notin Lagging, FALSE \notin Deployed, Size >= 3
    PROVE  Spec /\ RepairIsRecorded => []DataKept
BY RecordedRepairsOneByOne, DataKeptByRepairs, PTL
=============================================================================
