----------------------------- MODULE MarkProofs -----------------------------
(***************************************************************************)
(* What the mark on a member means: that it is set on the member that      *)
(* failed first and while a minority is failed, that it stands for a       *)
(* failure, and that nothing is deleted without it.  No fault, no restart  *)
(* and no age of the caches is excluded, except where a theorem says so.   *)
(***************************************************************************)
EXTENDS RepairProofs

-----------------------------------------------------------------------------
(* What the cluster controller does to the members *)

Keeps(k) ==
    /\ members'[k].status = members[k].status
    /\ members'[k].spec.broken = members[k].spec.broken

Creates(k) ==
    /\ members[k].status.phase = "Absent" /\ mcache[k].status.phase = "Absent"
    /\ members'[k].status = [AbsentMember.status EXCEPT !.phase = "None"]
    /\ ~members'[k].spec.broken

Marks(k) ==
    /\ ~RepairUnderWay /\ ~TooManyFailed /\ Oldest(k)
    /\ k \notin mlag /\ mcache[k] = members[k]
    /\ ~members[k].spec.broken /\ members'[k].spec.broken
    /\ members'[k].status = members[k].status
    /\ mc.pc # "idle" /\ mc.m = k => ~mc'.fresh

\* The worker of the member controller may lose its claim to the stored version.
WorkerKept ==
    /\ mc'.pc = mc.pc /\ mc'.m = mc.m /\ mc'.obj = mc.obj
    /\ mc'.fresh => mc.fresh

ClusterChanges ==
    /\ UNCHANGED <<mcache, pods, pcache, pvcs, etcd, now>>
    /\ WorkerKept
    /\ \A k \in Members : Keeps(k) \/ Creates(k) \/ Marks(k)

LEMMA UpdateKeeps ==
    ASSUME TypeOK, CacheAgrees, NEW i \in Members, i \notin mlag, NEW value,
           UpdateMember(i, value), value.status = mcache[i].status,
           value.spec.broken = mcache[i].spec.broken
    PROVE  WorkerKept /\ \A k \in Members : Keeps(k)
<1>1. mc \in MemberWorker /\ members \in [Members -> Member]
    BY DEF TypeOK, MemberWorkerTypeOK, StoreTypeOK
<1>2. WorkerKept
    BY <1>1 DEF UpdateMember, WorkerKept, MemberWorker
<1>3. mcache[i] = members[i]
    BY DEF CacheAgrees
<1> QED
    BY <1>1, <1>2, <1>3 DEF UpdateMember, StoreMember, Keeps

LEMMA RepairMemberChanges ==
    ASSUME TypeOK, Repairing, NEW i \in Members, RepairMember(i)
    PROVE  WorkerKept /\ \A k \in Members : Keeps(k) \/ Marks(k)
<1>1. CASE i \in mlag
    BY <1>1 DEF RepairMember, WorkerKept, Keeps
<1>2. CASE i \notin mlag
  <2>1. /\ ~RepairUnderWay /\ ~TooManyFailed /\ Oldest(i)
        /\ UpdateMember(i, Broken(mcache[i])) /\ mcache[i] = members[i]
      BY <1>2 DEF RepairMember, Repairing, CacheAgrees
  <2>2. mc \in MemberWorker /\ members \in [Members -> Member]
      BY DEF TypeOK, MemberWorkerTypeOK, StoreTypeOK
  <2>3. ~members[i].spec.broken
      BY <2>1 DEF RepairUnderWay, RepairStops
  <2>4. Broken(mcache[i]).status = members[i].status /\ Broken(mcache[i]).spec.broken
      BY <2>1, <2>2 DEF Broken, Member, MemberSpec
  <2>5. members' = [members EXCEPT ![i] = Broken(mcache[i])]
      BY <2>1 DEF UpdateMember, StoreMember
  <2>6. /\ WorkerKept
        /\ mc.pc # "idle" /\ mc.m = i => ~mc'.fresh
      BY <2>1, <2>2, <2>3, <2>4 DEF UpdateMember, WorkerKept, MemberWorker
  <2>7. Marks(i)
      BY <1>2, <2>1, <2>2, <2>3, <2>4, <2>5, <2>6 DEF Marks
  <2>8. \A k \in Members : k # i => Keeps(k)
      BY <2>2, <2>5 DEF Keeps
  <2> QED
      BY <2>6, <2>7, <2>8
<1> QED
    BY <1>1, <1>2

LEMMA CreateChanges ==
    ASSUME TypeOK, cc.obj \in Cluster, NEW created, CreateMembers(created), UNCHANGED mc,
           \A i \in created : i \in NotCached /\ members[i].status.phase = "Absent"
    PROVE  WorkerKept /\ \A k \in Members : Keeps(k) \/ Creates(k)
<1>1. /\ MemberTemplate(cc.obj).spec.broken = FALSE
      /\ MemberTemplate(cc.obj).status = [AbsentMember.status EXCEPT !.phase = "None"]
    BY AbsentMemberType DEF MemberTemplate, AbsentMember, Member
<1> HIDE DEF MemberTemplate
<1> QED
    BY <1>1 DEF CreateMembers, WorkerKept, Keeps, Creates, NotCached

LEMMA ClusterEffect ==
    ASSUME TypeOK, Repairing, ClusterReconcile PROVE ClusterChanges
<1>0. UNCHANGED <<mcache, pods, pcache, pvcs, etcd, now>>
    BY DEF ClusterReconcile, ClusterWorkerStep, ClusterWorkerFault, GetCluster, EnsureInfra,
        EnsureMembers, EnsureMembersAlreadyExists, EnsureMembersCallFails, PanicAt,
        RepairWaits, RepairDeclined, RepairMember, UpdateMemberWaits, UpdateMemberVersion,
        UpdateMemberCertificate, UpdateMemberDone, ClusterCallFails, ClusterStatusUpdate,
        ClusterStatusUpdateFails, ownedUnchanged
<1>1. CASE \E i \in Members : RepairMember(i)
    BY <1>0, <1>1, RepairMemberChanges DEF ClusterChanges
<1>2. CASE UpdateMemberVersion \/ UpdateMemberCertificate
  <2>1. cc.i \in Members /\ Current = mcache[cc.i] /\ Current \in Member
      BY <1>2 DEF UpdateMemberVersion, UpdateMemberCertificate, TypeOK, ClusterWorkerTypeOK,
          StoreTypeOK, Current
  <2>2. /\ WithVersion(Current).status = Current.status
        /\ WithVersion(Current).spec.broken = Current.spec.broken
        /\ WithCertificateUpdate(Current).status = Current.status
        /\ WithCertificateUpdate(Current).spec.broken = Current.spec.broken
      BY <2>1 DEF WithVersion, WithCertificateUpdate, Member, MemberSpec
  <2>3. \/ UNCHANGED <<members, mlag, mc>>
        \/ /\ cc.i \notin mlag
           /\ \/ UpdateMember(cc.i, WithVersion(Current))
              \/ UpdateMember(cc.i, WithCertificateUpdate(Current))
      BY <1>2 DEF UpdateMemberVersion, UpdateMemberCertificate
  <2>4. WorkerKept /\ \A k \in Members : Keeps(k)
      BY <2>1, <2>2, <2>3, UpdateKeeps DEF WorkerKept, Keeps, Repairing
  <2> QED
      BY <1>0, <2>4 DEF ClusterChanges
<1>3. CASE EnsureMembers \/ EnsureMembersAlreadyExists \/ EnsureMembersCallFails
  <2>1. PICK created : /\ CreateMembers(created) /\ UNCHANGED mc
                       /\ created \subseteq NotCached /\ created \cap AlreadyExisting = {}
    <3>1. CASE EnsureMembers
        BY <3>1 DEF EnsureMembers
    <3>2. CASE EnsureMembersAlreadyExists \/ EnsureMembersCallFails
      <4>1. PICK n \in NotCached : PanicAt(n) /\ \A i \in AlreadyExisting : n <= i
          BY <3>2, SizeAssumption DEF EnsureMembersAlreadyExists, EnsureMembersCallFails,
              AlreadyExisting, NotCached, Members
      <4>2. \A i \in AlreadyExisting : ~(i < n)
          BY <4>1, SizeAssumption DEF AlreadyExisting, NotCached, Members
      <4> QED
          BY <4>1, <4>2 DEF PanicAt
    <3> QED
        BY <1>3, <3>1, <3>2
  <2>2. \A i \in created : i \in NotCached /\ members[i].status.phase = "Absent"
      BY <2>1 DEF AlreadyExisting
  <2>3. cc.obj \in Cluster
      BY <1>3, HeldCluster DEF EnsureMembers, EnsureMembersAlreadyExists,
          EnsureMembersCallFails, TypeOK
  <2> QED
      BY <1>0, <2>1, <2>2, <2>3, CreateChanges DEF ClusterChanges
<1>4. CASE UNCHANGED <<members, mc>>
    BY <1>0, <1>4 DEF ClusterChanges, WorkerKept, Keeps
<1> QED
    BY <1>1, <1>2, <1>3, <1>4
       DEF ClusterReconcile, ClusterWorkerStep, ClusterWorkerFault, GetCluster, EnsureInfra,
        RepairWaits, RepairDeclined, UpdateMemberWaits, UpdateMemberDone, ClusterCallFails,
        ClusterStatusUpdate, ClusterStatusUpdateFails, storeUnchanged

-----------------------------------------------------------------------------
(* Who marks, and when *)

\* Only RepairMembers marks, and it decides on what the caches show then.
LEMMA OnlyClusterMarks ==
    ASSUME TypeOK, Repairing, [Next]_vars, NEW m \in Members, MarkedBroken(m)
    PROVE  Marks(m) /\ Settled /\ ClusterReconcile
<1>1. CASE MemberReconcile
    BY <1>1, MemberMarksNone DEF MarksNone, MarkedBroken
<1>2. CASE Sync \/ EnvironmentStep \/ UNCHANGED vars
  <2>1. UNCHANGED members
      BY <1>2 DEF Sync, SyncCluster, SyncMembers, SyncPods, EnvironmentStep, ChangeVersion,
          Tick, Crash, RestartOnPanic, RestartManager, KubeletStep, Mishap, PodReady,
          PodRecovers, Serve, PodFails, PodEvicted, PodGone, PvcGone, IssueCertificates,
          RenewCertificate, podUnchanged, certUnchanged, vars
  <2> QED
      BY <2>1 DEF MarkedBroken
<1>3. CASE Settled /\ ClusterReconcile
  <2>1. ClusterChanges
      BY <1>3, ClusterEffect
  <2> QED
      BY <1>3, <2>1 DEF ClusterChanges, Keeps, Creates, MarkedBroken
<1> QED
    BY <1>1, <1>2, <1>3 DEF Next, Step

LEMMA FailedCount ==
    Cardinality(FailedNow) \in Nat
<1>1. IsFiniteSet(Members)
    BY FS_Interval, SizeAssumption DEF Members
<1>2. FailedNow \subseteq Members
    BY DEF FailedNow
<1> QED
    BY <1>1, <1>2, FS_Subset, FS_CardinalityType

\* A member is marked while fewer than half of the members are failed, for any
\* size, any number of failures, faults and restarts: EnsureMembers found a minor
\* failure earlier, RepairMembers counts again (cluster_controller.go:97, 323).
\* It counts what the cache shows: one failure the cache does not show yet may
\* make the majority, so the cache of the members must not lag here.
THEOREM RepairsOnlyMinority ==
    ASSUME "members" \notin Lagging PROVE Spec => RepairOnlyMinority
<1>1. ASSUME TypeOK, Repairing, [Next]_vars, NEW m \in Members, MarkedBroken(m)
      PROVE  2 * Cardinality(FailedNow) < Size
  <2>1. Marks(m) /\ mlag = {}
      BY <1>1, OnlyClusterMarks DEF Settled
  <2>2. \A i \in Members : mcache[i] = members[i]
      BY <1>1, <2>1 DEF Repairing, CacheAgrees
  <2>3. {i \in Members : mcache[i].status.phase = "Failed"} = FailedNow
      BY <2>2 DEF FailedNow
  <2>4. ~(2 * Cardinality(FailedNow) > Size)
      BY <2>1, <2>3 DEF Marks, TooManyFailed
  <2> QED
      BY <2>4, FailedCount, SizeAssumption
<1>2. TypeOK /\ Repairing /\ [Next]_vars => 
        [\A m \in Members : MarkedBroken(m) => 2 * Cardinality(FailedNow) < Size]_vars
    BY <1>1
<1>3. Init => Repairing
    BY InitRepairing
<1>4. TypeOK /\ Repairing /\ [Next]_vars => Repairing'
    BY RepairingInductive
<1> QED
    BY <1>2, <1>3, <1>4, TypeCorrect, PTL DEF Spec, RepairOnlyMinority

-----------------------------------------------------------------------------
(* What the member controller does to the status of a member *)

LEMMA ObjectFields ==
    ASSUME NEW obj \in Member
    PROVE  /\ Recreated(obj).status.phase = "Recreating"
           /\ Recreated(obj).status.failedTime = 0
           /\ Recreated(obj).spec = obj.spec
           /\ Mended(obj).status = obj.status
           /\ ~Mended(obj).spec.broken
           /\ \A m : /\ Checked(obj, m).status.phase = obj.status.phase
                     /\ Checked(obj, m).status.failedTime = obj.status.failedTime
<1>1. \A e : /\ [obj EXCEPT !.status.certificateExpires = e].status.phase = obj.status.phase
             /\ [obj EXCEPT !.status.certificateExpires = e].status.failedTime
                  = obj.status.failedTime
    BY DEF Member, MemberStatus
<1> QED
    BY <1>1 DEF Recreated, Mended, Checked, Member, MemberStatus, MemberSpec

\* A status the member controller turns into another one: a failure is dated
\* with the clock, and a date is only read while the phase is Failed.
Ages(old, new) ==
    \/ new.phase = old.phase /\ new.failedTime = old.failedTime
    \/ new.phase # "Failed" /\ new.failedTime \in {0, old.failedTime}
    \/ new.phase = "Failed" /\ new.failedTime = now

LEMMA ObjectAges ==
    ASSUME NEW obj \in Member
    PROVE  /\ Ages(obj.status, Recreated(obj).status)
           /\ Ages(obj.status, Mended(obj).status)
           /\ \A m : Ages(obj.status, Checked(obj, m).status)
           /\ Ages(obj.status, [obj EXCEPT !.status.phase = "Updating"].status)
           /\ Ages(obj.status, PodCreated(obj).status)
           /\ \A pod : Ages(obj.status, PodObserved(obj, pod).status)
<1>1. Ages(obj.status, SetFailed(obj).status)
    BY DEF SetFailed, Member, MemberStatus, Ages
<1>2. Ages(obj.status, obj.status)
    BY DEF Ages
<1>3. Ages(obj.status, [obj EXCEPT !.status.phase = "Updating"].status)
    BY DEF Member, MemberStatus, Ages
<1>4. Ages(obj.status,
           [obj EXCEPT !.status.phase = "Running", !.status.version = obj.spec.version].status)
    BY DEF Member, MemberStatus, Ages
<1>5. Ages(obj.status, PodCreated(obj).status)
    BY <1>1, <1>2 DEF PodCreated
<1>6. \A pod : Ages(obj.status, PodObserved(obj, pod).status)
    BY <1>1, <1>2, <1>4 DEF PodObserved
<1> QED
    BY <1>3, <1>5, <1>6, ObjectFields DEF Ages

\* The four kinds of steps of the worker, as far as the status is concerned: it
\* reads a member, works on the one it holds, stores it and goes on, or ends.
Reads ==
    /\ mc.pc = "idle" /\ UNCHANGED <<members, mlag>>
    /\ \/ mc' = mc
       \/ \E m \in Members : /\ mc'.m = m /\ mc'.obj = mcache[m]
                             /\ mc'.fresh = (m \notin mlag)

Works ==
    /\ mc.pc # "idle" /\ UNCHANGED <<members, mlag>>
    /\ mc'.m = mc.m /\ mc'.fresh = mc.fresh /\ mc'.pc # "idle"
    /\ Ages(mc.obj.status, mc'.obj.status)

Stores ==
    /\ mc.pc # "idle" /\ mc.fresh
    /\ mc'.m = mc.m /\ mc'.fresh = mc.fresh /\ mc'.pc # "idle"
    /\ \A k \in Members \ {mc.m} : members'[k] = members[k]
    /\ mc'.obj.status = members'[mc.m].status
    /\ \/ members'[mc.m].status = members[mc.m].status
       \/ /\ members'[mc.m].status.phase = "Recreating"
          /\ members'[mc.m].status.failedTime = 0

Ends ==
    /\ mc.pc # "idle" /\ mc' = IdleMemberWorker
    /\ \A k \in Members \ {mc.m} : members'[k] = members[k]
    /\ \/ members' = members
       \/ mc.fresh /\ members'[mc.m].status = mc.obj.status

LEMMA ContinueFields ==
    ASSUME MemberWorkerTypeOK, NEW pc, NEW obj, Continue(pc, obj)
    PROVE  mc'.pc = pc /\ mc'.obj = obj /\ mc'.m = mc.m /\ mc'.fresh = mc.fresh
BY DEF MemberWorkerTypeOK, MemberWorker, Continue

LEMMA ReturnFields ==
    ASSUME MemberWorkerTypeOK, NEW result, NEW obj, Return(result, obj)
    PROVE  mc'.pc = "status" /\ mc'.obj = obj /\ mc'.m = mc.m /\ mc'.fresh = mc.fresh
BY DEF MemberWorkerTypeOK, MemberWorker, Return

LEMMA WorkerEffect ==
    ASSUME TypeOK, MemberReconcile
    PROVE  UNCHANGED <<mcache, now>> /\ (Reads \/ Works \/ Stores \/ Ends)
<1> USE DEF TypeOK
<1>0. UNCHANGED <<mcache, now>>
    BY MemberMarksNone DEF MarksNone
<1> SUFFICES Reads \/ Works \/ Stores \/ Ends
    BY <1>0
<1>h. ASSUME mc.pc # "idle" PROVE mc.m \in Members /\ mc.obj \in Member
    BY <1>h, Held
<1>1. ASSUME NEW m \in Members, GetMember(m) PROVE Reads
    BY <1>1 DEF GetMember, Reads
<1>2. ASSUME NEW pc, NEW obj, mc.pc # "idle", UNCHANGED <<members, mlag>>, pc # "idle",
             Ages(mc.obj.status, obj.status),
             Continue(pc, obj) \/ \E result : Return(result, obj)
      PROVE  Works
    BY <1>2, ContinueFields, ReturnFields DEF Works
<1>3. Ages(mc.obj.status, mc.obj.status)
    BY DEF Ages
<1>4. CASE \/ RepairDeletePod \/ RepairDeletePVC \/ ReaddRemove \/ ReaddAdd
           \/ ReaddAddReplyLost \/ EnsurePVC \/ MemberCallFails
    BY <1>2, <1>3, <1>4 DEF RepairDeletePod, RepairDeletePVC, ReaddRemove, ReaddAdd,
        ReaddAddReplyLost, EnsurePVC, MemberCallFails, AfterPVC
<1>5. CASE RepairStatusFails \/ RepairSpecFails
    BY <1>2, <1>5, <1>h, ObjectAges DEF RepairStatusFails, RepairSpecFails
<1>6. CASE Certificates
  <2>1. AfterCertificates(Checked(mc.obj, mc.m)) # "idle"
      BY DEF AfterCertificates, AfterPVC
  <2> QED
      BY <1>2, <1>3, <1>6, <1>h, <2>1, ObjectAges DEF Certificates
<1>7. CASE UpdatePod \/ EnsurePod
    BY <1>2, <1>3, <1>7, <1>h, ObjectAges DEF UpdatePod, EnsurePod
<1>8. CASE RepairStatus
  <2>1. mc.m \in Members /\ mc.obj \in Member
      BY <1>8, <1>h DEF RepairStatus
  <2>2. CASE ~mc.fresh
      BY <1>2, <1>8, <2>1, <2>2, ObjectAges DEF RepairStatus
  <2>3. CASE mc.fresh
    <3> DEFINE new == [members[mc.m] EXCEPT !.status = Recreated(mc.obj).status]
    <3>1. new.status = Recreated(mc.obj).status
        BY <2>1 DEF StoreTypeOK, Member
    <3>2. StoreMember(mc.m, new) /\ Continue("repairSpec", new) /\ mc.pc # "idle"
        BY <1>8, <2>3 DEF RepairStatus
    <3> HIDE DEF new
    <3>3. mc'.pc = "repairSpec" /\ mc'.obj = new /\ mc'.m = mc.m /\ mc'.fresh = mc.fresh
        BY <3>2, ContinueFields
    <3>4. members'[mc.m] = new /\ \A k \in Members \ {mc.m} : members'[k] = members[k]
        BY <2>1, <3>2 DEF StoreMember, StoreTypeOK
    <3> QED
        BY <2>1, <2>3, <3>1, <3>2, <3>3, <3>4, ObjectFields DEF Stores
  <2> QED
      BY <2>2, <2>3
<1>9. CASE RepairSpec
  <2>1. mc.m \in Members /\ mc.obj \in Member
      BY <1>9, <1>h DEF RepairSpec
  <2>2. CASE ~mc.fresh
      BY <1>2, <1>9, <2>1, <2>2, ObjectAges DEF RepairSpec
  <2>3. CASE mc.fresh
    <3> DEFINE new == [members[mc.m] EXCEPT !.spec = Mended(mc.obj).spec]
    <3>1. new.status = members[mc.m].status
        BY <2>1 DEF StoreTypeOK, Member
    <3>2. StoreMember(mc.m, new) /\ Continue("certificates", new) /\ mc.pc # "idle"
        BY <1>9, <2>3 DEF RepairSpec
    <3> HIDE DEF new
    <3>3. mc'.pc = "certificates" /\ mc'.obj = new /\ mc'.m = mc.m /\ mc'.fresh = mc.fresh
        BY <3>2, ContinueFields
    <3>4. members'[mc.m] = new /\ \A k \in Members \ {mc.m} : members'[k] = members[k]
        BY <2>1, <3>2 DEF StoreMember, StoreTypeOK
    <3> QED
        BY <2>1, <2>3, <3>1, <3>2, <3>3, <3>4 DEF Stores
  <2> QED
      BY <2>2, <2>3
<1>10. CASE MemberStatusUpdate
  <2>1. mc.m \in Members
      BY <1>10, <1>h DEF MemberStatusUpdate
  <2> DEFINE new == [members[mc.m] EXCEPT !.status = mc.obj.status]
  <2>2. new.status = mc.obj.status
      BY <2>1 DEF StoreTypeOK, Member
  <2>3. (mc.fresh /\ StoreMember(mc.m, new)) \/ UNCHANGED members
      BY <1>10 DEF MemberStatusUpdate
  <2> HIDE DEF new
  <2> QED
      BY <1>10, <2>1, <2>2, <2>3
         DEF MemberStatusUpdate, FinishMember, Ends, StoreMember, StoreTypeOK
<1>11. CASE MemberStatusUpdateFails
    BY <1>11 DEF MemberStatusUpdateFails, FinishMember, Ends
<1> QED
    BY <1>1, <1>4, <1>5, <1>6, <1>7, <1>8, <1>9, <1>10, <1>11
       DEF MemberReconcile, MemberWorkerStep, MemberWorkerFault

-----------------------------------------------------------------------------
(* Failures are stored in the order of their dates: only the worker of the  *)
(* member controller stores them, and it takes the time at the last moment. *)

SameFailure(a, b) ==
    a.status.phase = "Failed" /\ b.status.phase = "Failed"
    /\ a.status.failedTime = b.status.failedTime

FailedBy(obj, time) == obj.status.phase = "Failed" => obj.status.failedTime <= time

\* No failure is dated ahead of the clock.
DatedInPast ==
    /\ \A k \in Members : members[k].status.failedTime <= now /\ mcache[k].status.failedTime <= now
    /\ mc.obj.status.failedTime <= now

\* A failure the cache does not show is later than those it shows.
StoredLater ==
    \A j \in Members :
        members[j].status.phase = "Failed" /\ ~SameFailure(mcache[j], members[j]) =>
            \A i \in Members : FailedBy(mcache[i], members[j].status.failedTime)

\* A failure about to be stored is later than those that are.
HeldLater ==
    mc.pc # "idle" /\ mc.fresh /\ mc.obj.status.phase = "Failed" =>
        \/ SameFailure(members[mc.m], mc.obj)
        \/ \A i \in Members : /\ FailedBy(mcache[i], mc.obj.status.failedTime)
                              /\ FailedBy(members[i], mc.obj.status.failedTime)

Dated == DatedInPast /\ StoredLater /\ HeldLater

LEMMA TimesAreNumbers ==
    ASSUME TypeOK
    PROVE  /\ now \in Nat /\ mc.obj \in Member /\ mc.obj.status.failedTime \in Nat
           /\ \A k \in Members : /\ members[k].status.failedTime \in Nat
                                 /\ mcache[k].status.failedTime \in Nat
BY BoundAssumption
   DEF TypeOK, StoreTypeOK, BoundsOK, MemberWorkerTypeOK, MemberWorker, Member, MemberStatus, Times

LEMMA InitDated == TypeOK /\ Init => Dated
<1> SUFFICES ASSUME TypeOK, Init PROVE Dated
    OBVIOUS
<1>1. mcache = members /\ now = 1 /\ mc = IdleMemberWorker
    BY DEF Init
<1>2. \A m \in Members : members[m].status.failedTime = 0 /\ members[m].status.phase # "Failed"
  <2>1. PICK v, backup : InitRunning(v, backup) \/ InitCreated(v, backup)
      BY DEF Init
  <2> QED
      BY <2>1 DEF InitRunning, InitCreated, RunningMember, AbsentMember
<1> QED
    BY <1>1, <1>2 DEF Dated, DatedInPast, StoredLater, HeldLater, SameFailure, FailedBy,
        IdleMemberWorker, AbsentMember

LEMMA MemberDated ==
    ASSUME TypeOK, Repairing, Dated, MemberReconcile PROVE Dated'
<1>h. mc.pc # "idle" => mc.m \in Members
    BY Held DEF TypeOK
<1>0. UNCHANGED <<mcache, now>>
    BY WorkerEffect
<1>i. mc' = IdleMemberWorker => mc'.pc = "idle" /\ mc'.obj.status.failedTime = 0
    BY DEF IdleMemberWorker, AbsentMember
<1> USE DEF Dated, DatedInPast, StoredLater, HeldLater, SameFailure, FailedBy
<1>1. CASE Reads
    BY <1>0, <1>1, TimesAreNumbers DEF Reads, Repairing, CacheAgrees
<1>2. CASE Works
    BY <1>0, <1>2, <1>h, TimesAreNumbers DEF Works, Ages
<1>3. CASE Stores
    BY <1>0, <1>3, <1>h, TimesAreNumbers DEF Stores
<1>4. CASE Ends
    BY <1>0, <1>4, <1>h, <1>i, TimesAreNumbers DEF Ends
<1> QED
    BY <1>1, <1>2, <1>3, <1>4, WorkerEffect

LEMMA ClusterDated ==
    ASSUME TypeOK, Repairing, Dated, ClusterReconcile PROVE Dated'
<1>1. /\ UNCHANGED <<mcache, now>> /\ WorkerKept
      /\ \A k \in Members : \/ members'[k].status = members[k].status
                            \/ Creates(k)
    BY ClusterEffect DEF ClusterChanges, Keeps, Marks
<1>2. \A k \in Members : Creates(k) => /\ members[k].status.phase = "Absent"
                                       /\ members'[k].status.phase = "None"
                                       /\ members'[k].status.failedTime = 0
    BY DEF Creates, AbsentMember
<1>3. mc.pc # "idle" => mc.m \in Members
    BY Held DEF TypeOK
<1> QED
    BY <1>1, <1>2, <1>3, TimesAreNumbers
       DEF WorkerKept, Dated, DatedInPast, StoredLater, HeldLater, SameFailure, FailedBy

LEMMA OutsideDated ==
    ASSUME TypeOK, Dated, Sync \/ EnvironmentStep \/ UNCHANGED vars PROVE Dated'
<1> USE DEF Dated, DatedInPast, StoredLater, HeldLater, SameFailure, FailedBy
<1>1. CASE SyncMembers
    BY <1>1, TimesAreNumbers DEF SyncMembers, workersUnchanged
<1>2. CASE Crash \/ RestartOnPanic
    BY <1>2, TimesAreNumbers DEF Crash, RestartOnPanic, RestartManager, IdleMemberWorker,
        AbsentMember
<1>3. CASE Tick
    BY <1>3, TimesAreNumbers DEF Tick, workersUnchanged
<1>4. CASE \/ SyncCluster \/ SyncPods \/ ChangeVersion \/ UNCHANGED vars
           \/ \E m \in Members : KubeletStep(m) \/ Mishap(m)
  <2>1. UNCHANGED <<members, mcache, mc, now>>
      BY <1>4 DEF SyncCluster, SyncPods, ChangeVersion, vars, KubeletStep, Mishap, PodReady,
          PodRecovers, Serve, PodFails, PodEvicted, PodGone, PvcGone, IssueCertificates,
          RenewCertificate, podUnchanged, certUnchanged, workersUnchanged
  <2> QED
      BY <2>1
<1> QED
    BY <1>1, <1>2, <1>3, <1>4 DEF Sync, EnvironmentStep

LEMMA DatedInductive == TypeOK /\ Repairing /\ Dated /\ [Next]_vars => Dated'
BY MemberDated, ClusterDated, OutsideDated DEF Next, Step

\* The member marked is one that failed first among all those failed when the mark
\* is stored, whatever the cache of the members shows: the failures it does not
\* show yet are later than the one RepairMembers picks, and a mark decided on an
\* old member is refused (cluster_controller.go:314-330).
THEOREM MarksLongestFailed == Spec => LongestFailedFirst
<1>1. ASSUME TypeOK, Repairing, Dated, [Next]_vars, NEW m \in Members, MarkedBroken(m),
             NEW j \in FailedNow
      PROVE  members[m].status.failedTime <= members[j].status.failedTime
  <2>1. Oldest(m) /\ mcache[m] = members[m] /\ j \in Members
      BY <1>1, OnlyClusterMarks DEF Marks, FailedNow
  <2>2. CASE SameFailure(mcache[j], members[j])
      BY <1>1, <2>1, <2>2, TimesAreNumbers DEF Oldest, Overdue, SameFailure
  <2>3. CASE ~SameFailure(mcache[j], members[j])
      BY <1>1, <2>1, <2>3 DEF Oldest, Overdue, Dated, StoredLater, FailedBy, FailedNow
  <2> QED
      BY <2>2, <2>3
<1>2. TypeOK /\ Repairing /\ Dated /\ [Next]_vars =>
        [\A m \in Members : MarkedBroken(m) =>
            \A j \in FailedNow : members[m].status.failedTime <= members[j].status.failedTime]_vars
    BY <1>1
<1>3. Init => Repairing
    BY InitRepairing
<1>4. TypeOK /\ Repairing /\ [Next]_vars => Repairing'
    BY RepairingInductive
<1>5. TypeOK /\ Init => Dated
    BY InitDated
<1>6. TypeOK /\ Repairing /\ Dated /\ [Next]_vars => Dated'
    BY DatedInductive
<1> QED
    BY <1>2, <1>3, <1>4, <1>5, <1>6, TypeCorrect, PTL DEF Spec, LongestFailedFirst

-----------------------------------------------------------------------------
(* What happens outside the controllers *)

\* etcd starts, or goes on, in the pod of member k ...
PodServes(k) ==
    /\ pods[k].state \in {"starting", "unready"} /\ CanServe(k)
    /\ pods'[k].state = "ready" /\ pods'[k].restore = pods[k].restore
    /\ pvcs'[k] = "data" /\ etcd'[k] = "started"

\* ... or its pod goes on, loses its readiness or goes away, and so may its claim.
PodLives(k) ==
    /\ etcd'[k] = etcd[k]
    /\ pvcs'[k] = pvcs[k] \/ (pvcs[k] = "terminating" /\ pvcs'[k] = "none")
    /\ \/ pods'[k].state = pods[k].state /\ pods'[k].mode = pods[k].mode
       \/ pods'[k] = NoPod
       \/ pods[k].state = "ready" /\ pods'[k].state = "unready"
    /\ pods'[k].restore => pods[k].restore

OutsideChanges ==
    /\ UNCHANGED members
    /\ mc' = mc \/ mc' = IdleMemberWorker
    /\ mcache' = mcache \/ mcache' = members
    /\ \A k \in Members : PodServes(k) \/ PodLives(k)

LEMMA KubeletEffect ==
    ASSUME TypeOK, NEW m \in Members, KubeletStep(m) \/ Mishap(m)
    PROVE  UNCHANGED <<cluster, members, mcache, mlag, mc, now>>
           /\ \A k \in Members : PodServes(k) \/ PodLives(k)
<1>0. UNCHANGED <<cluster, members, mcache, mlag, mc, now>>
    BY DEF KubeletStep, Mishap, PodReady, PodRecovers, Serve, PodFails, PodEvicted, PodGone,
        PvcGone, IssueCertificates, RenewCertificate, podUnchanged, certUnchanged
<1>1. /\ pods \in [Members -> Pod] /\ pods[m] \in Pod
      /\ pvcs = [k \in Members |-> pvcs[k]] /\ etcd = [k \in Members |-> etcd[k]]
    BY DEF TypeOK, OwnedTypeOK
<1>2. CASE PodReady(m) \/ PodRecovers(m)
  <2>1. /\ pods[m].state \in {"starting", "unready"} /\ CanServe(m)
        /\ pods' = [pods EXCEPT ![m].state = "ready"]
        /\ pvcs' = [pvcs EXCEPT ![m] = "data"] /\ etcd' = [etcd EXCEPT ![m] = "started"]
      BY <1>2 DEF PodReady, PodRecovers, Serve
  <2>2. /\ [pods[m] EXCEPT !.state = "ready"].state = "ready"
        /\ [pods[m] EXCEPT !.state = "ready"].restore = pods[m].restore
      BY <1>1 DEF Pod
  <2>3. PodServes(m)
      BY <1>1, <2>1, <2>2 DEF PodServes
  <2>4. \A k \in Members \ {m} : PodLives(k)
      BY <1>1, <2>1 DEF PodLives
  <2> QED
      BY <1>0, <2>3, <2>4
<1>3. CASE PodFails(m) \/ PodEvicted(m)
  <2> DEFINE failed == [pods[m] EXCEPT !.state = "unready"]
             evicted == [pods[m] EXCEPT !.terminating = TRUE]
  <2>1. /\ failed.state = "unready" /\ failed.restore = pods[m].restore
        /\ evicted.state = pods[m].state /\ evicted.mode = pods[m].mode
        /\ evicted.restore = pods[m].restore
      BY <1>1 DEF Pod
  <2>2. /\ UNCHANGED <<pvcs, etcd>>
        /\ \/ pods[m].state = "ready" /\ pods' = [pods EXCEPT ![m] = failed]
           \/ pods' = [pods EXCEPT ![m] = evicted]
      BY <1>3 DEF PodFails, PodEvicted
  <2> HIDE DEF failed, evicted
  <2>3. \A k \in Members : PodLives(k)
      BY <1>1, <2>1, <2>2 DEF PodLives
  <2> QED
      BY <1>0, <2>3
<1>4. CASE PodGone(m) \/ PvcGone(m) \/ IssueCertificates(m)
  <2>1. NoPod.restore = FALSE
      BY DEF NoPod
  <2>2. \A k \in Members : PodLives(k)
      BY <1>1, <1>4, <2>1 DEF PodGone, PvcGone, IssueCertificates, podUnchanged, certUnchanged,
          PodLives
  <2> QED
      BY <1>0, <2>2
<1>5. ASSUME NEW suffix \in Suffixes, RenewCertificate(m, suffix) PROVE \A k \in Members : PodLives(k)
  <2>1. /\ Outdated(pods[m], suffix).state = pods[m].state
        /\ Outdated(pods[m], suffix).mode = pods[m].mode
        /\ Outdated(pods[m], suffix).restore = pods[m].restore
      BY <1>1 DEF Outdated, Pod
  <2> QED
      BY <1>1, <1>5, <2>1 DEF RenewCertificate, certUnchanged, PodLives
<1>6. \/ PodReady(m) \/ PodRecovers(m) \/ PodFails(m) \/ PodEvicted(m)
      \/ PodGone(m) \/ PvcGone(m) \/ IssueCertificates(m)
      \/ \E suffix \in Suffixes : RenewCertificate(m, suffix)
    BY DEF KubeletStep, Mishap
<1> QED
    BY <1>0, <1>2, <1>3, <1>4, <1>5, <1>6

LEMMA OutsideEffect ==
    ASSUME TypeOK, Sync \/ EnvironmentStep \/ UNCHANGED vars PROVE OutsideChanges
<1>1. CASE Sync \/ ChangeVersion \/ Tick \/ Crash \/ RestartOnPanic \/ UNCHANGED vars
    BY <1>1 DEF Sync, SyncCluster, SyncMembers, SyncPods, ChangeVersion, Tick, Crash,
        RestartOnPanic, RestartManager, workersUnchanged, vars, OutsideChanges, PodLives
<1>2. CASE \E m \in Members : KubeletStep(m) \/ Mishap(m)
    BY <1>2, KubeletEffect DEF OutsideChanges
<1> QED
    BY <1>1, <1>2 DEF EnvironmentStep

-----------------------------------------------------------------------------
(* What a mark stands for.  A mark may be gone from the store and still in  *)
(* the cache, or the other way round, and the worker may hold either: the   *)
(* invariant says of each case how far the member is taken apart.           *)

RepairSteps == {"deletePod", "deletePVC", "memberRemove", "memberAdd", "repairStatus", "repairSpec"}
BuildSteps  == {"certificates", "pvc", "updatePod", "pod"}

MayBeBroken(obj) == obj.status.phase \in {"Failed", "Recreating"}

\* Its data is gone and nothing makes new data before the mark is.
Wiped(m) ==
    /\ etcd[m] = "added" /\ pvcs[m] # "data"
    /\ pods[m].state \in {"none", "starting"}
    /\ pods[m].state = "starting" => pvcs[m] = "none"

MarkStands ==
    \A m \in Members :
        /\ members[m].spec.broken => MayBeBroken(members[m])
        /\ mcache[m].spec.broken => MayBeBroken(mcache[m])

\* The cache shows a mark that is not stored any more.
StaleMark == \A m \in Members : mcache[m].spec.broken /\ ~members[m].spec.broken => Wiped(m)

\* The worker repairs a member whose mark is not stored any more.
StaleRepair ==
    mc.pc \in RepairSteps /\ ~members[mc.m].spec.broken =>
        Wiped(mc.m) /\ mc.pc \notin {"repairStatus", "repairSpec"}

\* The steps of Repair taken so far have had their effect.
TakenApart ==
    /\ mc.pc \in RepairSteps \ {"deletePod"} => pods[mc.m].state = "none"
    /\ mc.pc \in RepairSteps \ {"deletePod", "deletePVC"} => pvcs[mc.m] = "none"
    /\ mc.pc \in {"repairStatus", "repairSpec"} => etcd[mc.m] = "added"
    /\ mc.pc = "repairSpec" => mc.obj.status.phase = "Recreating"

\* What a worker knows whose member is still the stored one.
FreshRead ==
    mc.pc # "idle" /\ mc.fresh =>
        /\ mc.pc \in RepairSteps => members[mc.m].spec.broken
        /\ members[mc.m].spec.broken => mcache[mc.m].spec.broken

\* What it holds, and where it is, when the mark is stored.
FreshBroken ==
    mc.pc # "idle" /\ mc.fresh /\ members[mc.m].spec.broken =>
        /\ MayBeBroken(mc.obj)
        /\ \/ mc.pc \in RepairSteps \cup {"status"}
           \/ /\ mc.pc \in {"certificates", "pvc"} /\ pvcs[mc.m] = "none"
              /\ mc.obj.status.phase = "Recreating"

\* The worker goes on after the repair while the cache still shows the mark.
AfterRepair ==
    mc.pc \in BuildSteps /\ mcache[mc.m].spec.broken /\ ~members[mc.m].spec.broken =>
        /\ pods[mc.m].state = "none" /\ pvcs[mc.m] = "none" /\ etcd[mc.m] = "added"
        /\ MayBeBroken(mc.obj)
        /\ mc.pc # "updatePod"
        /\ mc.pc = "pod" => mc.obj.status.phase = "Failed"

MarkMeans ==
    /\ MarkStands /\ StaleMark
    /\ StaleRepair /\ TakenApart /\ FreshRead /\ FreshBroken /\ AfterRepair

LEMMA InitMarkMeans == Init => MarkMeans
<1> SUFFICES ASSUME Init PROVE MarkMeans
    OBVIOUS
<1>1. \A m \in Members : members[m].spec.broken = FALSE
  <2>1. PICK v, backup : InitRunning(v, backup) \/ InitCreated(v, backup)
      BY DEF Init
  <2> QED
      BY <2>1 DEF InitRunning, InitCreated, RunningMember, AbsentMember
<1>2. mcache = members /\ mc.pc = "idle"
    BY DEF Init, IdleMemberWorker
<1> QED
    BY <1>1, <1>2 DEF MarkMeans, MarkStands, StaleMark, StaleRepair, TakenApart, FreshRead,
        FreshBroken, AfterRepair, RepairSteps, BuildSteps

LEMMA OutsideMarkMeans ==
    ASSUME TypeOK, MarkMeans, OutsideChanges PROVE MarkMeans'
<1>1. \A k \in Members : Wiped(k) => Wiped(k)'
    BY DEF OutsideChanges, PodServes, PodLives, CanServe, Wiped, NoPod
<1>2. \A k \in Members :
        /\ pods[k].state = "none" => pods'[k].state = "none" /\ etcd'[k] = etcd[k]
        /\ pvcs[k] = "none" => pvcs'[k] = "none"
    BY DEF OutsideChanges, PodServes, PodLives, CanServe, NoPod
<1>i. mc' = IdleMemberWorker => mc'.pc = "idle"
    BY DEF IdleMemberWorker
<1>h. mc.pc # "idle" => mc.m \in Members
    BY Held DEF TypeOK
<1>3. UNCHANGED members /\ (mc' = mc \/ mc'.pc = "idle") /\ (mcache' = mcache \/ mcache' = members)
    BY <1>i DEF OutsideChanges
<1>4. MarkStands' /\ StaleMark'
    BY <1>1, <1>3 DEF MarkMeans, MarkStands, StaleMark, MayBeBroken
<1>5. CASE mc'.pc = "idle"
    BY <1>4, <1>5 DEF MarkMeans, StaleRepair, TakenApart, FreshRead, FreshBroken, AfterRepair,
        RepairSteps, BuildSteps
<1>6. CASE mc' = mc /\ mc.pc # "idle"
  <2>1. TakenApart'
      BY <1>2, <1>6, <1>h DEF MarkMeans, TakenApart, RepairSteps
  <2>2. StaleRepair' /\ AfterRepair'
      BY <1>1, <1>2, <1>3, <1>6, <1>h DEF MarkMeans, StaleRepair, AfterRepair, RepairSteps,
          BuildSteps, MayBeBroken
  <2>3. FreshRead'
      BY <1>3, <1>6, <1>h DEF MarkMeans, FreshRead, RepairSteps
  <2>4. FreshBroken'
      BY <1>2, <1>3, <1>6, <1>h DEF MarkMeans, FreshBroken, RepairSteps, MayBeBroken
  <2> QED
      BY <1>4, <2>1, <2>2, <2>3, <2>4 DEF MarkMeans
<1> QED
    BY <1>3, <1>5, <1>6

LEMMA ClusterMarkMeans ==
    ASSUME TypeOK, MarkMeans, ClusterChanges PROVE MarkMeans'
<1>1. UNCHANGED <<mcache, pods, pvcs, etcd>>
    BY DEF ClusterChanges
<1>2. \A k \in Members : Wiped(k) <=> Wiped(k)'
    BY <1>1 DEF Wiped
<1>3. /\ mc'.pc = mc.pc /\ mc'.m = mc.m /\ mc'.obj = mc.obj /\ (mc'.fresh => mc.fresh)
      /\ mc.pc # "idle" => mc.m \in Members
    BY Held DEF TypeOK, ClusterChanges, WorkerKept
<1>4. \A k \in Members :
        \/ /\ members'[k].status = members[k].status
           /\ members'[k].spec.broken = members[k].spec.broken
        \/ /\ ~MayBeBroken(members[k]) /\ ~MayBeBroken(mcache[k]) /\ ~members'[k].spec.broken
        \/ /\ members'[k].spec.broken /\ MayBeBroken(members[k])
           /\ members'[k].status = members[k].status
           /\ mc.pc # "idle" /\ mc.m = k => ~mc'.fresh
    BY DEF ClusterChanges, Keeps, Creates, Marks, Oldest, Overdue, MayBeBroken
<1>5. MarkStands' /\ StaleMark'
    BY <1>1, <1>2, <1>4 DEF MarkMeans, MarkStands, StaleMark, MayBeBroken
<1>6. TakenApart'
    BY <1>1, <1>3 DEF MarkMeans, TakenApart, RepairSteps
<1>7. StaleRepair' /\ AfterRepair'
    BY <1>1, <1>2, <1>3, <1>4 DEF MarkMeans, MarkStands, StaleRepair, AfterRepair, MayBeBroken,
        RepairSteps, BuildSteps
<1>8. FreshRead' /\ FreshBroken'
    BY <1>1, <1>3, <1>4 DEF MarkMeans, MarkStands, FreshRead, FreshBroken, MayBeBroken,
        RepairSteps
<1> QED
    BY <1>5, <1>6, <1>7, <1>8 DEF MarkMeans

LEMMA GetMemberMarkMeans ==
    ASSUME TypeOK, Repairing, MarkMeans, NEW m \in Members, GetMember(m) PROVE MarkMeans'
<1>1. UNCHANGED <<members, mcache, pods, pvcs, etcd>>
    BY DEF GetMember, objectsUnchanged
<1>2. MarkStands' /\ StaleMark'
    BY <1>1 DEF MarkMeans, MarkStands, StaleMark, MayBeBroken, Wiped
<1>3. \/ mc' = mc /\ mc.pc = "idle"
      \/ /\ mc'.m = m /\ mc'.obj = mcache[m]
         /\ mc'.fresh = (m \notin mlag)
         /\ mc'.pc = IF mcache[m].spec.broken THEN "deletePod" ELSE "certificates"
    BY DEF GetMember
<1>4. m \notin mlag => mcache[m] = members[m]
    BY DEF Repairing, CacheAgrees
<1>5. CASE mc' = mc /\ mc.pc = "idle"
    BY <1>2, <1>5 DEF MarkMeans, StaleRepair, TakenApart, FreshRead, FreshBroken, AfterRepair,
        RepairSteps, BuildSteps
<1>6. CASE mc'.m = m /\ mcache[m].spec.broken /\ mc'.pc = "deletePod"
  <2>1. StaleRepair'
      BY <1>1, <1>6 DEF MarkMeans, StaleMark, StaleRepair, Wiped
  <2>2. TakenApart' /\ AfterRepair'
      BY <1>6 DEF TakenApart, AfterRepair, RepairSteps, BuildSteps
  <2>3. FreshRead' /\ FreshBroken'
      BY <1>1, <1>3, <1>4, <1>6 DEF MarkMeans, MarkStands, FreshRead, FreshBroken, RepairSteps,
          MayBeBroken
  <2> QED
      BY <1>2, <2>1, <2>2, <2>3 DEF MarkMeans
<1>7. CASE mc'.m = m /\ ~mcache[m].spec.broken /\ mc'.pc = "certificates"
  <2>1. StaleRepair' /\ TakenApart' /\ AfterRepair'
      BY <1>1, <1>7 DEF StaleRepair, TakenApart, AfterRepair, RepairSteps
  <2>2. mc'.fresh => ~members[m].spec.broken
      BY <1>3, <1>4, <1>7
  <2>3. FreshRead' /\ FreshBroken'
      BY <1>1, <1>7, <2>2 DEF FreshRead, FreshBroken, RepairSteps
  <2> QED
      BY <1>2, <2>1, <2>3 DEF MarkMeans
<1> QED
    BY <1>3, <1>5, <1>6, <1>7

\* The steps of Repair before its writes.
LEMMA RepairStepMarkMeans ==
    ASSUME TypeOK, MarkMeans,
           \/ RepairDeletePod \/ RepairDeletePVC \/ ReaddRemove \/ ReaddAdd \/ ReaddAddReplyLost
    PROVE  MarkMeans'
<1>1. UNCHANGED <<members, mcache>>
    BY DEF RepairDeletePod, RepairDeletePVC, ReaddRemove, ReaddAdd, ReaddAddReplyLost,
        objectsUnchanged
<1>2. /\ mc.pc \in RepairSteps \ {"repairStatus", "repairSpec"} /\ mc.m \in Members
      /\ MemberWorkerTypeOK
    BY Held DEF RepairDeletePod, RepairDeletePVC, ReaddRemove, ReaddAdd, ReaddAddReplyLost,
        RepairSteps, TypeOK
<1>3. /\ mc'.m = mc.m /\ mc'.fresh = mc.fresh /\ mc'.obj = mc.obj
      /\ mc'.pc \in (RepairSteps \ {"repairSpec"}) \cup {"status"}
      /\ mc'.pc = "repairStatus" => MemberAddAccepted
    BY <1>2, ContinueFields, ReturnFields DEF RepairDeletePod, RepairDeletePVC, ReaddRemove,
        ReaddAdd, ReaddAddReplyLost, RepairSteps
<1>4. TakenApart'
  <2>1. CASE RepairDeletePod
      BY <1>2, <2>1, ContinueFields, ReturnFields DEF RepairDeletePod, TakenApart, RepairSteps
  <2>2. CASE RepairDeletePVC
      BY <1>2, <2>2, ContinueFields, ReturnFields
         DEF MarkMeans, RepairDeletePVC, TakenApart, RepairSteps
  <2>3. CASE ReaddRemove
      BY <1>2, <2>3, ContinueFields, ReturnFields
         DEF MarkMeans, ReaddRemove, TakenApart, RepairSteps
  <2>4. CASE ReaddAdd
      BY <1>2, <2>4, ContinueFields, ReturnFields
         DEF MarkMeans, ReaddAdd, TakenApart, RepairSteps, TypeOK, OwnedTypeOK
  <2>5. CASE ReaddAddReplyLost
      BY <1>2, <2>5, ReturnFields DEF ReaddAddReplyLost, TakenApart, RepairSteps
  <2> QED
      BY <2>1, <2>2, <2>3, <2>4, <2>5
<1>5. \A k \in Members : Wiped(k) => Wiped(k)'
  <2>1. CASE RepairDeletePod
    <3>1. \A k \in Members : pods'[k].state = pods[k].state
        BY <2>1, <1>2 DEF RepairDeletePod, DeletePod, TypeOK, OwnedTypeOK, Pod
    <3> QED
        BY <2>1, <3>1 DEF RepairDeletePod, Wiped
  <2>2. CASE RepairDeletePVC
      BY <1>2, <2>2 DEF MarkMeans, TakenApart, RepairSteps, RepairDeletePVC, Wiped, TypeOK,
          OwnedTypeOK
  <2>3. CASE ReaddRemove \/ ReaddAdd \/ ReaddAddReplyLost
      BY <1>2, <2>3 DEF ReaddRemove, ReaddAdd, ReaddAddReplyLost, MemberAddAccepted, Wiped,
          TypeOK, OwnedTypeOK
  <2> QED
      BY <2>1, <2>2, <2>3
<1>6. MarkStands' /\ StaleMark'
    BY <1>1, <1>5 DEF MarkMeans, MarkStands, StaleMark, MayBeBroken
<1>7. StaleRepair'
    BY <1>1, <1>2, <1>3, <1>5
       DEF MarkMeans, StaleRepair, RepairSteps, Wiped, MemberAddAccepted
<1>8. FreshRead' /\ FreshBroken' /\ AfterRepair'
    BY <1>1, <1>2, <1>3
       DEF MarkMeans, FreshRead, FreshBroken, AfterRepair, RepairSteps, BuildSteps, MayBeBroken
<1> QED
    BY <1>4, <1>6, <1>7, <1>8 DEF MarkMeans

\* The two writes of Repair.
LEMMA RepairStatusMarkMeans ==
    ASSUME TypeOK, MarkMeans, RepairStatus \/ RepairStatusFails PROVE MarkMeans'
<1>1. UNCHANGED <<mcache, pods, pvcs, etcd>> /\ mc.pc = "repairStatus"
    BY DEF RepairStatus, RepairStatusFails, objectsUnchanged
<1>2. mc.m \in Members /\ mc.obj \in Member /\ MemberWorkerTypeOK /\ members \in [Members -> Member]
    BY <1>1, Held DEF TypeOK, StoreTypeOK
<1> DEFINE new == [members[mc.m] EXCEPT !.status = Recreated(mc.obj).status]
<1>3. new.spec = members[mc.m].spec /\ new.status.phase = "Recreating"
    BY <1>2, ObjectFields DEF Member
<1>4. \/ StoreMember(mc.m, new) /\ Continue("repairSpec", new)
      \/ UNCHANGED members /\ Continue("repairSpec", Recreated(mc.obj))
    BY DEF RepairStatus, RepairStatusFails
<1> HIDE DEF new
<1>5. /\ mc'.pc = "repairSpec" /\ mc'.m = mc.m /\ mc'.fresh = mc.fresh
      /\ mc'.obj.status.phase = "Recreating"
    BY <1>2, <1>3, <1>4, ContinueFields, ObjectFields
<1>6. /\ \A k \in Members \ {mc.m} : members'[k] = members[k]
      /\ members'[mc.m].spec = members[mc.m].spec
      /\ members'[mc.m] = members[mc.m] \/ MayBeBroken(members'[mc.m])
    BY <1>2, <1>3, <1>4 DEF StoreMember, MayBeBroken
<1>7. MarkStands' /\ StaleMark'
    BY <1>1, <1>6 DEF MarkMeans, MarkStands, StaleMark, MayBeBroken, Wiped
<1>8. members[mc.m].spec.broken
    BY <1>1 DEF MarkMeans, StaleRepair, RepairSteps
<1>9. StaleRepair' /\ AfterRepair'
    BY <1>2, <1>5, <1>6, <1>8 DEF StaleRepair, AfterRepair, RepairSteps, BuildSteps
<1>10. TakenApart'
    BY <1>1, <1>5 DEF MarkMeans, TakenApart, RepairSteps
<1>11. FreshRead' /\ FreshBroken'
    BY <1>1, <1>2, <1>5, <1>6 DEF MarkMeans, FreshRead, FreshBroken, RepairSteps, MayBeBroken
<1> QED
    BY <1>7, <1>9, <1>10, <1>11 DEF MarkMeans

LEMMA RepairSpecMarkMeans ==
    ASSUME TypeOK, MarkMeans, RepairSpec \/ RepairSpecFails PROVE MarkMeans'
<1>1. UNCHANGED <<mcache, pods, pvcs, etcd>> /\ mc.pc = "repairSpec"
    BY DEF RepairSpec, RepairSpecFails, objectsUnchanged
<1>2. mc.m \in Members /\ mc.obj \in Member /\ MemberWorkerTypeOK /\ members \in [Members -> Member]
    BY <1>1, Held DEF TypeOK, StoreTypeOK
<1>3. /\ members[mc.m].spec.broken /\ MayBeBroken(members[mc.m])
      /\ pods[mc.m].state = "none" /\ pvcs[mc.m] = "none" /\ etcd[mc.m] = "added"
      /\ mc.obj.status.phase = "Recreating"
    BY <1>1, <1>2 DEF MarkMeans, StaleRepair, TakenApart, MarkStands, RepairSteps
<1>4. Wiped(mc.m) /\ Wiped(mc.m)'
    BY <1>1, <1>2, <1>3, ContinueFields DEF Wiped, RepairSpec, RepairSpecFails
<1> DEFINE new == [members[mc.m] EXCEPT !.spec = Mended(mc.obj).spec]
<1>5. new.status = members[mc.m].status /\ ~new.spec.broken
    BY <1>2, ObjectFields DEF Member
<1>6. \/ StoreMember(mc.m, new) /\ Continue("certificates", new)
      \/ UNCHANGED members /\ Continue("certificates", Mended(mc.obj))
    BY DEF RepairSpec, RepairSpecFails
<1> HIDE DEF new
<1>7. mc'.pc = "certificates" /\ mc'.m = mc.m /\ mc'.fresh = mc.fresh
    BY <1>6, <1>2, ContinueFields
<1>8. TakenApart' /\ StaleRepair'
    BY <1>7 DEF TakenApart, StaleRepair, RepairSteps
<1>9. CASE UNCHANGED members /\ Continue("certificates", Mended(mc.obj))
  <2>1. mc'.obj.status.phase = "Recreating"
      BY <1>2, <1>3, <1>9, ContinueFields, ObjectFields
  <2>2. MarkStands' /\ StaleMark' /\ FreshRead'
      BY <1>1, <1>7, <1>9 DEF MarkMeans, MarkStands, StaleMark, FreshRead, RepairSteps,
          MayBeBroken, Wiped
  <2>3. FreshBroken' /\ AfterRepair'
      BY <1>1, <1>3, <1>7, <1>9, <2>1 DEF FreshBroken, AfterRepair, BuildSteps, MayBeBroken
  <2> QED
      BY <1>8, <2>2, <2>3 DEF MarkMeans
<1>10. CASE StoreMember(mc.m, new) /\ Continue("certificates", new)
  <2>1. /\ members'[mc.m] = new /\ mc'.obj = new
        /\ \A k \in Members \ {mc.m} : members'[k] = members[k]
      BY <1>2, <1>10, ContinueFields DEF StoreMember
  <2>2. MarkStands' /\ StaleMark'
      BY <1>1, <1>4, <1>5, <2>1 DEF MarkMeans, MarkStands, StaleMark, MayBeBroken, Wiped
  <2>3. FreshRead' /\ FreshBroken'
      BY <1>5, <1>7, <2>1 DEF FreshRead, FreshBroken, RepairSteps
  <2>4. AfterRepair'
      BY <1>1, <1>3, <1>5, <1>7, <2>1 DEF AfterRepair, MayBeBroken
  <2> QED
      BY <1>8, <2>2, <2>3, <2>4 DEF MarkMeans
<1> QED
    BY <1>6, <1>9, <1>10

\* The steps after Repair: what the worker holds of a member whose mark the cache
\* still shows leads to no claim with data and to no pod that could start.
LEMMA BuildStepMarkMeans ==
    ASSUME TypeOK, MarkMeans, Certificates \/ EnsurePVC \/ UpdatePod \/ EnsurePod
    PROVE  MarkMeans'
<1>1. UNCHANGED <<members, mcache, etcd>> /\ mc.pc \in BuildSteps
    BY DEF Certificates, EnsurePVC, UpdatePod, EnsurePod, objectsUnchanged, BuildSteps
<1>2. mc.m \in Members /\ mc.obj \in Member /\ MemberWorkerTypeOK
    BY <1>1, Held DEF TypeOK, BuildSteps
<1>3. mc'.pc \in BuildSteps \cup {"status"} /\ mc'.m = mc.m /\ mc'.fresh = mc.fresh
    BY <1>2, ContinueFields, ReturnFields DEF Certificates, EnsurePVC, UpdatePod, EnsurePod,
        BuildSteps, AfterCertificates, AfterPVC
<1>4. MarkStands' /\ StaleRepair' /\ TakenApart' /\ FreshRead'
    BY <1>1, <1>2, <1>3 DEF MarkMeans, MarkStands, MayBeBroken, StaleRepair, TakenApart,
        FreshRead, RepairSteps, BuildSteps
<1>5. \A k \in Members \ {mc.m} : Wiped(k) => Wiped(k)'
    BY <1>1, <1>2 DEF Wiped, Certificates, EnsurePVC, UpdatePod, EnsurePod, DeletePod, TypeOK,
        OwnedTypeOK
<1>6. mcache[mc.m].spec.broken /\ ~members[mc.m].spec.broken => 
        /\ pods[mc.m].state = "none" /\ pvcs[mc.m] = "none" /\ etcd[mc.m] = "added"
        /\ MayBeBroken(mc.obj)
        /\ mc.pc # "updatePod"
        /\ mc.pc = "pod" => mc.obj.status.phase = "Failed"
    BY <1>1 DEF MarkMeans, AfterRepair
<1>7. mc.fresh /\ members[mc.m].spec.broken =>
        /\ mc.pc \in {"certificates", "pvc"} /\ pvcs[mc.m] = "none"
        /\ mc.obj.status.phase = "Recreating"
    BY <1>1 DEF MarkMeans, FreshBroken, RepairSteps, BuildSteps
<1>8. CASE Certificates
  <2>1. UNCHANGED <<pods, pvcs>>
      BY <1>8 DEF Certificates
  <2>2. /\ mc'.obj.status.phase = mc.obj.status.phase
        /\ MayBeBroken(mc.obj) => mc'.pc \in {"pvc", "pod", "status"}
        /\ mc.obj.status.phase = "Recreating" => mc'.pc \in {"pvc", "status"}
    <3>1. ASSUME Return("requeue", mc.obj)
          PROVE  mc'.pc = "status" /\ mc'.obj = mc.obj
        BY <1>2, <3>1, ReturnFields
    <3>2. ASSUME Continue(AfterCertificates(Checked(mc.obj, mc.m)), Checked(mc.obj, mc.m))
          PROVE  /\ mc'.obj = Checked(mc.obj, mc.m)
                 /\ mc'.pc = AfterCertificates(Checked(mc.obj, mc.m))
        BY <1>2, <3>2, ContinueFields
    <3>3. Checked(mc.obj, mc.m).status.phase = mc.obj.status.phase
        BY <1>2, ObjectFields
    <3> QED
        BY <1>8, <3>1, <3>2, <3>3 DEF Certificates, AfterCertificates, AfterPVC, IsCreating,
            MemberShouldUpdate, MayBeBroken
  <2>3. StaleMark'
      BY <1>1, <2>1 DEF MarkMeans, StaleMark, Wiped
  <2>4. FreshBroken' /\ AfterRepair'
      BY <1>1, <1>3, <1>6, <1>7, <2>1, <2>2 DEF FreshBroken, AfterRepair, MayBeBroken, RepairSteps
  <2> QED
      BY <1>4, <2>3, <2>4 DEF MarkMeans
<1>9. CASE EnsurePVC
  <2>1. /\ UNCHANGED pods
        /\ pvcs[mc.m] = "none" => mc'.pc = "status" /\ mc'.obj = mc.obj
        /\ pvcs[mc.m] = "none" => pvcs'[mc.m] = "empty"
      BY <1>2, <1>9, ReturnFields DEF EnsurePVC, TypeOK, OwnedTypeOK
  <2>2. StaleMark'
      BY <1>1, <1>5, <1>6, <2>1 DEF MarkMeans, StaleMark, Wiped
  <2>3. FreshBroken' /\ AfterRepair'
      BY <1>1, <1>3, <1>6, <1>7, <2>1 DEF FreshBroken, AfterRepair, MayBeBroken, RepairSteps,
          BuildSteps
  <2> QED
      BY <1>4, <2>2, <2>3 DEF MarkMeans
<1>10. CASE UpdatePod
  <2>1. mc.pc = "updatePod"
      BY <1>10 DEF UpdatePod
  <2>2. StaleMark'
      BY <1>1, <1>5, <1>6, <2>1 DEF MarkMeans, StaleMark
  <2>3. FreshBroken' /\ AfterRepair'
      BY <1>1, <1>3, <1>6, <1>7, <2>1 DEF FreshBroken, AfterRepair
  <2> QED
      BY <1>4, <2>2, <2>3 DEF MarkMeans
<1>11. CASE EnsurePod
  <2>1. mc.pc = "pod" /\ mc'.pc = "status" /\ UNCHANGED pvcs
      BY <1>2, <1>11, ReturnFields DEF EnsurePod
  <2>2. pods'[mc.m].state \in {pods[mc.m].state, "starting"}
    <3>1. GetPod(mc.obj).state = "starting"
        BY DEF GetPod, NoPod
    <3> QED
        BY <1>2, <1>11, <3>1 DEF EnsurePod, TypeOK, OwnedTypeOK
  <2>3. StaleMark'
      BY <1>1, <1>5, <1>6, <2>1, <2>2 DEF MarkMeans, StaleMark, Wiped
  <2>4. FreshBroken' /\ AfterRepair'
      BY <1>1, <1>3, <1>7, <2>1 DEF FreshBroken, AfterRepair, BuildSteps
  <2> QED
      BY <1>4, <2>3, <2>4 DEF MarkMeans
<1> QED
    BY <1>8, <1>9, <1>10, <1>11

LEMMA MemberCallFailsMarkMeans ==
    ASSUME TypeOK, MarkMeans, MemberCallFails PROVE MarkMeans'
<1>1. UNCHANGED <<members, mcache, pods, pvcs, etcd>> /\ mc.pc \notin {"idle", "status"}
      /\ MemberWorkerTypeOK
    BY DEF MemberCallFails, objectsUnchanged, TypeOK
<1>2. mc'.pc = "status" /\ mc'.m = mc.m /\ mc'.fresh = mc.fresh /\ mc'.obj = mc.obj
    BY <1>1, ReturnFields DEF MemberCallFails
<1>3. MarkStands' /\ StaleMark'
    BY <1>1 DEF MarkMeans, MarkStands, StaleMark, MayBeBroken, Wiped
<1> QED
    BY <1>1, <1>2, <1>3 DEF MarkMeans, StaleRepair, TakenApart, FreshRead, FreshBroken,
        AfterRepair, RepairSteps, BuildSteps, MayBeBroken

LEMMA StatusMarkMeans ==
    ASSUME TypeOK, MarkMeans, MemberStatusUpdate \/ MemberStatusUpdateFails PROVE MarkMeans'
<1>1. UNCHANGED <<mcache, pods, pvcs, etcd>> /\ mc.pc = "status" /\ mc'.pc = "idle"
    BY DEF MemberStatusUpdate, MemberStatusUpdateFails, FinishMember, objectsUnchanged,
        IdleMemberWorker
<1>2. mc.m \in Members /\ members \in [Members -> Member]
    BY <1>1, Held DEF TypeOK, StoreTypeOK
<1> DEFINE new == [members[mc.m] EXCEPT !.status = mc.obj.status]
<1>3. new.spec = members[mc.m].spec /\ new.status = mc.obj.status
    BY <1>2 DEF Member
<1>4. UNCHANGED members \/ (mc.fresh /\ StoreMember(mc.m, new))
    BY DEF MemberStatusUpdate, MemberStatusUpdateFails
<1> HIDE DEF new
<1>5. members[mc.m].spec.broken /\ mc.fresh => MayBeBroken(mc.obj)
    BY <1>1 DEF MarkMeans, FreshBroken
<1>6. MarkStands' /\ StaleMark'
    BY <1>1, <1>2, <1>3, <1>4, <1>5
       DEF StoreMember, MarkMeans, MarkStands, StaleMark, MayBeBroken, Wiped
<1> QED
    BY <1>1, <1>6 DEF MarkMeans, StaleRepair, TakenApart, FreshRead, FreshBroken, AfterRepair,
        RepairSteps, BuildSteps

LEMMA MarkMeansInductive == TypeOK /\ Repairing /\ MarkMeans /\ [Next]_vars => MarkMeans'
<1> SUFFICES ASSUME TypeOK, Repairing, MarkMeans, [Next]_vars PROVE MarkMeans'
    OBVIOUS
<1>1. CASE ClusterReconcile
    BY <1>1, ClusterEffect, ClusterMarkMeans
<1>2. CASE Sync \/ EnvironmentStep \/ UNCHANGED vars
    BY <1>2, OutsideEffect, OutsideMarkMeans
<1>3. CASE MemberReconcile
    BY <1>3, GetMemberMarkMeans, RepairStepMarkMeans, RepairStatusMarkMeans,
       RepairSpecMarkMeans, BuildStepMarkMeans, MemberCallFailsMarkMeans, StatusMarkMeans
       DEF MemberReconcile, MemberWorkerStep, MemberWorkerFault
<1> QED
    BY <1>1, <1>2, <1>3 DEF Next, Step

LEMMA MarkMeansInvariant == Spec => [](TypeOK /\ Repairing /\ MarkMeans)
<1>1. Init => Repairing /\ MarkMeans
    BY InitRepairing, InitMarkMeans
<1>2. TypeOK /\ Repairing /\ [Next]_vars => Repairing'
    BY RepairingInductive
<1>3. TypeOK /\ Repairing /\ MarkMeans /\ [Next]_vars => MarkMeans'
    BY MarkMeansInductive
<1> QED
    BY <1>1, <1>2, <1>3, TypeCorrect, PTL DEF Spec

\* A member marked broken is recorded as failed or as recreated, never as running:
\* a reconcile that read the member before the mark cannot record anything over it,
\* and one that read it with the mark takes it apart first, whichever of Repair's
\* calls and writes fails (member_controller.go:76-103, 219-244).
THEOREM MarksStandForFailures == Spec => []BrokenOnlyFailed
<1>1. MarkMeans => BrokenOnlyFailed
    BY DEF MarkMeans, MarkStands, MayBeBroken, BrokenOnlyFailed
<1> QED
    BY <1>1, MarkMeansInvariant, PTL

\* A claim with data is deleted only under a stored mark, although Repair works
\* from a cached member whose mark may be gone: what it finds of such a member has
\* no data, and is stopped at MemberAdd, which etcd refuses
\* (member_controller.go:76, 219-244).
THEOREM NoDataDeletedUnmarked == Spec => NoHealthyWipe
<1>1. ASSUME TypeOK, MarkMeans, Next, NEW m \in Members,
             pvcs[m] = "data", pvcs'[m] = "terminating"
      PROVE  members[m].spec.broken
  <2>1. CASE RepairDeletePVC
    <3>1. m = mc.m /\ mc.pc = "deletePVC"
        BY <1>1, <2>1 DEF RepairDeletePVC, TypeOK, OwnedTypeOK
    <3> QED
        BY <1>1, <3>1 DEF MarkMeans, StaleRepair, Wiped, RepairSteps
  <2>2. CASE MemberReconcile /\ ~RepairDeletePVC
    <3>1. UNCHANGED pvcs \/ EnsurePVC
        BY <2>2 DEF MemberReconcile, MemberWorkerStep, MemberWorkerFault, GetMember,
            RepairDeletePod, ReaddRemove, ReaddAdd, ReaddAddReplyLost, RepairStatus,
            RepairStatusFails, RepairSpec, RepairSpecFails, Certificates, UpdatePod,
            EnsurePod, MemberCallFails, MemberStatusUpdate, MemberStatusUpdateFails
    <3> QED
        BY <1>1, <3>1 DEF EnsurePVC, TypeOK, OwnedTypeOK
  <2>3. CASE Sync \/ EnvironmentStep
      BY <1>1, <2>3, OutsideEffect DEF OutsideChanges, PodServes, PodLives
  <2>4. CASE ClusterReconcile
      BY <1>1, <2>4 DEF ClusterReconcile, ClusterWorkerStep, ClusterWorkerFault, GetCluster,
          EnsureInfra, EnsureMembers, EnsureMembersAlreadyExists, EnsureMembersCallFails,
          PanicAt, RepairWaits, RepairDeclined, RepairMember, UpdateMemberWaits,
          UpdateMemberVersion, UpdateMemberCertificate, UpdateMemberDone, ClusterCallFails,
          ClusterStatusUpdate, ClusterStatusUpdateFails, ownedUnchanged
  <2> QED
      BY <1>1, <2>1, <2>2, <2>3, <2>4 DEF Next, Step
<1>2. TypeOK /\ MarkMeans /\ [Next]_vars =>
        [\A m \in Members :
            pvcs[m] = "data" /\ pvcs'[m] = "terminating" => members[m].spec.broken]_vars
    BY <1>1
<1> QED
    BY <1>2, MarkMeansInvariant, PTL DEF Spec, NoHealthyWipe
=============================================================================
