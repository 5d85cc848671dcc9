--------------------------- MODULE RestartProofs ---------------------------
(***************************************************************************)
(* What becomes of the pods and of the members that are up.  While nobody  *)
(* asks for another version, no pod is replaced without need and no member *)
(* is taken down that nothing happened to; when somebody does, the members *)
(* take it up one after the other.                                         *)
(***************************************************************************)
EXTENDS DataProofs

-----------------------------------------------------------------------------
(* One version: everywhere, of every age, the version is the one asked for, *)
(* so that no member is out of date for its version.                        *)

OfVersion(obj, v) ==
    obj.status.phase # "Absent" =>
        /\ obj.spec.version = v
        /\ obj.status.phase = "Running" => obj.status.version = v

MembersAgree(v) ==
    \A k \in Members :
        /\ OfVersion(members[k], v) /\ OfVersion(mcache[k], v)
        /\ mcache[k].status.phase # "Absent" => members[k].status.phase # "Absent"

HeldAgrees(v) ==
    mc.pc # "idle" =>
        /\ mc.obj.status.phase # "Absent" /\ OfVersion(mc.obj, v)
        /\ members[mc.m].status.phase # "Absent"

ClusterAgrees(v) ==
    /\ cluster.spec.version = v /\ ccache.spec.version = v
    /\ cc.pc \notin {"idle", "panicked"} => cc.obj.spec.version = v

Agrees(v) == ClusterAgrees(v) /\ MembersAgree(v) /\ HeldAgrees(v)

OneVersion == Agrees(cluster.spec.version)

LEMMA InitOneVersion == Init => OneVersion
<1> SUFFICES ASSUME Init PROVE OneVersion
    OBVIOUS
<1>1. PICK v, backup : InitRunning(v, backup) \/ InitCreated(v, backup)
    BY DEF Init
<1>2. /\ cluster.spec.version = v
      /\ \A k \in Members : OfVersion(members[k], v)
    BY <1>1 DEF InitRunning, InitCreated, RunningMember, AbsentMember, OfVersion
<1>3. ccache = cluster /\ mcache = members /\ mc.pc = "idle" /\ cc.pc = "idle"
    BY DEF Init, IdleMemberWorker, IdleClusterWorker
<1> QED
    BY <1>2, <1>3 DEF OneVersion, Agrees, ClusterAgrees, MembersAgree, HeldAgrees

\* What the reconcilers make of a cluster keeps what was asked for ...
LEMMA ClusterObjectsKeepSpec ==
    ASSUME NEW obj \in Cluster
    PROVE  /\ RecordVersion(obj).spec = obj.spec
           /\ Updating(obj).spec = obj.spec
           /\ Updated(obj).spec = obj.spec
<1>1. RecordVersion(obj).spec = obj.spec /\ Updating(obj).spec = obj.spec
    BY DEF RecordVersion, Updating, Cluster
<1> DEFINE done == [obj EXCEPT !.status.phase = "Running", !.status.certificateExpires = FALSE]
<1>2. done.spec = obj.spec
    BY DEF Cluster
<1>3. [done EXCEPT !.status.version = done.spec.version].spec = done.spec
  <2>1. done = [done EXCEPT !.spec = obj.spec]
      BY <1>2 DEF Cluster
  <2> QED
      BY DEF Cluster
<1>4. Updated(obj) = [done EXCEPT !.status.version = done.spec.version]
    BY DEF Updated, RecordVersion
<1> QED
    BY <1>1, <1>2, <1>3, <1>4

LEMMA AssessedKeepsSpec ==
    ASSUME TypeOK, cc.obj \in Cluster PROVE Assessed.spec = cc.obj.spec
BY DEF Assessed, Cluster


\* ... the cluster worker holds a cluster that asks for the same version ...
LEMMA ClusterWorkerSpec ==
    ASSUME TypeOK, ClusterReconcile
    PROVE  /\ ccache' = ccache /\ cluster'.spec = cluster.spec
           /\ \/ cc'.pc \in {"idle", "panicked"}
              \/ cc.pc = "idle" /\ cc'.pc = "infra" /\ cc'.obj.spec = ccache.spec
              \/ cc.pc \notin {"idle", "panicked"} /\ cc'.obj.spec = cc.obj.spec
<1> USE DEF TypeOK
<1>1. ccache' = ccache /\ cluster'.spec = cluster.spec
  <2>1. [cluster EXCEPT !.status = cc.obj.status].spec = cluster.spec
      BY DEF StoreTypeOK, Cluster
  <2> QED
      BY <2>1 DEF ClusterReconcile, ClusterWorkerStep, ClusterWorkerFault, GetCluster, EnsureInfra,
        EnsureMembers, EnsureMembersAlreadyExists, EnsureMembersCallFails, PanicAt,
        RepairWaits, RepairDeclined, RepairMember, UpdateMemberWaits, UpdateMemberVersion,
        UpdateMemberCertificate, UpdateMemberDone, ClusterCallFails, ClusterStatusUpdate,
        ClusterStatusUpdateFails, StoreCluster, storeUnchanged, ownedUnchanged
<1>3. CASE GetCluster
  <2>1. [ccache EXCEPT !.status.phase = "Creating"].spec = ccache.spec
      BY DEF StoreTypeOK, Cluster
  <2> QED
      BY <1>1, <1>3, <2>1 DEF GetCluster
<1>4. CASE ClusterStatusUpdate \/ ClusterStatusUpdateFails
  <2>1. cc'.pc \in {"idle", "panicked"}
      BY <1>4 DEF ClusterStatusUpdate, ClusterStatusUpdateFails, FinishCluster, IdleClusterWorker
  <2> QED
      BY <1>1, <2>1
<1>5. CASE ClusterReconcile /\ ~GetCluster /\ ~ClusterStatusUpdate /\ ~ClusterStatusUpdateFails
  <2>1. cc.pc \notin {"idle", "panicked"} /\ cc \in ClusterWorker
      BY <1>5 DEF ClusterWorkerTypeOK, ClusterReconcile, ClusterWorkerStep, ClusterWorkerFault,
        EnsureInfra, EnsureMembers, EnsureMembersAlreadyExists, EnsureMembersCallFails,
        RepairWaits, RepairDeclined, RepairMember, UpdateMemberWaits, UpdateMemberVersion,
        UpdateMemberCertificate, UpdateMemberDone, ClusterCallFails
  <2>2. cc.obj \in Cluster
      BY <2>1, HeldCluster
  <2>3. Assessed \in Cluster /\ Assessed.spec = cc.obj.spec
      BY <2>2, AssessedType, AssessedKeepsSpec
  <2>4. \E obj : /\ obj.spec = cc.obj.spec
                 /\ \/ \E pc : ContinueCluster(pc, obj)
                    \/ \E result : ReturnCluster(result, obj)
                    \/ obj = cc.obj /\ cc' = [cc EXCEPT !.i = @ + 1]
      BY <1>5, <2>2, <2>3, ClusterObjectsKeepSpec
         DEF ClusterReconcile, ClusterWorkerStep, ClusterWorkerFault, EnsureInfra,
        EnsureMembers, EnsureMembersAlreadyExists, EnsureMembersCallFails, PanicAt,
        RepairWaits, RepairDeclined, RepairMember, UpdateMemberWaits, UpdateMemberVersion,
        UpdateMemberCertificate, UpdateMemberDone, ClusterCallFails, NextMember
  <2>5. \E obj : obj.spec = cc.obj.spec /\ cc'.obj = obj
      BY <2>1, <2>4 DEF ContinueCluster, ReturnCluster, ClusterWorker
  <2> QED
      BY <1>1, <2>1, <2>5
<1> QED
    BY <1>1, <1>3, <1>4, <1>5

LEMMA ClusterWorkerAgrees ==
    ASSUME TypeOK, NEW v, ClusterAgrees(v), ClusterReconcile PROVE ClusterAgrees(v)'
BY ClusterWorkerSpec DEF ClusterAgrees

\* ... and gives no other version to a member ...
LEMMA ClusterVersions ==
    ASSUME TypeOK, Repairing, NEW v, ClusterAgrees(v), ClusterReconcile, NEW k \in Members
    PROVE  \/ members'[k].spec.version = v
           \/ members'[k].spec.version = members[k].spec.version /\ ~Creates(k)
<1>0. members \in [Members -> Member] /\ mcache \in [Members -> Member]
    BY DEF TypeOK, StoreTypeOK
<1>1. ASSUME NEW i \in Members, RepairMember(i)
      PROVE  members'[k].spec.version = members[k].spec.version /\ ~Creates(k)
  <2>1. Broken(mcache[i]).spec.version = mcache[i].spec.version
        /\ Broken(mcache[i]).status = mcache[i].status
      BY <1>0 DEF Broken, Member, MemberSpec
  <2>2. UNCHANGED members \/ (mcache[i] = members[i] /\ StoreMember(i, Broken(mcache[i])))
      BY <1>1 DEF RepairMember, UpdateMember, Repairing, CacheAgrees
  <2>3. \A j \in Members : /\ members'[j].spec.version = members[j].spec.version
                           /\ members'[j].status = members[j].status
      BY <1>0, <2>1, <2>2 DEF StoreMember
  <2>4. ~Creates(k)
      BY <2>3 DEF Creates, AbsentMember
  <2> QED
      BY <2>3, <2>4
<1>2. CASE UpdateMemberVersion \/ UpdateMemberCertificate
  <2>1. cc.i \in Members /\ Current = mcache[cc.i] /\ Current \in Member
        /\ cc.obj.spec.version = v
      BY <1>2 DEF UpdateMemberVersion, UpdateMemberCertificate, TypeOK, ClusterWorkerTypeOK,
          StoreTypeOK, Current, ClusterAgrees
  <2>2. /\ WithVersion(Current).spec.version = v
        /\ WithVersion(Current).status = Current.status
        /\ WithCertificateUpdate(Current).spec.version = Current.spec.version
        /\ WithCertificateUpdate(Current).status = Current.status
      BY <2>1 DEF WithVersion, WithCertificateUpdate, Member, MemberSpec
  <2>3. \/ UNCHANGED members
        \/ /\ Current = members[cc.i]
           /\ \/ StoreMember(cc.i, WithVersion(Current))
              \/ StoreMember(cc.i, WithCertificateUpdate(Current))
      BY <1>2, <2>1 DEF UpdateMemberVersion, UpdateMemberCertificate, UpdateMember, Repairing,
          CacheAgrees
  <2>4. /\ members'[k].spec.version \in {v, members[k].spec.version}
        /\ members'[k].status = members[k].status
      BY <1>0, <2>1, <2>2, <2>3 DEF StoreMember
  <2>5. ~Creates(k)
      BY <2>4 DEF Creates, AbsentMember
  <2> QED
      BY <2>4, <2>5
<1>3. CASE EnsureMembers \/ EnsureMembersAlreadyExists \/ EnsureMembersCallFails
  <2>1. PICK created : CreateMembers(created)
      BY <1>3 DEF EnsureMembers, EnsureMembersAlreadyExists, EnsureMembersCallFails, PanicAt
  <2>2. cc.obj.spec.version = v
      BY <1>3 DEF EnsureMembers, EnsureMembersAlreadyExists, EnsureMembersCallFails, ClusterAgrees
  <2>3. MemberTemplate(cc.obj).spec.version = v
      BY <2>2, AbsentMemberType DEF MemberTemplate, AbsentMember
  <2>4. members'[k] = MemberTemplate(cc.obj) \/ members'[k] = members[k]
      BY <2>1 DEF CreateMembers
  <2>5. members'[k] = members[k] => ~Creates(k)
      BY DEF Creates, AbsentMember
  <2> QED
      BY <2>3, <2>4, <2>5
<1>4. CASE UNCHANGED members
    BY <1>4 DEF Creates, AbsentMember
<1> QED
    BY <1>1, <1>2, <1>3, <1>4
       DEF ClusterReconcile, ClusterWorkerStep, ClusterWorkerFault, GetCluster, EnsureInfra,
        RepairWaits, RepairDeclined, UpdateMemberWaits, UpdateMemberDone, ClusterCallFails,
        ClusterStatusUpdate, ClusterStatusUpdateFails, storeUnchanged

\* ... so that the cluster controller brings no other version in.
LEMMA ClusterOneVersion ==
    ASSUME TypeOK, Repairing, OneVersion, ClusterReconcile PROVE OneVersion'
<1>v. PICK v : v = cluster.spec.version
    OBVIOUS
<1>0. Agrees(v)
    BY <1>v DEF OneVersion
<1>1. ClusterAgrees(v)'
    BY <1>0, ClusterWorkerAgrees DEF Agrees
<1>2. UNCHANGED mcache /\ WorkerKept /\ \A k \in Members : Keeps(k) \/ Creates(k) \/ Marks(k)
    BY ClusterEffect DEF ClusterChanges
<1>3. \A k \in Members : \/ members'[k].spec.version = v
                         \/ members'[k].spec.version = members[k].spec.version /\ ~Creates(k)
    BY <1>0, ClusterVersions DEF Agrees
<1>4. \A k \in Members : /\ OfVersion(members'[k], v)
                         /\ members[k].status.phase # "Absent" => members'[k].status.phase # "Absent"
  <2> TAKE k \in Members
  <2>1. CASE Creates(k)
    <3>1. members'[k].status.phase = "None" /\ members[k].status.phase = "Absent"
        BY <2>1 DEF Creates, AbsentMember
    <3> QED
        BY <1>3, <2>1, <3>1 DEF OfVersion
  <2>2. CASE members'[k].status = members[k].status /\ ~Creates(k)
      BY <1>0, <1>3, <2>2 DEF Agrees, MembersAgree, OfVersion
  <2> QED
      BY <1>2, <2>1, <2>2 DEF Keeps, Marks
<1>5. MembersAgree(v)'
    BY <1>0, <1>2, <1>4 DEF Agrees, MembersAgree
<1>6. HeldAgrees(v)'
  <2>1. mc.pc # "idle" => mc.m \in Members
      BY Held DEF TypeOK
  <2> QED
      BY <1>0, <1>2, <1>4, <2>1 DEF Agrees, HeldAgrees, WorkerKept
<1>7. Agrees(v)' /\ cluster'.spec.version = v
    BY <1>1, <1>5, <1>6 DEF Agrees, ClusterAgrees
<1> QED
    BY <1>7 DEF OneVersion, Agrees, ClusterAgrees, MembersAgree, HeldAgrees

\* The member controller works on the version it was given, and records no other.
Right(obj, v) == obj.status.phase # "Absent" /\ OfVersion(obj, v)

LEMMA ObjectVersions ==
    ASSUME NEW v, NEW obj \in Member, Right(obj, v)
    PROVE  /\ Right(Recreated(obj), v) /\ Right(Mended(obj), v)
           /\ \A m : Right(Checked(obj, m), v)
           /\ Right([obj EXCEPT !.status.phase = "Updating"], v)
           /\ Right(PodCreated(obj), v)
           /\ \A pod : Right(PodObserved(obj, pod), v)
<1> USE DEF Right, OfVersion
<1>1. Right(Recreated(obj), v) /\ Right(Mended(obj), v)
    BY DEF Recreated, Mended, Member, MemberStatus, MemberSpec
<1>2. \A e : Right([obj EXCEPT !.status.certificateExpires = e], v)
    BY DEF Member, MemberStatus
<1>3. Right([obj EXCEPT !.status.phase = "Updating"], v)
    BY DEF Member, MemberStatus
<1>4. Right(SetFailed(obj), v)
    BY DEF SetFailed, Member, MemberStatus
<1>5. Right([obj EXCEPT !.status.phase = "Running", !.status.version = obj.spec.version], v)
    BY DEF Member, MemberStatus
<1>6. \A pod : Right(PodObserved(obj, pod), v)
    BY <1>4, <1>5 DEF PodObserved
<1>7. \A m : Right(Checked(obj, m), v)
    BY <1>2 DEF Checked
<1>8. Right(PodCreated(obj), v)
    BY <1>4 DEF PodCreated
<1> QED
    BY <1>1, <1>3, <1>6, <1>7, <1>8

\* A write takes its spec from one object of that version, its status from another.
LEMMA StoredRight ==
    ASSUME NEW v, NEW old \in Member, NEW obj \in Member, Right(old, v), Right(obj, v)
    PROVE  /\ Right([old EXCEPT !.status = obj.status], v)
           /\ Right([old EXCEPT !.spec = obj.spec], v)
BY DEF Right, OfVersion, Member

LEMMA MemberOneVersion ==
    ASSUME TypeOK, OneVersion, MemberReconcile PROVE OneVersion'
<1>v. PICK v : v = cluster.spec.version
    OBVIOUS
<1>0. ClusterAgrees(v) /\ MembersAgree(v) /\ HeldAgrees(v)
    BY <1>v DEF OneVersion, Agrees
<1>t. members \in [Members -> Member] /\ mcache \in [Members -> Member] /\ MemberWorkerTypeOK
    BY DEF TypeOK, StoreTypeOK
<1>h. mc.pc # "idle" => /\ mc.m \in Members /\ mc.obj \in Member
                        /\ Right(mc.obj, v) /\ Right(members[mc.m], v)
    BY <1>0, <1>t, Held DEF HeldAgrees, MembersAgree, Right
<1>c. UNCHANGED <<cluster, ccache, cc, mcache>>
    BY DEF MemberReconcile, MemberWorkerStep, MemberWorkerFault, GetMember,
        RepairDeletePod, RepairDeletePVC, ReaddRemove, ReaddAdd, ReaddAddReplyLost, RepairStatus,
        RepairStatusFails, RepairSpec, RepairSpecFails, Certificates, EnsurePVC, UpdatePod,
        EnsurePod, MemberCallFails, MemberStatusUpdate, MemberStatusUpdateFails, objectsUnchanged
<1>1. ASSUME /\ \/ UNCHANGED members
                \/ \E new : Right(new, v) /\ mc.pc # "idle" /\ StoreMember(mc.m, new)
             /\ \/ mc'.pc = "idle"
                \/ mc.pc # "idle" /\ mc'.m = mc.m /\ Right(mc'.obj, v)
                \/ UNCHANGED members /\ mc'.m \in Members
                   /\ mc'.obj = mcache[mc'.m] /\ mcache[mc'.m].status.phase # "Absent"
      PROVE  OneVersion'
  <2>1. \A k \in Members : \/ members'[k] = members[k]
                           \/ Right(members'[k], v)
      BY <1>1, <1>t, <1>h DEF StoreMember
  <2>2. MembersAgree(v)'
      BY <1>0, <1>c, <2>1 DEF MembersAgree, Right
  <2>3. HeldAgrees(v)'
      BY <1>0, <1>1, <1>c, <1>h, <2>1 DEF HeldAgrees, MembersAgree, Right
  <2>4. ClusterAgrees(v)' /\ cluster'.spec.version = v
      BY <1>0, <1>c DEF ClusterAgrees
  <2> QED
      BY <2>2, <2>3, <2>4 DEF OneVersion, Agrees, ClusterAgrees, MembersAgree, HeldAgrees
<1>2. CASE \E m \in Members : GetMember(m)
  <2>1. PICK m \in Members : GetMember(m)
      BY <1>2
  <2>2. \/ mcache[m].status.phase = "Absent" /\ mc' = mc
        \/ mcache[m].status.phase # "Absent" /\ mc'.m = m /\ mc'.obj = mcache[m]
      BY <2>1 DEF GetMember
  <2> QED
      BY <1>1, <2>1, <2>2 DEF GetMember
<1>3. ASSUME NEW pc, NEW obj, mc.pc # "idle", Right(obj, v),
             Continue(pc, obj) \/ \E result : Return(result, obj)
      PROVE  mc'.m = mc.m /\ mc'.obj = obj
    BY <1>3, <1>t, ContinueFields, ReturnFields
<1>4. CASE \/ RepairDeletePod \/ RepairDeletePVC \/ ReaddRemove \/ ReaddAdd
           \/ ReaddAddReplyLost \/ EnsurePVC \/ MemberCallFails
  <2>1. /\ mc.pc # "idle" /\ UNCHANGED members
        /\ \E pc : Continue(pc, mc.obj) \/ \E result : Return(result, mc.obj)
      BY <1>4 DEF RepairDeletePod, RepairDeletePVC, ReaddRemove, ReaddAdd, ReaddAddReplyLost,
        EnsurePVC, MemberCallFails
  <2> QED
      BY <1>1, <1>3, <1>h, <2>1
<1>5. CASE RepairStatusFails \/ RepairSpecFails \/ Certificates \/ UpdatePod \/ EnsurePod
  <2>1. mc.pc # "idle" /\ UNCHANGED members
      BY <1>5 DEF RepairStatusFails, RepairSpecFails, Certificates, UpdatePod, EnsurePod
  <2>2. \E pc, obj : Right(obj, v) /\ (Continue(pc, obj) \/ \E result : Return(result, obj))
      BY <1>5, <1>h, <2>1, ObjectVersions
         DEF RepairStatusFails, RepairSpecFails, Certificates, UpdatePod, EnsurePod
  <2> QED
      BY <1>1, <1>3, <2>1, <2>2
<1>6. CASE RepairStatus \/ RepairSpec
  <2> DEFINE recreated == [members[mc.m] EXCEPT !.status = Recreated(mc.obj).status]
             mended == [members[mc.m] EXCEPT !.spec = Mended(mc.obj).spec]
  <2>1. mc.pc # "idle"
      BY <1>6 DEF RepairStatus, RepairSpec
  <2>2. /\ Right(Recreated(mc.obj), v) /\ Right(Mended(mc.obj), v)
        /\ Recreated(mc.obj) \in Member /\ Mended(mc.obj) \in Member
      BY <1>h, <2>1, ObjectVersions, RecreatedTypes
  <2>3. Right(recreated, v) /\ Right(mended, v)
      BY <1>t, <1>h, <2>1, <2>2, StoredRight
  <2>4. \/ StoreMember(mc.m, recreated) /\ Continue("repairSpec", recreated)
        \/ StoreMember(mc.m, mended) /\ Continue("certificates", mended)
        \/ UNCHANGED members /\ Continue("repairSpec", Recreated(mc.obj))
        \/ UNCHANGED members /\ Continue("certificates", Mended(mc.obj))
      BY <1>6 DEF RepairStatus, RepairSpec
  <2> HIDE DEF recreated, mended
  <2> QED
      BY <1>1, <1>3, <2>1, <2>2, <2>3, <2>4
<1>7. CASE MemberStatusUpdate \/ MemberStatusUpdateFails
  <2> DEFINE new == [members[mc.m] EXCEPT !.status = mc.obj.status]
  <2>1. mc.pc # "idle" /\ mc'.pc = "idle" /\ (UNCHANGED members \/ StoreMember(mc.m, new))
      BY <1>7 DEF MemberStatusUpdate, MemberStatusUpdateFails, FinishMember, IdleMemberWorker
  <2>2. Right(new, v)
      BY <1>t, <1>h, <2>1, StoredRight
  <2> HIDE DEF new
  <2> QED
      BY <1>1, <2>1, <2>2
<1> QED
    BY <1>2, <1>4, <1>5, <1>6, <1>7 DEF MemberReconcile, MemberWorkerStep, MemberWorkerFault

\* Nobody asks for another version.
VersionStays == [][cluster'.spec.version = cluster.spec.version]_vars

LEMMA OutsideOneVersion ==
    ASSUME TypeOK, OneVersion, Sync \/ EnvironmentStep \/ UNCHANGED vars,
           [cluster'.spec.version = cluster.spec.version]_vars
    PROVE  OneVersion'
<1>v. PICK v : v = cluster.spec.version
    OBVIOUS
<1>0. ClusterAgrees(v) /\ MembersAgree(v) /\ HeldAgrees(v)
    BY <1>v DEF OneVersion, Agrees
<1>1. cluster'.spec.version = v
    BY <1>v DEF vars
<1>2. OutsideChanges
    BY OutsideEffect
<1>3. MembersAgree(v)'
    BY <1>0, <1>2 DEF OutsideChanges, MembersAgree
<1>4. HeldAgrees(v)'
    BY <1>0, <1>2 DEF OutsideChanges, HeldAgrees, IdleMemberWorker
<1>5. ccache' \in {ccache, cluster}
      /\ (cc'.pc \in {"idle", "panicked"} \/ (cc'.pc = cc.pc /\ cc'.obj = cc.obj))
  <2>1. cc \in ClusterWorker
      BY DEF TypeOK, ClusterWorkerTypeOK
  <2> QED
      BY <2>1 DEF Sync, SyncCluster, SyncMembers, SyncPods, EnvironmentStep,
        ChangeVersion, Tick, Crash, RestartOnPanic, RestartManager, KubeletStep, Mishap, PodReady,
        PodRecovers, Serve, PodFails, PodEvicted, PodGone, PvcGone, IssueCertificates,
        RenewCertificate, podUnchanged, certUnchanged, workersUnchanged, IdleClusterWorker,
        ClusterWorker, vars
<1>6. ClusterAgrees(v)'
    BY <1>0, <1>1, <1>5 DEF ClusterAgrees
<1> QED
    BY <1>1, <1>3, <1>4, <1>6 DEF OneVersion, Agrees, ClusterAgrees, MembersAgree, HeldAgrees

LEMMA OneVersionInductive ==
    ASSUME TypeOK, Repairing, OneVersion, [Next]_vars,
           [cluster'.spec.version = cluster.spec.version]_vars
    PROVE  OneVersion'
BY ClusterOneVersion, MemberOneVersion, OutsideOneVersion DEF Next, Step

-----------------------------------------------------------------------------
(* What the worker knows of the pod it is about to delete *)

\* The pod of a member that is replaced is older than the peer certificate ...
ReplaceDue ==
    mc.pc = "updatePod" => pods[mc.m].state = "none" \/ "peer" \in pods[mc.m].renewed

\* ... and the pod of a member that is repaired is that of one marked broken.
DeleteDue ==
    mc.pc = "deletePod" => pods[mc.m].state = "none" \/ members[mc.m].spec.broken

\* Outside the controllers a pod goes on or goes away; one that is deleted is
\* evicted, which is counted.
LEMMA OutsidePods ==
    ASSUME TypeOK, Sync \/ EnvironmentStep \/ UNCHANGED vars, NEW k \in Members
    PROVE  /\ pods[k].state = "none" => pods'[k].state = "none"
           /\ "peer" \in pods[k].renewed => pods'[k].state = "none" \/ "peer" \in pods'[k].renewed
           /\ ~pods[k].terminating /\ pods'[k].terminating => used'.failures > used.failures
<1>0. pods \in [Members -> Pod] /\ used \in Budgets /\ MaxFailures \in Nat
    BY BoundAssumption DEF TypeOK, OwnedTypeOK, BoundsOK
<1>1. CASE \/ UNCHANGED pods
           \/ \E m \in Members : pods' = [pods EXCEPT ![m] = NoPod]
    BY <1>0, <1>1 DEF NoPod
<1>2. ASSUME NEW m \in Members, NEW pod, pods' = [pods EXCEPT ![m] = pod],
             pods[m].state = "none" => pod.state = "none",
             pods[m].renewed \subseteq pod.renewed,
             pods[m].terminating = pod.terminating \/ used'.failures > used.failures
      PROVE  /\ pods[k].state = "none" => pods'[k].state = "none"
             /\ "peer" \in pods[k].renewed => "peer" \in pods'[k].renewed
             /\ ~pods[k].terminating /\ pods'[k].terminating => used'.failures > used.failures
    BY <1>0, <1>2
<1>3. ASSUME NEW m \in Members, PodReady(m) \/ PodRecovers(m) \/ PodFails(m)
      PROVE  \E pod : /\ pods' = [pods EXCEPT ![m] = pod]
                      /\ pods[m].state = "none" => pod.state = "none"
                      /\ pods[m].renewed \subseteq pod.renewed
                      /\ pods[m].terminating = pod.terminating
  <2> DEFINE ready == [pods[m] EXCEPT !.state = "ready"]
             unready == [pods[m] EXCEPT !.state = "unready"]
  <2>1. /\ pods[m].state # "none"
        /\ pods' = [pods EXCEPT ![m] = ready] \/ pods' = [pods EXCEPT ![m] = unready]
      BY <1>3 DEF PodReady, PodRecovers, PodFails, Serve
  <2>2. /\ ready.renewed = pods[m].renewed /\ ready.terminating = pods[m].terminating
        /\ unready.renewed = pods[m].renewed /\ unready.terminating = pods[m].terminating
      BY <1>0 DEF Pod
  <2> HIDE DEF ready, unready
  <2> QED
      BY <2>1, <2>2
<1>4. ASSUME NEW m \in Members, PodEvicted(m)
      PROVE  \E pod : /\ pods' = [pods EXCEPT ![m] = pod]
                      /\ pod.state = pods[m].state /\ pod.renewed = pods[m].renewed
                      /\ used'.failures > used.failures
  <2> DEFINE evicted == [pods[m] EXCEPT !.terminating = TRUE]
  <2>1. evicted.state = pods[m].state /\ evicted.renewed = pods[m].renewed
      BY <1>0 DEF Pod
  <2>2. pods' = [pods EXCEPT ![m] = evicted]
      BY <1>4 DEF PodEvicted
  <2>3. used'.failures > used.failures
      BY <1>0, <1>4 DEF PodEvicted, Failure, Budgets
  <2> HIDE DEF evicted
  <2> QED
      BY <2>1, <2>2, <2>3
<1>5. ASSUME NEW m \in Members, NEW suffix \in Suffixes, RenewCertificate(m, suffix)
      PROVE  /\ pods' = [pods EXCEPT ![m] = Outdated(pods[m], suffix)]
             /\ Outdated(pods[m], suffix).state = pods[m].state
             /\ Outdated(pods[m], suffix).terminating = pods[m].terminating
             /\ pods[m].renewed \subseteq Outdated(pods[m], suffix).renewed
  <2>1. pods' = [pods EXCEPT ![m] = Outdated(pods[m], suffix)]
      BY <1>5 DEF RenewCertificate
  <2> QED
      BY <1>0, <2>1 DEF Outdated, Pod
<1>6. \/ UNCHANGED pods
      \/ \E m \in Members : \/ PodReady(m) \/ PodRecovers(m) \/ PodFails(m) \/ PodEvicted(m)
                            \/ PodGone(m)
                            \/ \E suffix \in Suffixes : RenewCertificate(m, suffix)
    BY DEF Sync, SyncCluster, SyncMembers, SyncPods, EnvironmentStep,
        ChangeVersion, Tick, Crash, RestartOnPanic, RestartManager, KubeletStep, Mishap,
        PvcGone, IssueCertificates, podUnchanged, certUnchanged, vars
<1>7. CASE \E m \in Members : PodGone(m)
    BY <1>1, <1>7 DEF PodGone
<1>8. CASE \E m \in Members : PodReady(m) \/ PodRecovers(m) \/ PodFails(m)
    BY <1>2, <1>3, <1>8
<1>9. CASE \E m \in Members : PodEvicted(m)
    BY <1>2, <1>4, <1>9
<1>10. CASE \E m \in Members : \E suffix \in Suffixes : RenewCertificate(m, suffix)
    BY <1>2, <1>5, <1>10
<1> QED
    BY <1>1, <1>6, <1>7, <1>8, <1>9, <1>10

\* A member is found out of date only for its certificate, while all agree on the
\* version and the cached pod is the stored one.
LEMMA ReplaceDueInductive ==
    ASSUME "pods" \notin Lagging, TypeOK, Repairing, DataFits, OneVersion, ReplaceDue, [Next]_vars
    PROVE  ReplaceDue'
<1>1. CASE ClusterReconcile
    BY <1>1, ClusterEffect DEF ClusterChanges, WorkerKept, ReplaceDue
<1>2. CASE Sync \/ EnvironmentStep \/ UNCHANGED vars
  <2>1. mc' = mc \/ mc'.pc = "idle"
      BY <1>2, OutsideEffect DEF OutsideChanges, IdleMemberWorker
  <2>2. mc.pc # "idle" => mc.m \in Members
      BY Held DEF TypeOK
  <2> QED
      BY <1>2, <2>1, <2>2, OutsidePods DEF ReplaceDue
<1>3. CASE Settled /\ Certificates
  <2>1. /\ mc.pc = "certificates" /\ pcache = pods /\ UNCHANGED pods /\ MemberWorkerTypeOK
        /\ mc.m \in Members /\ mc.obj \in Member /\ pods[mc.m] \in Pod
      BY <1>3, Held DEF Settled, Certificates, TypeOK, OwnedTypeOK
  <2> DEFINE obj == Checked(mc.obj, mc.m)
  <2>2. mc'.pc = "status" \/ (mc'.pc = AfterCertificates(obj) /\ mc'.m = mc.m)
      BY <1>3, <2>1, ContinueFields, ReturnFields DEF Certificates
  <2>3. \E v : Right(mc.obj, v)
      BY <2>1 DEF OneVersion, Agrees, HeldAgrees, Right
  <2>4. PICK v : Right(obj, v)
      BY <2>1, <2>3, ObjectVersions
  <2>5. ASSUME AfterCertificates(obj) = "updatePod" PROVE obj.status.certificateExpires
      BY <2>4, <2>5 DEF AfterCertificates, AfterPVC, MemberShouldUpdate, Right, OfVersion
  <2>6. ASSUME pods[mc.m].state # "none", obj.status.certificateExpires
        PROVE  "peer" \in pods[mc.m].renewed
      BY <2>1, <2>6 DEF Checked, CertificateExpires, Member, MemberStatus
  <2> HIDE DEF obj
  <2> QED
      BY <2>1, <2>2, <2>5, <2>6 DEF ReplaceDue
<1>4. CASE EnsurePVC
  <2>1. mc.pc = "pvc" /\ MemberWorkerTypeOK /\ ~MemberShouldUpdate(mc.obj)
      BY <1>4 DEF EnsurePVC, TypeOK, DataFits, WorkerFits, StepKnown, IsCreating, MemberShouldUpdate
  <2>2. mc'.pc \in {"status", "pod"}
      BY <1>4, <2>1, ContinueFields, ReturnFields DEF EnsurePVC, AfterPVC
  <2> QED
      BY <2>2 DEF ReplaceDue
<1>5. CASE MemberReconcile /\ ~Certificates /\ ~EnsurePVC
  <2>1. CASE \E m \in Members : GetMember(m)
      BY <2>1 DEF GetMember, ReplaceDue
  <2>2. CASE ~\E m \in Members : GetMember(m)
    <3>1. mc'.pc # "updatePod"
        BY <1>5, <2>2, ContinueFields, ReturnFields
           DEF TypeOK, MemberReconcile, MemberWorkerStep, MemberWorkerFault,
        RepairDeletePod, RepairDeletePVC, ReaddRemove, ReaddAdd, ReaddAddReplyLost, RepairStatus,
        RepairStatusFails, RepairSpec, RepairSpecFails, UpdatePod, EnsurePod, MemberCallFails,
        MemberStatusUpdate, MemberStatusUpdateFails, FinishMember, IdleMemberWorker
    <3> QED
        BY <3>1 DEF ReplaceDue
  <2> QED
      BY <2>1, <2>2
<1> QED
    BY <1>1, <1>2, <1>3, <1>4, <1>5 DEF Next, Step, MemberReconcile, MemberWorkerStep

\* With a change of the version it may be out of date for that as well.
UpdateDue ==
    mc.pc = "updatePod" => \/ pods[mc.m].state = "none"
                           \/ pods[mc.m].version # members[mc.m].spec.version
                           \/ "peer" \in pods[mc.m].renewed

\* With these two nothing else than an eviction deletes a pod without need.
LEMMA StepRestarts ==
    ASSUME TypeOK, UpdateDue, DeleteDue, Next, NEW m \in Members,
           ~pods[m].terminating, pods'[m].terminating
    PROVE  \/ members[m].spec.broken
           \/ pods[m].version # members[m].spec.version
           \/ "peer" \in pods[m].renewed
           \/ used'.failures > used.failures
<1>0. pods \in [Members -> Pod]
    BY DEF TypeOK, OwnedTypeOK
<1>1. CASE Sync \/ EnvironmentStep
    BY <1>1, OutsidePods
<1>2. CASE RepairDeletePod \/ UpdatePod
  <2>1. /\ mc.m = m /\ pods[m].state # "none"
        /\ mc.pc = "deletePod" \/ mc.pc = "updatePod"
      BY <1>0, <1>2 DEF RepairDeletePod, UpdatePod, DeletePod
  <2> QED
      BY <2>1 DEF UpdateDue, DeleteDue
<1>3. CASE EnsurePod
  <2>1. ~GetPod(mc.obj).terminating
      BY DEF GetPod, NoPod
  <2> QED
      BY <1>0, <1>3, <2>1 DEF EnsurePod
<1>4. CASE UNCHANGED pods
    BY <1>4
<1> QED
    BY <1>1, <1>2, <1>3, <1>4
       DEF Next, Step, MemberReconcile, MemberWorkerStep, MemberWorkerFault, GetMember,
        RepairDeletePVC, ReaddRemove, ReaddAdd, ReaddAddReplyLost, RepairStatus,
        RepairStatusFails, RepairSpec, RepairSpecFails, Certificates, EnsurePVC, MemberCallFails,
        MemberStatusUpdate, MemberStatusUpdateFails, ClusterReconcile, ClusterWorkerStep,
        ClusterWorkerFault, GetCluster, EnsureInfra, EnsureMembers, EnsureMembersAlreadyExists,
        EnsureMembersCallFails, PanicAt, RepairWaits, RepairDeclined, RepairMember,
        UpdateMemberWaits, UpdateMemberVersion, UpdateMemberCertificate, UpdateMemberDone,
        ClusterCallFails, ClusterStatusUpdate, ClusterStatusUpdateFails, ownedUnchanged

LEMMA RestartsFromDue ==
    /\ TypeOK /\ UpdateDue /\ DeleteDue /\ [Next]_vars
    => [\A m \in Members : ~pods[m].terminating /\ pods'[m].terminating =>
          \/ members[m].spec.broken
          \/ pods[m].version # members[m].spec.version
          \/ "peer" \in pods[m].renewed
          \/ used'.failures > used.failures]_vars
BY StepRestarts

LEMMA ReplaceDueInvariant ==
    ASSUME "pods" \notin Lagging
    PROVE  Spec /\ VersionStays => [](TypeOK /\ Repairing /\ MarkMeans /\ OneVersion /\ ReplaceDue)
<1>1. Init => ReplaceDue
    BY DEF Init, IdleMemberWorker, ReplaceDue
<1>2. /\ TypeOK /\ Repairing /\ OneVersion /\ [Next]_vars
      /\ [cluster'.spec.version = cluster.spec.version]_vars
      => OneVersion'
    BY OneVersionInductive
<1>3. TypeOK /\ Repairing /\ DataFits /\ OneVersion /\ ReplaceDue /\ [Next]_vars => ReplaceDue'
    BY ReplaceDueInductive
<1> QED
    BY <1>1, <1>2, <1>3, InitOneVersion, DataFitsInvariant, PTL DEF Spec, VersionStays

-----------------------------------------------------------------------------
(* Where the cache of the members keeps up, what is taken apart is marked. *)

RepairMarked == mc.pc \in RepairSteps => members[mc.m].spec.broken

LEMMA RepairMarkedInductive ==
    ASSUME "members" \notin Lagging, TypeOK, Repairing, MarkMeans, RepairMarked, [Next]_vars
    PROVE  RepairMarked'
<1>0. members \in [Members -> Member] /\ MemberWorkerTypeOK
      /\ (mc.pc # "idle" => mc.m \in Members /\ mc.obj \in Member)
    BY Held DEF TypeOK, StoreTypeOK
<1>1. CASE ClusterReconcile
  <2>1. WorkerKept /\ \A k \in Members : Keeps(k) \/ Creates(k) \/ Marks(k)
      BY <1>1, ClusterEffect DEF ClusterChanges
  <2>2. \A k \in Members : members[k].spec.broken => ~Creates(k)
      BY DEF Creates, MarkMeans, MarkStands, MayBeBroken
  <2> QED
      BY <1>0, <2>1, <2>2 DEF WorkerKept, Keeps, Marks, RepairMarked, RepairSteps
<1>2. CASE Sync \/ EnvironmentStep \/ UNCHANGED vars
    BY <1>2, OutsideEffect DEF OutsideChanges, IdleMemberWorker, RepairMarked, RepairSteps
<1>3. CASE Settled /\ \E m \in Members : GetMember(m)
  <2>1. PICK m \in Members : GetMember(m)
      BY <1>3
  <2>2. mcache[m] = members[m] /\ UNCHANGED members
      BY <1>3, <2>1 DEF Settled, Repairing, CacheAgrees, GetMember
  <2>3. mc' = mc \/ (mc'.m = m /\ (mc'.pc \in RepairSteps => mcache[m].spec.broken))
      BY <2>1 DEF GetMember, RepairSteps
  <2> QED
      BY <2>2, <2>3 DEF RepairMarked
<1>4. CASE RepairStatus
  <2> DEFINE new == [members[mc.m] EXCEPT !.status = Recreated(mc.obj).status]
  <2>1. mc.pc = "repairStatus" /\ mc.m \in Members
      BY <1>0, <1>4 DEF RepairStatus
  <2>2. new.spec = members[mc.m].spec
      BY <1>0, <2>1 DEF Member
  <2>3. /\ UNCHANGED members \/ StoreMember(mc.m, new)
        /\ \E obj : Continue("repairSpec", obj)
      BY <1>4 DEF RepairStatus
  <2> HIDE DEF new
  <2>4. mc'.m = mc.m /\ members'[mc.m].spec = members[mc.m].spec
      BY <1>0, <2>1, <2>2, <2>3, ContinueFields DEF StoreMember
  <2> QED
      BY <2>1, <2>4 DEF RepairMarked, RepairSteps
<1>5. CASE \/ RepairDeletePod \/ RepairDeletePVC \/ ReaddRemove \/ ReaddAdd
           \/ ReaddAddReplyLost \/ RepairStatusFails
  <2>1. mc.pc \in RepairSteps /\ UNCHANGED members
      BY <1>5 DEF RepairDeletePod, RepairDeletePVC, ReaddRemove, ReaddAdd, ReaddAddReplyLost,
        RepairStatusFails, RepairSteps
  <2>2. mc'.m = mc.m
      BY <1>0, <1>5, ContinueFields, ReturnFields DEF RepairDeletePod, RepairDeletePVC,
        ReaddRemove, ReaddAdd, ReaddAddReplyLost, RepairStatusFails
  <2> QED
      BY <2>1, <2>2 DEF RepairMarked
<1>6. CASE \/ RepairSpec \/ RepairSpecFails \/ Certificates \/ EnsurePVC \/ UpdatePod \/ EnsurePod
           \/ MemberCallFails \/ MemberStatusUpdate \/ MemberStatusUpdateFails
  <2>1. mc'.pc \notin RepairSteps
      BY <1>0, <1>6, ContinueFields, ReturnFields
         DEF RepairSpec, RepairSpecFails, Certificates, EnsurePVC, UpdatePod, EnsurePod,
        MemberCallFails, MemberStatusUpdate, MemberStatusUpdateFails, FinishMember,
        IdleMemberWorker, AfterCertificates, AfterPVC, RepairSteps
  <2> QED
      BY <2>1 DEF RepairMarked
<1> QED
    BY <1>1, <1>2, <1>3, <1>4, <1>5, <1>6
       DEF Next, Step, MemberReconcile, MemberWorkerStep, MemberWorkerFault

\* While nobody asks for another version, no pod is replaced without need, whatever
\* fails and however often the certificates are renewed and the manager crashes, in
\* a cluster of any size that is created or runs: a pod is deleted for the mark on
\* its member, or for a peer certificate younger than it, not for what is left of
\* either in an old status (member_controller.go:76, 91-96, 198-214). The caches of
\* the members and of the pods keep up, see RecordedRepairsRestartOnce and the README.
THEOREM PodsRestartForCause ==
    ASSUME "pods" \notin Lagging, "members" \notin Lagging
    PROVE  Spec /\ VersionStays => NoNeedlessRestart
<1>1. RepairMarked /\ ReplaceDue => DeleteDue /\ UpdateDue
    BY DEF RepairMarked, DeleteDue, ReplaceDue, UpdateDue, RepairSteps
<1>2. Init => RepairMarked
    BY DEF Init, IdleMemberWorker, RepairMarked, RepairSteps
<1>3. TypeOK /\ Repairing /\ MarkMeans /\ RepairMarked /\ [Next]_vars => RepairMarked'
    BY RepairMarkedInductive
<1>4. Spec /\ VersionStays => [](TypeOK /\ Repairing /\ MarkMeans /\ OneVersion /\ ReplaceDue)
    BY ReplaceDueInvariant
<1> QED
    BY <1>1, <1>2, <1>3, <1>4, RestartsFromDue, PTL DEF Spec, NoNeedlessRestart

-----------------------------------------------------------------------------
(* Where it does not, a repair may be begun again after its end: it finds   *)
(* no pod then, unless the one made for the member recreated is there.      *)

\* The cache shows a mark that is not stored any more: the pod is not made yet ...
StaleTaken ==
    \A k \in Members : mcache[k].spec.broken /\ ~members[k].spec.broken => pods[k].state = "none"

\* ... and the worker that goes on after the repair waits for the claim first.
StaleBuild ==
    mc.pc \in BuildSteps /\ mcache[mc.m].spec.broken /\ ~members[mc.m].spec.broken =>
        mc.obj.status.phase = "Recreating"

RestartKnown == StaleTaken /\ StaleBuild /\ RejoinsNext /\ DeleteDue

LEMMA OutsideRestartKnown ==
    ASSUME TypeOK, RestartKnown, Sync \/ EnvironmentStep \/ UNCHANGED vars PROVE RestartKnown'
<1>1. /\ UNCHANGED members /\ (mc' = mc \/ mc'.pc = "idle")
      /\ mcache' = mcache \/ mcache' = members
    BY OutsideEffect DEF OutsideChanges, IdleMemberWorker
<1>2. \A k \in Members : pods[k].state = "none" => pods'[k].state = "none"
    BY OutsidePods
<1>3. mc.pc # "idle" => mc.m \in Members
    BY Held DEF TypeOK
<1> QED
    BY <1>1, <1>2, <1>3 DEF RestartKnown, StaleTaken, StaleBuild, RejoinsNext, DeleteDue, BuildSteps

LEMMA ClusterRestartKnown ==
    ASSUME TypeOK, MarkMeans, RestartKnown, ClusterChanges PROVE RestartKnown'
<1>1. /\ UNCHANGED <<mcache, pods>> /\ WorkerKept
      /\ \A k \in Members : \/ members'[k].status = members[k].status
                            \/ members[k].status.phase = "Absent"
    BY DEF ClusterChanges, Keeps, Creates, Marks
<1>2. \A k \in Members : members[k].spec.broken => members'[k].spec.broken
    BY DEF ClusterChanges, Keeps, Creates, Marks, MarkMeans, MarkStands, MayBeBroken
<1>3. \A k \in Members : ~members'[k].spec.broken => ~members[k].spec.broken
    BY <1>2
<1>4. mc.pc # "idle" => mc.m \in Members
    BY Held DEF TypeOK
<1> QED
    BY <1>1, <1>2, <1>4
       DEF WorkerKept, RestartKnown, StaleTaken, StaleBuild, RejoinsNext, DeleteDue, BuildSteps

\* Steps of the member controller that store nothing and make no pod.
LEMMA QuietRestartKnown ==
    ASSUME TypeOK, MarkMeans, RestartKnown, UNCHANGED <<members, mcache>>,
           \A k \in Members : pods[k].state = "none" => pods'[k].state = "none",
           \/ mc' = mc
           \/ mc'.pc \in {"idle", "status", "deletePVC", "memberRemove", "memberAdd", "repairStatus"}
           \/ mc'.m = mc.m /\ mc.pc \in BuildSteps /\ mc'.pc \in BuildSteps
              /\ (mc'.obj.status.phase = mc.obj.status.phase \/ mc.pc = "updatePod")
    PROVE  RestartKnown'
<1>1. mc.pc # "idle" => mc.m \in Members
    BY Held DEF TypeOK
<1>2. StaleTaken'
    BY DEF RestartKnown, StaleTaken
<1>3. mc.pc = "updatePod" => ~(mcache[mc.m].spec.broken /\ ~members[mc.m].spec.broken)
    BY DEF MarkMeans, AfterRepair, BuildSteps
<1>4. StaleBuild'
    BY <1>3 DEF RestartKnown, StaleBuild, BuildSteps
<1>5. RejoinsNext' /\ DeleteDue'
    BY <1>1 DEF RestartKnown, RejoinsNext, DeleteDue, BuildSteps
<1> QED
    BY <1>2, <1>4, <1>5 DEF RestartKnown

LEMMA MemberRestartKnown ==
    ASSUME TypeOK, MarkMeans, RestartKnown, MemberReconcile, ~RepairStatusFails
    PROVE  RestartKnown'
<1>0. members \in [Members -> Member] /\ pods \in [Members -> Pod] /\ MemberWorkerTypeOK
      /\ (mc.pc # "idle" => mc.m \in Members /\ mc.obj \in Member)
    BY Held DEF TypeOK, StoreTypeOK, OwnedTypeOK
<1>c. UNCHANGED mcache
    BY WorkerEffect
<1>1. CASE \E m \in Members : GetMember(m)
  <2>1. PICK m \in Members : GetMember(m)
      BY <1>1
  <2>2. UNCHANGED <<members, pods>>
      BY <2>1 DEF GetMember
  <2>3. \/ mc' = mc
        \/ mc'.m = m /\ mc'.pc = (IF mcache[m].spec.broken THEN "deletePod" ELSE "certificates")
      BY <2>1 DEF GetMember
  <2>4. CASE mc' = mc
      BY <1>0, <1>c, <2>2, <2>4, QuietRestartKnown
  <2>5. CASE mc'.m = m /\ mcache[m].spec.broken /\ mc'.pc = "deletePod"
      BY <1>c, <2>2, <2>5 DEF RestartKnown, StaleTaken, StaleBuild, RejoinsNext, DeleteDue, BuildSteps
  <2>6. CASE mc'.m = m /\ ~mcache[m].spec.broken /\ mc'.pc = "certificates"
      BY <1>c, <2>2, <2>6 DEF RestartKnown, StaleTaken, StaleBuild, RejoinsNext, DeleteDue, BuildSteps
  <2> QED
      BY <2>3, <2>4, <2>5, <2>6
<1>2. CASE RepairDeletePod \/ RepairDeletePVC \/ ReaddRemove \/ ReaddAdd \/ ReaddAddReplyLost
  <2>1. UNCHANGED members /\ (UNCHANGED pods \/ (RepairDeletePod /\ pods[mc.m].state # "none"))
        /\ mc.pc # "idle"
      BY <1>2 DEF RepairDeletePod, RepairDeletePVC, ReaddRemove, ReaddAdd, ReaddAddReplyLost
  <2>2. \A k \in Members : pods[k].state = "none" => pods'[k].state = "none"
      BY <1>0, <2>1 DEF RepairDeletePod, DeletePod
  <2>3. mc'.pc \in {"status", "deletePVC", "memberRemove", "memberAdd", "repairStatus"}
      BY <1>0, <1>2, ContinueFields, ReturnFields
         DEF RepairDeletePod, RepairDeletePVC, ReaddRemove, ReaddAdd, ReaddAddReplyLost
  <2> QED
      BY <1>c, <2>1, <2>2, <2>3, QuietRestartKnown
<1>3. CASE RepairStatus
  <2> DEFINE new == [members[mc.m] EXCEPT !.status = Recreated(mc.obj).status]
  <2>1. mc.pc = "repairStatus" /\ mc.m \in Members /\ mc.obj \in Member /\ UNCHANGED pods
      BY <1>0, <1>3 DEF RepairStatus
  <2>2. new.spec = members[mc.m].spec /\ new.status.phase = "Recreating"
      BY <1>0, <2>1, ObjectFields DEF Member
  <2>3. \/ mc.fresh /\ StoreMember(mc.m, new) /\ Continue("repairSpec", new)
        \/ ~mc.fresh /\ UNCHANGED members /\ Continue("repairSpec", Recreated(mc.obj))
      BY <1>3 DEF RepairStatus
  <2> HIDE DEF new
  <2>4. mc'.pc = "repairSpec" /\ mc'.m = mc.m /\ mc'.fresh = mc.fresh
      BY <1>0, <2>3, ContinueFields
  <2>5. /\ mc.fresh => members'[mc.m].status.phase = "Recreating"
        /\ \A k \in Members : members'[k].spec = members[k].spec
      BY <1>0, <2>1, <2>2, <2>3 DEF StoreMember
  <2> QED
      BY <1>c, <2>1, <2>4, <2>5 DEF RestartKnown, StaleTaken, StaleBuild, RejoinsNext, DeleteDue,
        BuildSteps
<1>4. CASE RepairSpec
  <2> DEFINE new == [members[mc.m] EXCEPT !.spec = Mended(mc.obj).spec]
  <2>1. /\ mc.pc = "repairSpec" /\ mc.m \in Members /\ mc.obj \in Member /\ UNCHANGED pods
        /\ pods[mc.m].state = "none"
      BY <1>0, <1>4 DEF RepairSpec, MarkMeans, TakenApart, RepairSteps
  <2>2. new.status = members[mc.m].status
      BY <1>0, <2>1 DEF Member
  <2>3. \/ mc.fresh /\ StoreMember(mc.m, new) /\ Continue("certificates", new)
        \/ UNCHANGED members /\ Continue("certificates", Mended(mc.obj))
      BY <1>4 DEF RepairSpec
  <2> HIDE DEF new
  <2>4. mc'.pc = "certificates" /\ mc'.m = mc.m
      BY <1>0, <2>3, ContinueFields
  <2>5. StaleTaken'
      BY <1>0, <1>c, <2>1, <2>3 DEF StoreMember, RestartKnown, StaleTaken
  <2>6. CASE mc.fresh /\ StoreMember(mc.m, new) /\ Continue("certificates", new)
    <3>1. mc'.obj.status.phase = "Recreating"
        BY <1>0, <2>1, <2>2, <2>6, ContinueFields DEF RestartKnown, RejoinsNext
    <3> QED
        BY <2>4, <2>5, <3>1 DEF RestartKnown, StaleBuild, RejoinsNext, DeleteDue
  <2>7. CASE UNCHANGED members /\ Continue("certificates", Mended(mc.obj))
    <3>1. members[mc.m].spec.broken
        BY <2>1 DEF MarkMeans, StaleRepair, RepairSteps
    <3> QED
        BY <1>c, <2>4, <2>5, <2>7, <3>1 DEF RestartKnown, StaleBuild, RejoinsNext, DeleteDue
  <2> QED
      BY <2>3, <2>6, <2>7
<1>5. CASE RepairSpecFails
  <2>1. mc.pc = "repairSpec" /\ mc.m \in Members /\ UNCHANGED <<members, pods>>
        /\ members[mc.m].spec.broken
      BY <1>0, <1>5 DEF RepairSpecFails, MarkMeans, StaleRepair, RepairSteps
  <2>2. mc'.pc = "certificates" /\ mc'.m = mc.m
      BY <1>0, <1>5, ContinueFields DEF RepairSpecFails
  <2> QED
      BY <1>c, <2>1, <2>2 DEF RestartKnown, StaleTaken, StaleBuild, RejoinsNext, DeleteDue
<1>6. CASE Certificates \/ EnsurePVC \/ UpdatePod
  <2>1. mc.pc \in BuildSteps /\ mc.m \in Members /\ mc.obj \in Member /\ UNCHANGED members
      BY <1>0, <1>6 DEF Certificates, EnsurePVC, UpdatePod, BuildSteps
  <2>2. \A k \in Members : pods[k].state = "none" => pods'[k].state = "none"
      BY <1>0, <1>6 DEF Certificates, EnsurePVC, UpdatePod, DeletePod
  <2>3. \/ mc'.pc = "status"
        \/ /\ mc'.m = mc.m /\ mc'.pc \in BuildSteps
           /\ mc'.obj.status.phase = mc.obj.status.phase \/ mc.pc = "updatePod"
      BY <1>0, <1>6, <2>1, ContinueFields, ReturnFields, ObjectFields
         DEF Certificates, EnsurePVC, UpdatePod, AfterCertificates, AfterPVC, BuildSteps
  <2> QED
      BY <1>c, <2>1, <2>2, <2>3, QuietRestartKnown
<1>7. CASE EnsurePod
  <2>1. mc.pc = "pod" /\ mc.m \in Members /\ UNCHANGED members /\ mc'.pc = "status"
      BY <1>0, <1>7, ReturnFields DEF EnsurePod
  <2>2. ~(mcache[mc.m].spec.broken /\ ~members[mc.m].spec.broken)
      BY <2>1 DEF MarkMeans, AfterRepair, RestartKnown, StaleBuild, BuildSteps
  <2>3. \A k \in Members \ {mc.m} : pods'[k] = pods[k]
      BY <1>0, <1>7 DEF EnsurePod
  <2> QED
      BY <1>c, <2>1, <2>2, <2>3 DEF RestartKnown, StaleTaken, StaleBuild, RejoinsNext, DeleteDue,
        BuildSteps
<1>8. CASE MemberCallFails \/ MemberStatusUpdateFails
  <2>1. UNCHANGED <<members, pods>> /\ mc'.pc \in {"status", "idle"}
      BY <1>0, <1>8, ReturnFields DEF MemberCallFails, MemberStatusUpdateFails, FinishMember,
        IdleMemberWorker
  <2> QED
      BY <1>c, <2>1, QuietRestartKnown
<1>9. CASE MemberStatusUpdate
  <2> DEFINE new == [members[mc.m] EXCEPT !.status = mc.obj.status]
  <2>1. mc.m \in Members /\ UNCHANGED pods /\ mc'.pc = "idle"
      BY <1>0, <1>9 DEF MemberStatusUpdate, FinishMember, IdleMemberWorker
  <2>2. new.spec = members[mc.m].spec
      BY <1>0, <2>1 DEF Member
  <2>3. UNCHANGED members \/ StoreMember(mc.m, new)
      BY <1>9 DEF MemberStatusUpdate
  <2> HIDE DEF new
  <2>4. \A k \in Members : members'[k].spec = members[k].spec
      BY <1>0, <2>1, <2>2, <2>3 DEF StoreMember
  <2> QED
      BY <1>c, <2>1, <2>4 DEF RestartKnown, StaleTaken, StaleBuild, RejoinsNext, DeleteDue, BuildSteps
<1> QED
    BY <1>1, <1>2, <1>3, <1>4, <1>5, <1>6, <1>7, <1>8, <1>9
       DEF MemberReconcile, MemberWorkerStep, MemberWorkerFault

LEMMA RestartKnownInductive ==
    /\ TypeOK /\ Repairing /\ MarkMeans /\ RestartKnown
    /\ [Next]_vars /\ [~RepairStatusFails]_vars
    => RestartKnown'
<1> SUFFICES ASSUME TypeOK, Repairing, MarkMeans, RestartKnown, [Next]_vars,
                    [~RepairStatusFails]_vars
             PROVE  RestartKnown'
    OBVIOUS
<1>1. CASE Sync \/ EnvironmentStep \/ UNCHANGED vars
    BY <1>1, OutsideRestartKnown
<1>2. CASE ClusterReconcile
    BY <1>2, ClusterEffect, ClusterRestartKnown
<1>3. CASE MemberReconcile /\ ~UNCHANGED vars
    BY <1>3, MemberRestartKnown
<1> QED
    BY <1>1, <1>2, <1>3 DEF Next, Step

\* The same with a cache of the members however old, when the write is not lost that
\* says at the end of a repair that the member is being recreated
\* (member_controller.go:232-236): a repair that is begun again on an old member
\* finds no pod then, since the one for the member recreated waits for a claim
\* that is made in a later reconcile.
THEOREM RecordedRepairsRestartOnce ==
    ASSUME "pods" \notin Lagging
    PROVE  Spec /\ VersionStays /\ RepairIsRecorded => NoNeedlessRestart
<1>1. Init => RestartKnown
  <2> SUFFICES ASSUME Init PROVE RestartKnown
      OBVIOUS
  <2>1. mcache = members /\ mc.pc = "idle"
      BY DEF Init, IdleMemberWorker
  <2> QED
      BY <2>1 DEF RestartKnown, StaleTaken, StaleBuild, RejoinsNext, DeleteDue, BuildSteps
<1>2. Spec /\ VersionStays => [](TypeOK /\ Repairing /\ MarkMeans /\ OneVersion /\ ReplaceDue)
    BY ReplaceDueInvariant
<1>3. RestartKnown /\ ReplaceDue => DeleteDue /\ UpdateDue
    BY DEF RestartKnown, ReplaceDue, UpdateDue
<1> QED
    BY <1>1, <1>2, <1>3, RestartKnownInductive, RestartsFromDue, PTL
       DEF Spec, RepairIsRecorded, NoNeedlessRestart

-----------------------------------------------------------------------------
(* How many members are down at a time.  A member that nothing happened to *)
(* stays as it is.                                                          *)

Steady(k, v) ==
    /\ members[k] = RunningMember(v) /\ mcache[k] = RunningMember(v)
    /\ pods[k].state = "ready" /\ ~pods[k].terminating
    /\ pods[k].renewed = {} /\ pods[k].version = v
    /\ pcache[k] = pods[k]
    /\ etcd[k] = "started"
    /\ mc.pc # "idle" /\ mc.m = k =>
          mc.obj = RunningMember(v) /\ mc.pc \in {"certificates", "pod", "status"}

LEMMA InitSteady ==
    ASSUME FALSE \notin Deployed, Init, NEW k \in Members PROVE Steady(k, cluster.spec.version)
<1>1. PICK v, backup : InitRunning(v, backup)
    BY DEF Init
<1>2. mcache = members /\ pcache = pods /\ mc.pc = "idle"
    BY DEF Init, IdleMemberWorker
<1>3. pods[k] = RunningPod(v, backup) /\ members[k] = RunningMember(v) /\ etcd[k] = "started"
      /\ cluster.spec.version = v
    BY <1>1 DEF InitRunning
<1>4. /\ RunningPod(v, backup).state = "ready" /\ ~RunningPod(v, backup).terminating
      /\ RunningPod(v, backup).renewed = {} /\ RunningPod(v, backup).version = v
    BY DEF RunningPod, NoPod
<1> QED
    BY <1>2, <1>3, <1>4 DEF Steady

\* What is written back of a member that is up and up to date changes nothing.
LEMMA RunningFields ==
    ASSUME NEW v
    PROVE  /\ RunningMember(v).status.phase = "Running"
           /\ RunningMember(v).spec.broken = FALSE
           /\ RunningMember(v).spec.version = v /\ RunningMember(v).status.version = v
           /\ RunningMember(v).status.certificateExpires = FALSE
           /\ RunningMember(v).spec.certificateUpdate = FALSE
           /\ ~IsCreating(RunningMember(v)) /\ ~MemberShouldUpdate(RunningMember(v))
BY DEF RunningMember, IsCreating, MemberShouldUpdate

LEMMA SameAgain ==
    ASSUME NEW r \in Member
    PROVE  /\ [r EXCEPT !.status = r.status] = r
           /\ \A e : r.status.certificateExpires = e =>
                  [r EXCEPT !.status.certificateExpires = e] = r
           /\ \A u : r.spec.certificateUpdate = u => [r EXCEPT !.spec.certificateUpdate = u] = r
           /\ \A v : r.status.phase = "Running" /\ r.status.version = v =>
                  [r EXCEPT !.status.phase = "Running", !.status.version = v] = r
<1>1. [r EXCEPT !.status = r.status] = r
    BY DEF Member
<1>2. [r EXCEPT !.status.certificateExpires = r.status.certificateExpires] = r
    BY DEF Member, MemberStatus
<1>3. [r EXCEPT !.spec.certificateUpdate = r.spec.certificateUpdate] = r
    BY DEF Member, MemberSpec
<1>4. [r EXCEPT !.status.phase = r.status.phase, !.status.version = r.status.version] = r
    BY DEF Member, MemberStatus
<1> QED
    BY <1>1, <1>2, <1>3, <1>4

LEMMA RunningMemberType ==
    ASSUME NEW v \in Versions PROVE RunningMember(v) \in Member
BY BoundAssumption DEF RunningMember, Member, MemberSpec, MemberStatus, MemberPhases, Times

LEMMA RunningFixed ==
    ASSUME NEW v \in Versions
    PROVE  /\ [RunningMember(v) EXCEPT !.status = RunningMember(v).status] = RunningMember(v)
           /\ [RunningMember(v) EXCEPT !.status.certificateExpires = FALSE] = RunningMember(v)
           /\ WithCertificateUpdate(RunningMember(v)) = RunningMember(v)
           /\ \A pod : pod.state = "ready" => PodObserved(RunningMember(v), pod) = RunningMember(v)
<1> DEFINE r == RunningMember(v)
<1>1. r \in Member
    BY RunningMemberType
<1>2. /\ r.status.certificateExpires = FALSE
      /\ r.spec.certificateUpdate = r.status.certificateExpires
      /\ r.status.phase = "Running" /\ r.status.version = r.spec.version
    BY RunningFields
<1> HIDE DEF r
<1>3. /\ [r EXCEPT !.status = r.status] = r
      /\ [r EXCEPT !.status.certificateExpires = FALSE] = r
    BY <1>1, <1>2, SameAgain
<1>4. WithCertificateUpdate(r) = r
    BY <1>1, <1>2, SameAgain DEF WithCertificateUpdate
<1>5. \A pod : pod.state = "ready" => PodObserved(r, pod) = r
    BY <1>1, <1>2, SameAgain DEF PodObserved
<1> QED
    BY <1>3, <1>4, <1>5 DEF r

LEMMA MemberSteady ==
    ASSUME TypeOK, NEW v \in Versions, NEW k \in Members, Steady(k, v), MemberReconcile
    PROVE  Steady(k, v)'
<1>0. members \in [Members -> Member] /\ pods \in [Members -> Pod] /\ MemberWorkerTypeOK
      /\ (mc.pc # "idle" => mc.m \in Members /\ mc.obj \in Member)
    BY Held DEF TypeOK, StoreTypeOK, OwnedTypeOK
<1>c. UNCHANGED <<mcache, pcache>>
    BY DEF MemberReconcile, MemberWorkerStep, MemberWorkerFault, GetMember,
        RepairDeletePod, RepairDeletePVC, ReaddRemove, ReaddAdd, ReaddAddReplyLost, RepairStatus,
        RepairStatusFails, RepairSpec, RepairSpecFails, Certificates, EnsurePVC, UpdatePod,
        EnsurePod, MemberCallFails, MemberStatusUpdate, MemberStatusUpdateFails, objectsUnchanged
<1>1. CASE \E m \in Members : GetMember(m)
  <2>1. PICK m \in Members : GetMember(m)
      BY <1>1
  <2>2. UNCHANGED <<members, pods, etcd>> /\ mc.pc = "idle"
      BY <2>1 DEF GetMember
  <2>3. mc' = mc \/ (mc'.m = m /\ mc'.obj = mcache[m]
                     /\ mc'.pc = (IF mcache[m].spec.broken THEN "deletePod" ELSE "certificates"))
      BY <2>1 DEF GetMember
  <2>4. m = k => mcache[m] = RunningMember(v) /\ RunningMember(v).spec.broken = FALSE
      BY RunningFields DEF Steady
  <2>5. mc'.pc # "idle" /\ mc'.m = k => mc'.obj = RunningMember(v) /\ mc'.pc = "certificates"
      BY <2>2, <2>3, <2>4
  <2> QED
      BY <1>c, <2>2, <2>5 DEF Steady
<1>2. CASE mc.pc # "idle" /\ mc.m # k
  <2>1. members'[k] = members[k] /\ pods'[k] = pods[k] /\ etcd'[k] = etcd[k]
      BY <1>2, OthersKept
  <2>2. mc'.pc = "idle" \/ mc'.m = mc.m
      BY <1>2, WorkerEffect DEF Reads, Works, Stores, Ends, IdleMemberWorker
  <2> QED
      BY <1>2, <1>c, <2>1, <2>2 DEF Steady
<1>3. CASE mc.pc # "idle" /\ mc.m = k
  <2>1. mc.obj = RunningMember(v) /\ mc.pc \in {"certificates", "pod", "status"}
        /\ members[k] = RunningMember(v)
      BY <1>3 DEF Steady
  <2>2. \/ Certificates \/ EnsurePod \/ MemberCallFails \/ MemberStatusUpdate
        \/ MemberStatusUpdateFails
      BY <1>3, <2>1 DEF MemberReconcile, MemberWorkerStep, MemberWorkerFault, GetMember,
        RepairDeletePod, RepairDeletePVC, ReaddRemove, ReaddAdd, ReaddAddReplyLost, RepairStatus,
        RepairStatusFails, RepairSpec, RepairSpecFails, EnsurePVC, UpdatePod
  <2>3. UNCHANGED etcd
      BY <2>2 DEF Certificates, EnsurePod, MemberCallFails, MemberStatusUpdate,
        MemberStatusUpdateFails
  <2>4. CASE Certificates
    <3>1. "peer" \notin pcache[k].renewed /\ pcache[k].state # "none"
        BY DEF Steady
    <3>e. CertificateExpires(mc.m) = FALSE
        BY <1>3, <3>1 DEF CertificateExpires
    <3>2. Checked(mc.obj, mc.m) = RunningMember(v)
        BY <1>3, <2>1, <3>1, <3>e, RunningFixed DEF Checked
    <3>3. AfterCertificates(RunningMember(v)) = "pod"
        BY RunningFields DEF AfterCertificates, AfterPVC
    <3>4. UNCHANGED <<members, pods>> /\ mc'.obj = RunningMember(v) /\ mc'.pc \in {"pod", "status"}
        BY <1>0, <2>1, <2>4, <3>2, <3>3, ContinueFields, ReturnFields DEF Certificates
    <3> QED
        BY <1>c, <2>3, <3>4 DEF Steady
  <2>5. CASE EnsurePod
    <3>1. pcache[k].state = "ready"
        BY DEF Steady
    <3>2. PodObserved(mc.obj, pcache[k]) = RunningMember(v)
        BY <2>1, <3>1, RunningFixed
    <3>3. UNCHANGED <<members, pods>> /\ mc'.obj = RunningMember(v) /\ mc'.pc = "status"
        BY <1>0, <1>3, <2>5, <3>1, <3>2, ReturnFields DEF EnsurePod
    <3> QED
        BY <1>c, <2>3, <3>3 DEF Steady
  <2>6. CASE MemberCallFails
    <3>1. UNCHANGED <<members, pods>> /\ mc'.obj = RunningMember(v) /\ mc'.pc = "status"
        BY <1>0, <2>1, <2>6, ReturnFields DEF MemberCallFails
    <3> QED
        BY <1>c, <2>3, <3>1 DEF Steady
  <2>7. CASE MemberStatusUpdate \/ MemberStatusUpdateFails
    <3>1. UNCHANGED members \/ StoreMember(k, RunningMember(v))
        BY <1>3, <2>1, <2>7, RunningFixed DEF MemberStatusUpdate, MemberStatusUpdateFails
    <3>2. members'[k] = RunningMember(v)
        BY <1>0, <2>1, <3>1 DEF StoreMember
    <3>3. UNCHANGED pods /\ mc'.pc = "idle"
        BY <2>7 DEF MemberStatusUpdate, MemberStatusUpdateFails, FinishMember, IdleMemberWorker
    <3> QED
        BY <1>c, <2>3, <3>2, <3>3 DEF Steady
  <2> QED
      BY <2>2, <2>4, <2>5, <2>6, <2>7
<1> QED
    BY <1>1, <1>2, <1>3
       DEF MemberReconcile, MemberWorkerStep, MemberWorkerFault,
        RepairDeletePod, RepairDeletePVC, ReaddRemove, ReaddAdd, ReaddAddReplyLost, RepairStatus,
        RepairStatusFails, RepairSpec, RepairSpecFails, Certificates, EnsurePVC, UpdatePod,
        EnsurePod, MemberCallFails, MemberStatusUpdate, MemberStatusUpdateFails

\* The cluster controller leaves it alone, unless it has another version for it.
LEMMA ClusterSteady ==
    ASSUME TypeOK, Repairing, NEW v \in Versions, NEW k \in Members, Steady(k, v),
           ClusterReconcile,
           cc.pc = "update" /\ cc.i = k => cc.obj.spec.version = v
    PROVE  Steady(k, v)'
<1>0. members \in [Members -> Member]
    BY DEF TypeOK, StoreTypeOK
<1>1. UNCHANGED <<mcache, pods, pcache, etcd>> /\ WorkerKept
    BY ClusterEffect DEF ClusterChanges
<1>2. SUFFICES members'[k] = members[k]
    BY <1>1 DEF Steady, WorkerKept
<1>3. mcache[k] = RunningMember(v) /\ members[k] = RunningMember(v)
    BY DEF Steady
<1>4. ASSUME NEW i \in Members, RepairMember(i) PROVE members'[k] = members[k]
  <2>1. i # k
      BY <1>3, <1>4, RunningFields DEF RepairMember, Oldest, Overdue
  <2> QED
      BY <1>0, <1>4, <2>1 DEF RepairMember, UpdateMember, StoreMember
<1>5. CASE UpdateMemberVersion
  <2>1. cc.i # k
    <3>1. cc.pc = "update" /\ mcache[cc.i].spec.version # cc.obj.spec.version
        BY <1>5 DEF UpdateMemberVersion, Current
    <3>2. mcache[k].spec.version = v
        BY <1>3, RunningFields
    <3> QED
        BY <3>1, <3>2
  <2> QED
      BY <1>0, <1>5, <2>1 DEF UpdateMemberVersion, UpdateMember, StoreMember
<1>6. CASE UpdateMemberCertificate
  <2>1. cc.i = k => WithCertificateUpdate(Current) = RunningMember(v)
      BY <1>3, RunningFixed DEF Current
  <2>2. UNCHANGED members \/ StoreMember(cc.i, WithCertificateUpdate(Current))
      BY <1>6 DEF UpdateMemberCertificate, UpdateMember
  <2> QED
      BY <1>0, <1>3, <2>1, <2>2 DEF StoreMember
<1>7. CASE EnsureMembers \/ EnsureMembersAlreadyExists \/ EnsureMembersCallFails
  <2>1. PICK created \in SUBSET NotCached : CreateMembers(created)
    <3>1. EnsureMembers => CreateMembers(NotCached)
        BY DEF EnsureMembers
    <3>2. EnsureMembersAlreadyExists \/ EnsureMembersCallFails =>
              \E n : CreateMembers({i \in NotCached : i < n})
        BY DEF EnsureMembersAlreadyExists, EnsureMembersCallFails, PanicAt
    <3>3. \A n : {i \in NotCached : i < n} \in SUBSET NotCached
        OBVIOUS
    <3> QED
        BY <1>7, <3>1, <3>2, <3>3
  <2>2. k \notin NotCached
      BY <1>3, RunningFields DEF NotCached
  <2> QED
      BY <2>1, <2>2 DEF CreateMembers
<1>8. CASE UNCHANGED members
    BY <1>8
<1> QED
    BY <1>4, <1>5, <1>6, <1>7, <1>8
       DEF ClusterReconcile, ClusterWorkerStep, ClusterWorkerFault, GetCluster, EnsureInfra,
        RepairWaits, RepairDeclined, UpdateMemberWaits, UpdateMemberDone, ClusterCallFails,
        ClusterStatusUpdate, ClusterStatusUpdateFails, storeUnchanged

\* Outside the controllers it takes an event to happen to it.
Strikes(k) == PodFails(k) \/ PodEvicted(k) \/ \E suffix \in Suffixes : RenewCertificate(k, suffix)

LEMMA OutsideSteady ==
    ASSUME TypeOK, NEW v, NEW k \in Members, Steady(k, v), ~Strikes(k),
           Sync \/ EnvironmentStep \/ UNCHANGED vars
    PROVE  Steady(k, v)'
<1>0. pods \in [Members -> Pod] /\ pcache \in [Members -> Pod] /\ etcd = [m \in Members |-> etcd[m]]
    BY DEF TypeOK, OwnedTypeOK
<1>1. UNCHANGED members /\ (mc' = mc \/ mc'.pc = "idle") /\ (mcache' = mcache \/ mcache' = members)
    BY OutsideEffect DEF OutsideChanges, IdleMemberWorker
<1>2. SUFFICES pods'[k] = pods[k] /\ pcache'[k] = pods[k] /\ etcd'[k] = "started"
    BY <1>1 DEF Steady
<1>3. pcache[k] = pods[k] /\ etcd[k] = "started" /\ pods[k].state = "ready" /\ ~pods[k].terminating
    BY DEF Steady
<1>4. CASE \/ Sync \/ ChangeVersion \/ Tick \/ Crash \/ RestartOnPanic \/ UNCHANGED vars
    BY <1>3, <1>4 DEF Sync, SyncCluster, SyncMembers, SyncPods, ChangeVersion, Tick, Crash,
        RestartOnPanic, RestartManager, vars
<1>5. ASSUME NEW m \in Members, KubeletStep(m) \/ Mishap(m)
      PROVE  pods'[k] = pods[k] /\ pcache'[k] = pods[k] /\ etcd'[k] = "started"
  <2>1. CASE m # k
      BY <1>0, <1>3, <1>5, <2>1 DEF KubeletStep, Mishap, PodReady, PodRecovers, Serve, PodFails,
        PodEvicted, PodGone, PvcGone, IssueCertificates, RenewCertificate, podUnchanged,
        certUnchanged
  <2>2. CASE m = k
      BY <1>3, <1>5, <2>2 DEF Strikes, KubeletStep, Mishap, PodReady, PodRecovers, Serve, PodGone,
        PvcGone, IssueCertificates, podUnchanged, certUnchanged
  <2> QED
      BY <2>1, <2>2
<1> QED
    BY <1>4, <1>5 DEF EnvironmentStep

\* What happens to one member leaves the others alone.
LEMMA StrikeSpares ==
    ASSUME TypeOK, NEW v, NEW k \in Members, Steady(k, v), NEW m \in Members, m # k, Strikes(m)
    PROVE  Steady(k, v)'
<1>0. pods \in [Members -> Pod] /\ pcache \in [Members -> Pod]
    BY DEF TypeOK, OwnedTypeOK
<1>1. UNCHANGED <<members, mcache, mc, etcd>> /\ pods'[k] = pods[k] /\ pcache'[k] = pcache[k]
    BY <1>0 DEF Strikes, PodFails, PodEvicted, RenewCertificate, podUnchanged, certUnchanged
<1> QED
    BY <1>1 DEF Steady

\* Failures, evictions and renewals so far: each strikes one member.
Struck == used.failures + used.renewals

LEMMA StruckCounts ==
    ASSUME TypeOK, [Next]_vars
    PROVE  /\ Struck \in Nat
           /\ \/ Struck' = Struck /\ \A m \in Members : ~Strikes(m)
              \/ Struck' = Struck + 1 /\ \E m \in Members : Strikes(m)
<1>0. /\ used \in [failures : Nat, changes : Nat, renewals : Nat, faults : Nat]
      /\ Struck \in Nat
    BY BoundAssumption DEF TypeOK, BoundsOK, Budgets, Struck
<1>1. ASSUME NEW m \in Members, Strikes(m) PROVE Struck' = Struck + 1
    BY <1>0, <1>1 DEF Strikes, PodFails, PodEvicted, RenewCertificate, Failure, Struck
<1>2. ASSUME UNCHANGED used \/ Fault PROVE Struck' = Struck
    BY <1>0, <1>2 DEF Fault, Struck
<1>3. CASE MemberReconcile \/ ClusterReconcile
  <2>1. UNCHANGED used \/ Fault
      BY <1>3 DEF MemberReconcile, MemberWorkerStep, MemberWorkerFault, GetMember,
        RepairDeletePod, RepairDeletePVC, ReaddRemove, ReaddAdd, ReaddAddReplyLost, RepairStatus,
        RepairStatusFails, RepairSpec, RepairSpecFails, Certificates, EnsurePVC, UpdatePod,
        EnsurePod, MemberCallFails, MemberStatusUpdate, MemberStatusUpdateFails,
        ClusterReconcile, ClusterWorkerStep, ClusterWorkerFault, GetCluster, EnsureInfra,
        EnsureMembers, EnsureMembersAlreadyExists, EnsureMembersCallFails,
        RepairWaits, RepairDeclined, RepairMember, UpdateMemberWaits, UpdateMemberVersion,
        UpdateMemberCertificate, UpdateMemberDone, ClusterCallFails, ClusterStatusUpdate,
        ClusterStatusUpdateFails
  <2> QED
      BY <1>0, <1>1, <1>2, <2>1
<1>4. CASE Sync \/ Tick \/ Crash \/ RestartOnPanic \/ UNCHANGED vars
  <2>1. UNCHANGED used \/ Fault
      BY <1>4 DEF Sync, SyncCluster, SyncMembers, SyncPods, Tick, Crash, RestartOnPanic, vars
  <2> QED
      BY <1>0, <1>1, <1>2, <2>1
<1>5. CASE ChangeVersion
  <2>1. Struck' = Struck
      BY <1>0, <1>5 DEF ChangeVersion, Struck
  <2> QED
      BY <1>0, <1>1, <2>1
<1>6. ASSUME NEW m \in Members, KubeletStep(m) \/ PodRecovers(m) PROVE UNCHANGED used
    BY <1>6 DEF KubeletStep, PodReady, PodRecovers, Serve, PodGone, PvcGone, IssueCertificates,
        podUnchanged, certUnchanged
<1>7. CASE \E m \in Members : KubeletStep(m) \/ Mishap(m)
    BY <1>0, <1>1, <1>2, <1>6, <1>7 DEF Mishap, Strikes
<1> QED
    BY <1>3, <1>4, <1>5, <1>7 DEF Next, Step, EnvironmentStep

Unsteady(v) == {k \in Members : ~Steady(k, v)}

LEMMA StepSteady ==
    ASSUME TypeOK, Repairing, OneVersion, [Next]_vars, NEW v \in Versions, v = cluster.spec.version
    PROVE  \/ Struck' = Struck /\ Unsteady(v)' \subseteq Unsteady(v)
           \/ Struck' = Struck + 1
              /\ \E m \in Members : Unsteady(v)' \subseteq Unsteady(v) \cup {m}
<1>1. CASE \E m \in Members : Strikes(m)
  <2>1. PICK m \in Members : Strikes(m)
      BY <1>1
  <2>2. Struck' = Struck + 1
      BY <1>1, StruckCounts
  <2>3. Unsteady(v)' \subseteq Unsteady(v) \cup {m}
      BY <2>1, StrikeSpares DEF Unsteady
  <2> QED
      BY <2>2, <2>3
<1>2. CASE \A m \in Members : ~Strikes(m)
  <2>1. Struck' = Struck
      BY <1>2, StruckCounts
  <2>2. cc.pc = "update" => cc.obj.spec.version = v
      BY DEF OneVersion, Agrees, ClusterAgrees
  <2>3. ASSUME NEW k \in Members, Steady(k, v) PROVE Steady(k, v)'
      BY <1>2, <2>2, <2>3, MemberSteady, ClusterSteady, OutsideSteady DEF Next, Step
  <2>4. Unsteady(v)' \subseteq Unsteady(v)
      BY <2>3 DEF Unsteady
  <2> QED
      BY <2>1, <2>4
<1> QED
    BY <1>1, <1>2

FewUnsteady == Cardinality(Unsteady(cluster.spec.version)) <= Struck

LEMMA UnsteadyFinite ==
    ASSUME NEW S \in SUBSET Members
    PROVE  IsFiniteSet(S) /\ Cardinality(S) \in Nat
<1>1. IsFiniteSet(Members)
    BY FS_Interval, SizeAssumption DEF Members
<1> QED
    BY <1>1, FS_Subset, FS_CardinalityType

LEMMA FewUnsteadyInductive ==
    ASSUME TypeOK, Repairing, OneVersion, FewUnsteady, [Next]_vars,
           [cluster'.spec.version = cluster.spec.version]_vars
    PROVE  FewUnsteady'
<1>v. PICK v : v = cluster.spec.version
    OBVIOUS
<1>0. v \in Versions /\ cluster'.spec.version = v
    BY <1>v DEF TypeOK, StoreTypeOK, Cluster, ClusterSpec, vars
<1>1. Cardinality(Unsteady(v)) <= Struck /\ Struck \in Nat
    BY <1>v, StruckCounts DEF FewUnsteady
<1>2. Unsteady(v) \in SUBSET Members /\ Unsteady(v)' \in SUBSET Members
    BY DEF Unsteady
<1>3. \A m \in Members : /\ IsFiniteSet(Unsteady(v) \cup {m})
                         /\ Cardinality(Unsteady(v) \cup {m}) <= Cardinality(Unsteady(v)) + 1
    BY <1>2, UnsteadyFinite, FS_AddElement
<1>4. Cardinality(Unsteady(v)') <= Struck'
  <2>1. CASE Struck' = Struck /\ Unsteady(v)' \subseteq Unsteady(v)
      BY <1>1, <1>2, <2>1, UnsteadyFinite, FS_Subset
  <2>2. ASSUME Struck' = Struck + 1,
               NEW m \in Members, Unsteady(v)' \subseteq Unsteady(v) \cup {m}
        PROVE  Cardinality(Unsteady(v)') <= Struck'
    <3>1. Cardinality(Unsteady(v)') <= Cardinality(Unsteady(v) \cup {m})
        BY <1>3, <2>2, FS_Subset
    <3> QED
        BY <1>1, <1>2, <1>3, <2>2, <3>1, UnsteadyFinite
  <2> QED
      BY <1>0, <1>v, <2>1, <2>2, StepSteady
<1> QED
    BY <1>0, <1>4 DEF FewUnsteady, Unsteady

\* A deployed cluster whose version stays keeps a majority serving as long as fewer
\* than half of its members have been struck, by a pod that failed or was evicted or
\* by a renewed certificate, for any size, any caches, faults and restarts of the
\* manager: what the controllers do about a member that is down, a repair or a new
\* pod, never takes down one that is up (cluster_controller.go:251-331,
\* member_controller.go:76-108).
THEOREM MajorityServes ==
    ASSUME FALSE \notin Deployed
    PROVE  Spec /\ VersionStays => [](2 * Struck < Size => QuorumKept)
<1>1. Init => FewUnsteady
  <2> SUFFICES ASSUME Init PROVE FewUnsteady
      OBVIOUS
  <2>1. Unsteady(cluster.spec.version) = {}
      BY InitSteady DEF Unsteady
  <2>2. Struck = 0
      BY DEF Init, Struck
  <2> QED
      BY <2>1, <2>2, FS_EmptySet DEF FewUnsteady
<1>2. TypeOK /\ FewUnsteady => (2 * Struck < Size => QuorumKept)
  <2> SUFFICES ASSUME TypeOK, FewUnsteady, 2 * Struck < Size PROVE QuorumKept
      OBVIOUS
  <2> DEFINE U == Unsteady(cluster.spec.version)
  <2>1. Members \ U \subseteq Serving /\ Serving \subseteq Members /\ U \subseteq Members
      BY DEF Unsteady, Steady, Serving
  <2>2. Struck \in Nat
      BY BoundAssumption DEF TypeOK, BoundsOK, Budgets, Struck
  <2>3. IsFiniteSet(Members) /\ Cardinality(Members) = Size
      BY <2>2, FS_Interval, SizeAssumption DEF Members
  <2>4. Cardinality(Members \ U) = Size - Cardinality(U)
    <3>1. Members \cap U = U
        BY <2>1
    <3> QED
        BY <2>3, <3>1, FS_Difference
  <2>5. Cardinality(Members \ U) <= Cardinality(Serving)
      BY <2>1, UnsteadyFinite, FS_Subset
  <2>6. Cardinality(U) \in Nat /\ Cardinality(Serving) \in Nat
      BY <2>1, UnsteadyFinite
  <2>7. Cardinality(U) <= Struck
      BY DEF FewUnsteady
  <2> QED
      BY <2>2, <2>4, <2>5, <2>6, <2>7, SizeAssumption DEF QuorumKept
<1>3. /\ TypeOK /\ Repairing /\ OneVersion /\ [Next]_vars
      /\ [cluster'.spec.version = cluster.spec.version]_vars
      => OneVersion'
    BY OneVersionInductive
<1>4. /\ TypeOK /\ Repairing /\ OneVersion /\ FewUnsteady /\ [Next]_vars
      /\ [cluster'.spec.version = cluster.spec.version]_vars
      => FewUnsteady'
    BY FewUnsteadyInductive
<1> QED
    BY <1>1, <1>2, <1>3, <1>4, InitOneVersion, MarkMeansInvariant, PTL DEF Spec, VersionStays

-----------------------------------------------------------------------------
(* A rolling update of a cluster to which nothing else happens.  A member   *)
(* is up with the old version w or with the new version v, or it is its     *)
(* turn: it was told the new version and its pod is being replaced.         *)

Turning(w, v, phase) ==
    [spec   |-> RunningMember(v).spec,
     status |-> [version |-> w, phase |-> phase, failedTime |-> 0, certificateExpires |-> FALSE]]
OutOfDate(w, v) == Turning(w, v, "Running")
Moving(w, v)    == Turning(w, v, "Updating")

\* Steady, whether or not the caches show it.
Up(k, v) ==
    /\ members[k] = RunningMember(v)
    /\ pods[k].state = "ready" /\ ~pods[k].terminating
    /\ pods[k].renewed = {} /\ pods[k].version = v
    /\ etcd[k] = "started"
    /\ mc.pc # "idle" /\ mc.m = k =>
          mc.obj = RunningMember(v) /\ mc.pc \in {"certificates", "pod", "status"}

\* The old pod is gone.
Replaced(k, v) == pods[k].state # "none" => pods[k].version = v /\ ~pods[k].terminating

\* What the member worker may hold: the member before it was told, which it will not
\* write; as it was told; with its old pod gone; or with its new pod ready.
HeldTurn(k, w, v) ==
    \/ /\ mc.obj = RunningMember(w) /\ ~mc.fresh /\ mc.pc \in {"certificates", "pod", "status"}
       /\ pods[k].state = "ready" /\ ~pods[k].terminating
    \/ /\ mc.obj = OutOfDate(w, v) /\ mc.pc \in {"certificates", "updatePod", "status"}
       /\ members[k] = OutOfDate(w, v)
    \/ /\ mc.obj = Moving(w, v) /\ mc.pc \in {"certificates", "pod", "status"}
       /\ Replaced(k, v)
    \/ /\ mc.obj = RunningMember(v) /\ mc.pc = "status"
       /\ Replaced(k, v) /\ pods[k].state = "ready"

Turn(k, w, v) ==
    /\ members[k] \in {OutOfDate(w, v), Moving(w, v)}
    /\ members[k] = Moving(w, v) => Replaced(k, v)
    /\ pods[k].state # "unready" /\ pods[k].renewed = {}
    /\ etcd[k] = "started"
    /\ mc.pc # "idle" /\ mc.m = k => HeldTurn(k, w, v)

Told(k, v) == members[k].spec.version = v

\* The cluster controller tells one member after the other, and the next one when
\* the last one is up again.
Working == cc.pc \notin {"idle", "panicked"}
InOrder(v) ==
    /\ \A j, k \in Members : j < k /\ Told(k, v) => Up(j, v)
    /\ cc.pc = "update" /\ cc.obj.spec.version = v => \A j \in Members : j < cc.i => Up(j, v)

\* Having told one, it does not go back to the old version.
VersionsKnown(w, v) ==
    /\ cluster.spec.version = v /\ ccache.spec.version \in {w, v}
    /\ Working => /\ cc.obj.spec.version \in {w, v}
                  /\ cc.obj.spec.version = v => ccache.spec.version = v
    /\ (\E k \in Members : Told(k, v)) =>
          ccache.spec.version = v /\ (Working => cc.obj.spec.version = v)

InTurn(k, w, v) == Up(k, w) \/ Up(k, v) \/ Turn(k, w, v)

RollingFrom(w, v) ==
    /\ w # v
    /\ \A k \in Members : InTurn(k, w, v)
    /\ InOrder(v) /\ VersionsKnown(w, v)

Rolling == \E w \in Versions : RollingFrom(w, cluster.spec.version)

\* What the reconcilers make of a member whose turn it is.
LEMMA MemberEqual ==
    ASSUME NEW r \in Member, NEW s \in Member, r.spec = s.spec,
           r.status.version = s.status.version, r.status.phase = s.status.phase,
           r.status.failedTime = s.status.failedTime,
           r.status.certificateExpires = s.status.certificateExpires
    PROVE  r = s
<1>1. r.status = s.status
    BY DEF Member, MemberStatus
<1> QED
    BY <1>1 DEF Member

LEMMA OutOfDateFields ==
    ASSUME NEW w \in Versions, NEW v \in Versions
    PROVE  /\ OutOfDate(w, v) \in Member
           /\ OutOfDate(w, v).spec = RunningMember(v).spec
           /\ OutOfDate(w, v).status.version = w
           /\ OutOfDate(w, v).status.phase = "Running"
           /\ OutOfDate(w, v).status.failedTime = 0
           /\ OutOfDate(w, v).status.certificateExpires = FALSE
<1>1. RunningMember(v).spec \in MemberSpec
    BY RunningMemberType DEF Member
<1>2. OutOfDate(w, v) \in Member
    BY <1>1, BoundAssumption DEF OutOfDate, Turning, Member, MemberStatus, MemberPhases, Times
<1> QED
    BY <1>2 DEF OutOfDate, Turning

LEMMA MovingFields ==
    ASSUME NEW w \in Versions, NEW v \in Versions
    PROVE  /\ Moving(w, v) \in Member
           /\ Moving(w, v).spec = RunningMember(v).spec
           /\ Moving(w, v).status.version = w
           /\ Moving(w, v).status.phase = "Updating"
           /\ Moving(w, v).status.failedTime = 0
           /\ Moving(w, v).status.certificateExpires = FALSE
<1>1. RunningMember(v).spec \in MemberSpec
    BY RunningMemberType DEF Member
<1>2. Moving(w, v) \in Member
    BY <1>1, BoundAssumption DEF Moving, Turning, Member, MemberStatus, MemberPhases, Times
<1> QED
    BY <1>2 DEF Moving, Turning

LEMMA StatusWritten ==
    ASSUME NEW r \in Member, NEW s \in Member, r.spec = s.spec
    PROVE  [r EXCEPT !.status = s.status] = s
BY DEF Member

LEMMA TurningSteps ==
    ASSUME NEW w \in Versions, NEW v \in Versions
    PROVE  /\ [OutOfDate(w, v) EXCEPT !.status.phase = "Updating"] = Moving(w, v)
           /\ PodCreated(Moving(w, v)) = Moving(w, v)
           /\ \A pod : PodObserved(Moving(w, v), pod) =
                          IF pod.state = "ready" THEN RunningMember(v) ELSE Moving(w, v)
           /\ w # v => MemberShouldUpdate(OutOfDate(w, v))
           /\ ~MemberShouldUpdate(Moving(w, v))
           /\ ~IsCreating(OutOfDate(w, v)) /\ ~IsCreating(Moving(w, v))
           /\ [OutOfDate(w, v) EXCEPT !.status.certificateExpires = FALSE] = OutOfDate(w, v)
           /\ [Moving(w, v) EXCEPT !.status.certificateExpires = FALSE] = Moving(w, v)
<1> DEFINE a == OutOfDate(w, v)
           b == Moving(w, v)
           r == RunningMember(v)
<1>a. /\ a \in Member /\ a.spec = r.spec /\ a.status.version = w
      /\ a.status.phase = "Running" /\ a.status.failedTime = 0
      /\ a.status.certificateExpires = FALSE
    BY OutOfDateFields
<1>b. /\ b \in Member /\ b.spec = r.spec /\ b.status.version = w
      /\ b.status.phase = "Updating" /\ b.status.failedTime = 0
      /\ b.status.certificateExpires = FALSE
    BY MovingFields
<1>1. r \in Member /\ r.status.failedTime = 0
    BY RunningMemberType DEF RunningMember
<1>2. /\ r.spec.version = v /\ r.status.version = v /\ r.status.phase = "Running"
      /\ r.status.certificateExpires = FALSE
    BY RunningFields
<1> HIDE DEF a, b, r
<1>3. [a EXCEPT !.status.phase = "Updating"] = b
  <2> DEFINE s == [a EXCEPT !.status.phase = "Updating"]
  <2>1. s \in Member /\ s.spec = a.spec /\ s.status = [a.status EXCEPT !.phase = "Updating"]
      BY <1>a, <1>b, <1>1 DEF Member, MemberStatus, MemberPhases
  <2>2. /\ s.status.version = w /\ s.status.phase = "Updating" /\ s.status.failedTime = 0
        /\ s.status.certificateExpires = FALSE
      BY <1>a, <1>b, <1>1, <2>1 DEF Member, MemberStatus
  <2> HIDE DEF s
  <2>3. s.status.certificateExpires = b.status.certificateExpires
      BY <1>b, <2>2
  <2>4. s = b
      BY <1>a, <1>b, <2>1, <2>2, <2>3, MemberEqual
  <2> QED
      BY <2>4 DEF s
<1>4. [b EXCEPT !.status.phase = "Running", !.status.version = b.spec.version] = r
  <2> DEFINE s == [b EXCEPT !.status.phase = "Running", !.status.version = b.spec.version]
  <2>0. b.spec.version = v
      BY <1>a, <1>b, <1>1, <1>2
  <2>1. /\ s.spec = b.spec
        /\ s.status = [[b.status EXCEPT !.phase = "Running"] EXCEPT !.version = v]
      BY <1>a, <1>b, <1>1, <2>0 DEF Member, MemberStatus
  <2>2. /\ s.status.version = v /\ s.status.phase = "Running" /\ s.status.failedTime = 0
        /\ s.status.certificateExpires = FALSE
      BY <1>a, <1>b, <1>1, <2>1 DEF Member, MemberStatus
  <2>3. s \in Member
      BY <1>a, <1>b, <1>1, <2>0 DEF Member, MemberStatus, MemberPhases
  <2> HIDE DEF s
  <2>4. s = r
      BY <1>a, <1>b, <1>1, <1>2, <2>1, <2>2, <2>3, MemberEqual
  <2> QED
      BY <2>4 DEF s
<1>5. PodCreated(b) = b
    BY <1>a, <1>b, <1>1 DEF PodCreated
<1>6. \A pod : PodObserved(b, pod) = IF pod.state = "ready" THEN r ELSE b
    BY <1>a, <1>b, <1>1, <1>4 DEF PodObserved
<1>7. /\ w # v => MemberShouldUpdate(a)
      /\ ~MemberShouldUpdate(b) /\ ~IsCreating(a) /\ ~IsCreating(b)
    BY <1>a, <1>b, <1>1, <1>2 DEF MemberShouldUpdate, IsCreating
<1>8. /\ [a EXCEPT !.status.certificateExpires = FALSE] = a
      /\ [b EXCEPT !.status.certificateExpires = FALSE] = b
    BY <1>a, <1>b, <1>1, SameAgain
<1> QED
    BY <1>3, <1>5, <1>6, <1>7, <1>8 DEF a, b, r

LEMMA TurningApart ==
    ASSUME NEW w \in Versions, NEW v \in Versions, w # v
    PROVE  /\ OutOfDate(w, v).spec = RunningMember(v).spec
           /\ Moving(w, v).spec = RunningMember(v).spec
           /\ RunningMember(v).spec.broken = FALSE /\ RunningMember(v).spec.version = v
           /\ OutOfDate(w, v) # Moving(w, v)
           /\ RunningMember(v) # OutOfDate(w, v) /\ RunningMember(v) # Moving(w, v)
           /\ RunningMember(w) # OutOfDate(w, v) /\ RunningMember(w) # Moving(w, v)
           /\ RunningMember(w) # RunningMember(v)
BY DEF OutOfDate, Moving, Turning, RunningMember

\* A member whose turn it is comes to have a new pod, and is up when it says so.
LEMMA TurnMember ==
    ASSUME TypeOK, mcache = members, pcache = pods, NEW w \in Versions, NEW v \in Versions, w # v,
           NEW k \in Members, Turn(k, w, v), MemberReconcile
    PROVE  Turn(k, w, v)' \/ Up(k, v)'
<1>0. members \in [Members -> Member] /\ pods \in [Members -> Pod] /\ MemberWorkerTypeOK
      /\ (mc.pc # "idle" => mc.m \in Members /\ mc.obj \in Member)
    BY Held DEF TypeOK, StoreTypeOK, OwnedTypeOK
<1>f. /\ OutOfDate(w, v).spec = RunningMember(v).spec
      /\ Moving(w, v).spec = RunningMember(v).spec
      /\ RunningMember(v).spec.broken = FALSE /\ RunningMember(v).spec.version = v
      /\ OutOfDate(w, v) # Moving(w, v)
      /\ RunningMember(v) # OutOfDate(w, v) /\ RunningMember(v) # Moving(w, v)
      /\ RunningMember(w) # OutOfDate(w, v)
    BY TurningApart
<1>1. ASSUME UNCHANGED <<members, pods, etcd>>,
             mc'.pc # "idle" /\ mc'.m = k => HeldTurn(k, w, v)'
      PROVE  Turn(k, w, v)'
    BY <1>1 DEF Turn, Replaced
<1>2. CASE \E m \in Members : GetMember(m)
  <2>1. PICK m \in Members : GetMember(m)
      BY <1>2
  <2>2. UNCHANGED <<members, pods, etcd>> /\ mc.pc = "idle"
      BY <2>1 DEF GetMember
  <2>3. mc' = mc \/ (mc'.m = m /\ mc'.obj = members[m]
                     /\ mc'.pc = (IF members[m].spec.broken THEN "deletePod" ELSE "certificates"))
      BY <2>1 DEF GetMember
  <2>4. members[k].spec.broken = FALSE
      BY <1>f DEF Turn
  <2>5. mc'.pc # "idle" /\ mc'.m = k => mc'.obj = members[k] /\ mc'.pc = "certificates"
      BY <2>2, <2>3, <2>4
  <2>6. mc'.pc # "idle" /\ mc'.m = k => HeldTurn(k, w, v)'
      BY <2>2, <2>5 DEF Turn, HeldTurn, Replaced
  <2> QED
      BY <1>1, <2>2, <2>6
<1>3. CASE mc.pc # "idle" /\ mc.m # k
  <2>1. members'[k] = members[k] /\ pods'[k] = pods[k] /\ etcd'[k] = etcd[k]
      BY <1>3, OthersKept
  <2>2. mc'.pc = "idle" \/ mc'.m = mc.m
      BY <1>3, WorkerEffect DEF Reads, Works, Stores, Ends, IdleMemberWorker
  <2> QED
      BY <1>3, <2>1, <2>2 DEF Turn, Replaced
<1>4. CASE mc.pc # "idle" /\ mc.m = k
  <2>1. HeldTurn(k, w, v)
      BY <1>4 DEF Turn
  <2>2. \/ Certificates \/ UpdatePod \/ EnsurePod \/ MemberCallFails \/ MemberStatusUpdate
        \/ MemberStatusUpdateFails
      BY <1>4, <2>1 DEF HeldTurn, MemberReconcile, MemberWorkerStep, MemberWorkerFault, GetMember,
        RepairDeletePod, RepairDeletePVC, ReaddRemove, ReaddAdd, ReaddAddReplyLost, RepairStatus,
        RepairStatusFails, RepairSpec, RepairSpecFails, EnsurePVC
  <2>3. UNCHANGED etcd /\ pods[k].renewed = {} /\ pods[k].state # "unready"
      BY <2>2 DEF Certificates, UpdatePod, EnsurePod, MemberCallFails, MemberStatusUpdate,
        MemberStatusUpdateFails, Turn
  <2>4. CASE Certificates \/ MemberCallFails
    <3>1. UNCHANGED <<members, pods>>
        BY <2>4 DEF Certificates, MemberCallFails
    <3>2. CertificateExpires(k) = FALSE
        BY <2>3 DEF CertificateExpires
    <3>3. Checked(mc.obj, mc.m) = mc.obj
        BY <1>4, <2>1, <3>2, RunningFixed, TurningSteps DEF Checked, HeldTurn
    <3>4. AfterCertificates(mc.obj) =
              IF mc.obj = OutOfDate(w, v) THEN "updatePod" ELSE "pod"
      <4>1. ~IsCreating(RunningMember(w)) /\ ~MemberShouldUpdate(RunningMember(w))
          BY RunningFields
      <4>2. ~IsCreating(OutOfDate(w, v)) /\ MemberShouldUpdate(OutOfDate(w, v))
          BY TurningSteps
      <4>3. ~IsCreating(Moving(w, v)) /\ ~MemberShouldUpdate(Moving(w, v))
          BY TurningSteps
      <4>4. mc.obj \in {RunningMember(w), OutOfDate(w, v), Moving(w, v)}
          BY <2>1, <2>4 DEF HeldTurn, Certificates, MemberCallFails
      <4> QED
          BY <1>f, <4>1, <4>2, <4>3, <4>4 DEF AfterCertificates, AfterPVC
    <3>5. /\ mc'.obj = mc.obj /\ mc'.m = mc.m /\ mc'.fresh = mc.fresh
          /\ mc'.pc = "status" \/ mc'.pc = AfterCertificates(mc.obj)
        BY <1>0, <2>4, <3>3, ContinueFields, ReturnFields DEF Certificates, MemberCallFails
    <3>6. HeldTurn(k, w, v)'
      <4>1. mc.pc # "status"
          BY <2>4 DEF Certificates, MemberCallFails
      <4>2. CASE mc.obj = RunningMember(w) /\ ~mc.fresh /\ pods[k].state = "ready"
               /\ ~pods[k].terminating
          BY <1>f, <3>1, <3>4, <3>5, <4>2 DEF HeldTurn
      <4>3. CASE mc.obj = OutOfDate(w, v) /\ members[k] = OutOfDate(w, v)
          BY <3>1, <3>4, <3>5, <4>3 DEF HeldTurn
      <4>4. CASE mc.obj = Moving(w, v) /\ Replaced(k, v)
          BY <1>f, <3>1, <3>4, <3>5, <4>4 DEF HeldTurn, Replaced
      <4> QED
          BY <2>1, <4>1, <4>2, <4>3, <4>4 DEF HeldTurn
    <3> QED
        BY <1>1, <2>3, <3>1, <3>6
  <2>5. CASE UpdatePod
    <3>1. mc.obj = OutOfDate(w, v) /\ members[k] = OutOfDate(w, v) /\ UNCHANGED members
        BY <2>1, <2>5 DEF HeldTurn, UpdatePod
    <3>2. CASE pods[k].state = "none"
      <4>1. UNCHANGED pods /\ Continue("pod", Moving(w, v))
          BY <1>4, <2>5, <3>1, <3>2, TurningSteps DEF UpdatePod
      <4>2. mc'.obj = Moving(w, v) /\ mc'.pc = "pod"
          BY <1>0, <4>1, ContinueFields
      <4>3. HeldTurn(k, w, v)'
          BY <3>2, <4>1, <4>2 DEF HeldTurn, Replaced
      <4> QED
          BY <1>1, <2>3, <3>1, <4>1, <4>3
    <3>3. CASE pods[k].state # "none"
      <4>1. DeletePod(k) /\ Return("requeue", OutOfDate(w, v))
          BY <1>4, <2>5, <3>1, <3>3 DEF UpdatePod
      <4>2. pods'[k].state = pods[k].state /\ pods'[k].renewed = pods[k].renewed
          BY <1>0, <4>1 DEF DeletePod, Pod
      <4>3. mc'.obj = OutOfDate(w, v) /\ mc'.pc = "status"
          BY <1>0, <4>1, ReturnFields
      <4> QED
          BY <1>f, <2>3, <3>1, <4>2, <4>3 DEF Turn, HeldTurn
    <3> QED
        BY <3>2, <3>3
  <2>6. CASE EnsurePod
    <3>1. mc.pc = "pod" /\ UNCHANGED members
        BY <2>6 DEF EnsurePod
    <3>2. CASE mc.obj = RunningMember(w) /\ ~mc.fresh /\ pods[k].state = "ready"
               /\ ~pods[k].terminating
      <4>1. UNCHANGED pods /\ \E result : Return(result, RunningMember(w))
          BY <1>4, <2>6, <3>2, RunningFixed DEF EnsurePod
      <4>2. mc'.obj = RunningMember(w) /\ mc'.pc = "status" /\ mc'.fresh = mc.fresh
          BY <1>0, <4>1, ReturnFields
      <4>3. HeldTurn(k, w, v)'
          BY <3>2, <4>1, <4>2 DEF HeldTurn
      <4> QED
          BY <1>1, <2>3, <3>1, <4>1, <4>3
    <3>3. CASE mc.obj = Moving(w, v) /\ Replaced(k, v) /\ pods[k].state # "none"
      <4>1. UNCHANGED pods /\ \E result : Return(result, PodObserved(Moving(w, v), pods[k]))
          BY <1>4, <2>6, <3>3 DEF EnsurePod
      <4>2. mc'.obj = (IF pods[k].state = "ready" THEN RunningMember(v) ELSE Moving(w, v))
            /\ mc'.pc = "status"
          BY <1>0, <4>1, ReturnFields, TurningSteps
      <4>3. HeldTurn(k, w, v)'
          BY <3>3, <4>1, <4>2 DEF HeldTurn, Replaced
      <4> QED
          BY <1>1, <2>3, <3>1, <4>1, <4>3
    <3>4. CASE mc.obj = Moving(w, v) /\ pods[k].state = "none"
      <4>1. pods' = [pods EXCEPT ![k] = GetPod(Moving(w, v))]
            /\ \E result : Return(result, Moving(w, v))
          BY <1>4, <2>6, <3>4, TurningSteps DEF EnsurePod
      <4>2. Moving(w, v).spec.version = v
          BY MovingFields, RunningFields
      <4>3. pods'[k] = GetPod(Moving(w, v))
          BY <1>0, <4>1
      <4>4. /\ pods'[k].state = "starting" /\ pods'[k].version = v /\ ~pods'[k].terminating
            /\ pods'[k].renewed = {}
          BY <4>2, <4>3 DEF GetPod, NoPod
      <4>5. mc'.obj = Moving(w, v) /\ mc'.pc = "status"
          BY <1>0, <4>1, ReturnFields
      <4> QED
          BY <2>3, <3>1, <4>4, <4>5 DEF Turn, HeldTurn, Replaced
    <3> QED
        BY <2>1, <3>1, <3>2, <3>3, <3>4 DEF HeldTurn
  <2>7. CASE MemberStatusUpdate \/ MemberStatusUpdateFails
    <3>1. UNCHANGED pods /\ mc'.pc = "idle"
        BY <2>7 DEF MemberStatusUpdate, MemberStatusUpdateFails, FinishMember, IdleMemberWorker
    <3>2. \/ UNCHANGED members
          \/ /\ mc.fresh
             /\ members' = [members EXCEPT ![k] = [members[k] EXCEPT !.status = mc.obj.status]]
      <4>1. \/ UNCHANGED members
            \/ mc.fresh /\ StoreMember(k, [members[k] EXCEPT !.status = mc.obj.status])
          BY <1>4, <2>7 DEF MemberStatusUpdate, MemberStatusUpdateFails
      <4> QED
          BY <4>1 DEF StoreMember
    <3>3. CASE UNCHANGED members
        BY <1>1, <2>3, <3>1, <3>3
    <3>4. CASE /\ mc.fresh
               /\ members' = [members EXCEPT ![k] = [members[k] EXCEPT !.status = mc.obj.status]]
      <4>1. mc.obj \in {OutOfDate(w, v), Moving(w, v), RunningMember(v)}
          BY <2>1, <3>4 DEF HeldTurn
      <4>2. members[k].spec = mc.obj.spec
          BY <1>f, <4>1 DEF Turn
      <4>3. members'[k] = mc.obj
          BY <1>0, <1>4, <3>4, <4>2, StatusWritten
      <4>4. CASE mc.obj = RunningMember(v)
        <5>1. Replaced(k, v) /\ pods[k].state = "ready"
            BY <1>f, <2>1, <3>4, <4>4 DEF HeldTurn
        <5> QED
            BY <2>3, <3>1, <4>3, <4>4, <5>1 DEF Up, Replaced, Turn
      <4>5. CASE mc.obj = OutOfDate(w, v)
          BY <1>f, <2>3, <3>1, <4>3, <4>5 DEF Turn
      <4>6. CASE mc.obj = Moving(w, v)
        <5>1. Replaced(k, v)
            BY <1>f, <2>1, <3>4, <4>6 DEF HeldTurn
        <5> QED
            BY <2>3, <3>1, <4>3, <4>6, <5>1 DEF Turn, Replaced
      <4> QED
          BY <4>1, <4>4, <4>5, <4>6
    <3> QED
        BY <3>2, <3>3, <3>4
  <2> QED
      BY <2>2, <2>4, <2>5, <2>6, <2>7
<1> QED
    BY <1>2, <1>3, <1>4 DEF MemberReconcile, MemberWorkerStep, MemberWorkerFault,
        RepairDeletePod, RepairDeletePVC, ReaddRemove, ReaddAdd, ReaddAddReplyLost, RepairStatus,
        RepairStatusFails, RepairSpec, RepairSpecFails, Certificates, EnsurePVC, UpdatePod,
        EnsurePod, MemberCallFails, MemberStatusUpdate, MemberStatusUpdateFails

Known == mcache = members /\ pcache = pods

LEMMA SettledKnown ==
    ASSUME TypeOK, Repairing, Settled, "members" \notin Lagging, "pods" \notin Lagging
    PROVE  Known /\ mlag = {}
<1>1. mlag = {} /\ pcache = pods
    BY DEF Settled
<1>2. \A k \in Members : mcache[k] = members[k]
    BY <1>1 DEF Repairing, CacheAgrees
<1>3. mcache = members
    BY <1>2 DEF TypeOK, StoreTypeOK
<1> QED
    BY <1>1, <1>3 DEF Known

LEMMA UpIsSteady ==
    ASSUME NEW v, NEW k \in Members
    PROVE  /\ Known /\ Up(k, v) => Steady(k, v)
           /\ Steady(k, v)' => Up(k, v)'
BY DEF Known, Up, Steady

\* What the member controller and the surroundings do to a member: it goes on.
GoesOn(k, w, v) ==
    /\ Up(k, w) => Up(k, w)'
    /\ Up(k, v) => Up(k, v)'
    /\ Turn(k, w, v) => Turn(k, w, v)' \/ Up(k, v)'

LEMMA ToldWhich ==
    ASSUME NEW w \in Versions, NEW v \in Versions, w # v, NEW k \in Members
    PROVE  /\ Up(k, w) => ~Told(k, v) /\ members[k].status.version = w
           /\ Up(k, v) => Told(k, v) /\ members[k].status.version = v
           /\ Turn(k, w, v) => Told(k, v) /\ members[k].status.version = w
<1>1. OutOfDate(w, v).status.version = w /\ Moving(w, v).status.version = w
    BY OutOfDateFields, MovingFields
<1>2. OutOfDate(w, v).spec.version = v /\ Moving(w, v).spec.version = v
    BY TurningApart
<1>3. /\ RunningMember(w).spec.version = w /\ RunningMember(w).status.version = w
      /\ RunningMember(v).spec.version = v /\ RunningMember(v).status.version = v
    BY RunningFields
<1> QED
    BY <1>1, <1>2, <1>3 DEF Up, Turn, Told

LEMMA GoingOn ==
    ASSUME NEW w \in Versions, NEW v \in Versions, w # v,
           \A k \in Members : InTurn(k, w, v) /\ GoesOn(k, w, v)
    PROVE  \A k \in Members : InTurn(k, w, v)' /\ (Told(k, v)' => Told(k, v))
<1> SUFFICES ASSUME NEW k \in Members
             PROVE  InTurn(k, w, v)' /\ (Told(k, v)' => Told(k, v))
    OBVIOUS
<1>1. InTurn(k, w, v) /\ GoesOn(k, w, v)
    OBVIOUS
<1>2. InTurn(k, w, v)'
    BY <1>1 DEF InTurn, GoesOn
<1>3. Told(k, v) \/ Up(k, w)
    BY <1>1, ToldWhich DEF InTurn
<1>4. Up(k, w)' => ~Told(k, v)'
    BY RunningFields DEF Up, Told
<1> QED
    BY <1>1, <1>2, <1>3, <1>4 DEF GoesOn

LEMMA RollingMember ==
    ASSUME TypeOK, Known, NEW w \in Versions, NEW v \in Versions, RollingFrom(w, v), MemberReconcile
    PROVE  RollingFrom(w, v)'
<1>1. \A k \in Members : InTurn(k, w, v) /\ GoesOn(k, w, v)
  <2> SUFFICES ASSUME NEW k \in Members PROVE InTurn(k, w, v) /\ GoesOn(k, w, v)
      OBVIOUS
  <2>1. Up(k, w) => Up(k, w)'
      BY MemberSteady, UpIsSteady
  <2>2. Up(k, v) => Up(k, v)'
      BY MemberSteady, UpIsSteady
  <2>3. Turn(k, w, v) => Turn(k, w, v)' \/ Up(k, v)'
      BY TurnMember DEF Known, RollingFrom
  <2> QED
      BY <2>1, <2>2, <2>3 DEF GoesOn, InTurn, RollingFrom
<1>2. UNCHANGED <<cluster, ccache, cc>>
    BY DEF MemberReconcile, MemberWorkerStep, MemberWorkerFault, GetMember,
        RepairDeletePod, RepairDeletePVC, ReaddRemove, ReaddAdd, ReaddAddReplyLost, RepairStatus,
        RepairStatusFails, RepairSpec, RepairSpecFails, Certificates, EnsurePVC, UpdatePod,
        EnsurePod, MemberCallFails, MemberStatusUpdate, MemberStatusUpdateFails, objectsUnchanged
<1>3. w # v /\ InOrder(v) /\ VersionsKnown(w, v)
    BY DEF RollingFrom
<1>4. \A k \in Members : InTurn(k, w, v)' /\ (Told(k, v)' => Told(k, v))
    BY <1>1, <1>3, GoingOn
<1>5. InOrder(v)'
    BY <1>1, <1>2, <1>3, <1>4 DEF InOrder, GoesOn
<1>6. VersionsKnown(w, v)'
    BY <1>2, <1>3, <1>4 DEF VersionsKnown, Working
<1> QED
    BY <1>3, <1>4, <1>5, <1>6 DEF RollingFrom, InTurn

\* Around the controllers nothing happens to it but that its pods come and go.
LEMMA TurnOutside ==
    ASSUME TypeOK, NEW w \in Versions, NEW v \in Versions, NEW k \in Members, Turn(k, w, v),
           \A m \in Members : ~Strikes(m), Sync \/ EnvironmentStep \/ UNCHANGED vars
    PROVE  Turn(k, w, v)'
<1>0. pods \in [Members -> Pod] /\ etcd = [m \in Members |-> etcd[m]]
    BY DEF TypeOK, OwnedTypeOK
<1>1. UNCHANGED members /\ (mc' = mc \/ mc'.pc = "idle")
    BY OutsideEffect DEF OutsideChanges, IdleMemberWorker
<1>2. ASSUME pods'[k] = pods[k] \/ (pods[k].terminating /\ pods'[k] = NoPod)
             \/ (pods[k].state = "starting" /\ pods'[k] = [pods[k] EXCEPT !.state = "ready"]),
             etcd'[k] = "started"
      PROVE  Turn(k, w, v)'
  <2>1. /\ pods'[k].state # "unready" /\ pods'[k].renewed = {}
        /\ Replaced(k, v) => Replaced(k, v)'
        /\ pods[k].state = "ready" /\ ~pods[k].terminating =>
              pods'[k].state = "ready" /\ ~pods'[k].terminating
    <3>1. CASE pods'[k] = pods[k]
        BY <3>1 DEF Turn, Replaced
    <3>2. CASE pods[k].terminating /\ pods'[k] = NoPod
        BY <3>2 DEF Turn, Replaced, NoPod
    <3>3. CASE pods[k].state = "starting" /\ pods'[k] = [pods[k] EXCEPT !.state = "ready"]
      <4>1. /\ pods'[k].state = "ready" /\ pods'[k].renewed = pods[k].renewed
            /\ pods'[k].version = pods[k].version
          BY <1>0, <3>3 DEF Pod
      <4>2. pods'[k].terminating = pods[k].terminating
          BY <1>0, <3>3 DEF Pod
      <4> QED
          BY <3>3, <4>1, <4>2 DEF Turn, Replaced
    <3> QED
        BY <1>2, <3>1, <3>2, <3>3
  <2>2. mc'.pc # "idle" /\ mc'.m = k => HeldTurn(k, w, v)'
    <3> SUFFICES ASSUME mc'.pc # "idle" /\ mc'.m = k PROVE HeldTurn(k, w, v)'
        OBVIOUS
    <3>1. mc' = mc /\ HeldTurn(k, w, v)
        BY <1>1 DEF Turn
    <3>2. Replaced(k, v) /\ pods[k].state = "ready" => ~pods[k].terminating
        BY DEF Replaced
    <3> QED
        BY <1>1, <2>1, <3>1, <3>2 DEF HeldTurn
  <2> QED
      BY <1>1, <1>2, <2>1, <2>2 DEF Turn
<1>3. etcd[k] = "started" /\ pods[k].state # "unready"
    BY DEF Turn
<1>4. CASE \/ Sync \/ ChangeVersion \/ Tick \/ Crash \/ RestartOnPanic \/ UNCHANGED vars
  <2>1. UNCHANGED <<pods, etcd>>
      BY <1>4 DEF Sync, SyncCluster, SyncMembers, SyncPods, ChangeVersion, Tick, Crash,
        RestartOnPanic, RestartManager, vars
  <2> QED
      BY <1>2, <1>3, <2>1
<1>5. ASSUME NEW m \in Members, KubeletStep(m) \/ Mishap(m) PROVE Turn(k, w, v)'
  <2>1. KubeletStep(m) \/ PodRecovers(m)
      BY <1>5 DEF Mishap, Strikes
  <2>2. CASE m # k
    <3>1. pods'[k] = pods[k] /\ etcd'[k] = etcd[k]
        BY <1>0, <2>1, <2>2 DEF KubeletStep, PodReady, PodRecovers, Serve, PodGone, PvcGone,
          IssueCertificates, podUnchanged, certUnchanged
    <3> QED
        BY <1>2, <1>3, <3>1
  <2>3. CASE m = k
    <3>1. CASE PodReady(k)
      <4>1. pods[k].state = "starting" /\ pods' = [pods EXCEPT ![k].state = "ready"]
            /\ etcd' = [etcd EXCEPT ![k] = "started"]
          BY <3>1 DEF PodReady, Serve
      <4> QED
          BY <1>0, <1>2, <4>1
    <3>2. CASE PodGone(k)
        BY <1>0, <1>2, <1>3, <3>2 DEF PodGone
    <3>3. CASE PvcGone(k) \/ IssueCertificates(k)
        BY <1>2, <1>3, <3>3 DEF PvcGone, IssueCertificates, certUnchanged
    <3>4. ~PodRecovers(k)
        BY <1>3 DEF PodRecovers
    <3> QED
        BY <2>1, <2>3, <3>1, <3>2, <3>3, <3>4 DEF KubeletStep
  <2> QED
      BY <2>2, <2>3
<1> QED
    BY <1>4, <1>5 DEF EnvironmentStep

LEMMA RollingOutside ==
    ASSUME TypeOK, NEW w \in Versions, NEW v \in Versions, RollingFrom(w, v),
           \A m \in Members : ~Strikes(m), ~ChangeVersion,
           Sync \/ (Known /\ EnvironmentStep) \/ UNCHANGED vars
    PROVE  RollingFrom(w, v)'
<1>1. ASSUME NEW k \in Members, NEW x, Up(k, x) PROVE Up(k, x)'
  <2>1. CASE Sync \/ UNCHANGED vars
    <3>1. UNCHANGED <<members, pods, etcd, mc>>
        BY <2>1 DEF Sync, SyncCluster, SyncMembers, SyncPods, workersUnchanged, vars
    <3> QED
        BY <1>1, <3>1 DEF Up
  <2>2. CASE Known /\ EnvironmentStep
      BY <1>1, <2>2, UpIsSteady, OutsideSteady
  <2> QED
      BY <2>1, <2>2
<1>2. \A k \in Members : InTurn(k, w, v) /\ GoesOn(k, w, v)
    BY <1>1, TurnOutside DEF GoesOn, RollingFrom
<1>3. w # v /\ InOrder(v) /\ VersionsKnown(w, v)
    BY DEF RollingFrom
<1>4. \A k \in Members : InTurn(k, w, v)' /\ (Told(k, v)' => Told(k, v))
    BY <1>2, <1>3, GoingOn
<1>5. /\ cluster' = cluster /\ (ccache' = ccache \/ ccache' = cluster)
      /\ cc' = cc \/ cc'.pc = "idle"
    BY DEF Sync, SyncCluster, SyncMembers, SyncPods, EnvironmentStep, Tick, Crash, RestartOnPanic,
        RestartManager, IdleClusterWorker, KubeletStep, Mishap, PodReady, PodRecovers, Serve,
        PodFails, PodEvicted, PodGone, PvcGone, IssueCertificates, RenewCertificate, podUnchanged,
        certUnchanged, workersUnchanged, vars
<1>6. InOrder(v)'
  <2>1. \A j, k \in Members : j < k /\ Told(k, v)' => Up(j, v)'
      BY <1>2, <1>3, <1>4 DEF InOrder, GoesOn
  <2>2. cc'.pc = "update" => cc' = cc
      BY <1>5
  <2>3. cc'.pc = "update" /\ cc'.obj.spec.version = v =>
            \A j \in Members : j < cc'.i => Up(j, v)'
      BY <1>2, <1>3, <2>2 DEF InOrder, GoesOn
  <2> QED
      BY <2>1, <2>3 DEF InOrder
<1>7. VersionsKnown(w, v)'
    BY <1>3, <1>4, <1>5 DEF VersionsKnown, Working
<1> QED
    BY <1>3, <1>4, <1>6, <1>7 DEF RollingFrom

\* The cluster controller writes no member but the one it tells the new version.
Tells(w, v) ==
    /\ UpdateMemberVersion /\ cc.obj.spec.version = v /\ Up(cc.i, w)
    /\ members' = [members EXCEPT ![cc.i] = OutOfDate(w, v)]
    /\ mc'.pc # "idle" /\ mc'.m = cc.i => ~mc'.fresh

LEMMA TellingStep ==
    ASSUME NEW w \in Versions, NEW v \in Versions, cc.obj.spec.version = v
    PROVE  WithVersion(RunningMember(w)) = OutOfDate(w, v)
<1> DEFINE s == WithVersion(RunningMember(w))
           a == OutOfDate(w, v)
<1>1. RunningMember(w) \in Member /\ RunningMember(v) \in Member /\ a \in Member
    BY RunningMemberType, OutOfDateFields
<1>2. /\ s.status = RunningMember(w).status
      /\ s.spec = [RunningMember(w).spec EXCEPT !.version = v]
      /\ s \in Member
    BY <1>1 DEF WithVersion, Member, MemberSpec
<1>3. [RunningMember(w).spec EXCEPT !.version = v] = RunningMember(v).spec
  <2>1. RunningMember(w).spec \in MemberSpec /\ RunningMember(v).spec \in MemberSpec
      BY <1>1 DEF Member
  <2>2. /\ RunningMember(w).spec.broken = RunningMember(v).spec.broken
        /\ RunningMember(w).spec.certificateUpdate = RunningMember(v).spec.certificateUpdate
      BY RunningFields
  <2>3. RunningMember(v).spec.version = v
      BY RunningFields
  <2> QED
      BY <2>1, <2>2, <2>3 DEF MemberSpec
<1>4. a.spec = RunningMember(v).spec
    BY OutOfDateFields
<1>5. a.status = RunningMember(w).status
    BY DEF OutOfDate, Turning, RunningMember
<1> HIDE DEF s, a
<1>6. s = a
    BY <1>1, <1>2, <1>3, <1>4, <1>5 DEF Member
<1> QED
    BY <1>6 DEF s, a

LEMMA RollingWrites ==
    ASSUME TypeOK, Known, mlag = {}, NEW w \in Versions, NEW v \in Versions, RollingFrom(w, v),
           ClusterReconcile
    PROVE  UNCHANGED members \/ Tells(w, v)
<1>0. /\ members = [i \in Members |-> members[i]] /\ mcache = members
      /\ \A k \in Members : InTurn(k, w, v)
      /\ w # v /\ VersionsKnown(w, v)
    BY DEF TypeOK, StoreTypeOK, Known, RollingFrom
<1>1. \A k \in Members : /\ members[k].status.phase \in {"Running", "Updating"}
                         /\ members[k].spec.certificateUpdate = members[k].status.certificateExpires
                         /\ members[k] \in Member
  <2> SUFFICES ASSUME NEW k \in Members
               PROVE  /\ members[k].status.phase \in {"Running", "Updating"}
                      /\ members[k].spec.certificateUpdate = members[k].status.certificateExpires
                      /\ members[k] \in Member
      OBVIOUS
  <2>1. members[k] \in {RunningMember(w), RunningMember(v), OutOfDate(w, v), Moving(w, v)}
      BY <1>0 DEF InTurn, Up, Turn
  <2> DEFINE Plain(r) == /\ r.status.phase \in {"Running", "Updating"}
                         /\ r.spec.certificateUpdate = r.status.certificateExpires
  <2>2. Plain(RunningMember(w)) /\ Plain(RunningMember(v))
      BY DEF RunningMember
  <2>3. Plain(OutOfDate(w, v)) /\ Plain(Moving(w, v))
      BY DEF OutOfDate, Moving, Turning, RunningMember
  <2> HIDE DEF Plain
  <2>4. Plain(members[k])
      BY <2>1, <2>2, <2>3
  <2>5. members[k] \in Member
      BY DEF TypeOK, StoreTypeOK
  <2> QED
      BY <2>4, <2>5 DEF Plain
<1>2. NotCached = {}
    BY <1>0, <1>1 DEF NotCached
<1>3. ASSUME NEW i \in Members, RepairMember(i) PROVE FALSE
    BY <1>0, <1>1, <1>3 DEF RepairMember, Oldest, Overdue
<1>4. CASE EnsureMembers
    BY <1>0, <1>2, <1>4 DEF EnsureMembers, CreateMembers
<1>5. ~EnsureMembersAlreadyExists /\ ~EnsureMembersCallFails
    BY <1>2 DEF EnsureMembersAlreadyExists, EnsureMembersCallFails, AlreadyExisting
<1>6. CASE UpdateMemberCertificate
  <2>1. cc.i \in Members /\ Current = members[cc.i]
      BY <1>0, <1>6 DEF UpdateMemberCertificate, TypeOK, ClusterWorkerTypeOK, Current
  <2>2. WithCertificateUpdate(Current) = members[cc.i]
      BY <1>1, <2>1, SameAgain DEF WithCertificateUpdate
  <2>3. UNCHANGED members \/ StoreMember(cc.i, members[cc.i])
      BY <1>6, <2>2 DEF UpdateMemberCertificate, UpdateMember
  <2> QED
      BY <1>0, <2>3 DEF StoreMember
<1>7. CASE UpdateMemberVersion
  <2>1. cc.i \in Members /\ Current = members[cc.i] /\ Working
      BY <1>0, <1>7 DEF UpdateMemberVersion, TypeOK, ClusterWorkerTypeOK, Current, Working
  <2>2. members[cc.i].spec.version # cc.obj.spec.version
      BY <1>7, <2>1 DEF UpdateMemberVersion
  <2>3. Up(cc.i, w) => members[cc.i].spec.version = w
      BY RunningFields DEF Up
  <2>4. Told(cc.i, v) => cc.obj.spec.version = v
      BY <1>0, <2>1 DEF VersionsKnown
  <2>5. ~Told(cc.i, v)
      BY <2>2, <2>4 DEF Told
  <2>6. Up(cc.i, w)
      BY <1>0, <2>1, <2>5, ToldWhich DEF InTurn
  <2>7. cc.obj.spec.version = v
      BY <1>0, <2>1, <2>2, <2>3, <2>6 DEF VersionsKnown
  <2>8. members[cc.i] = RunningMember(w) /\ WithVersion(members[cc.i]) = OutOfDate(w, v)
      BY <2>6, <2>7, TellingStep DEF Up
  <2>9. UpdateMember(cc.i, OutOfDate(w, v))
      BY <1>7, <2>1, <2>8 DEF UpdateMemberVersion
  <2>10. OutOfDate(w, v) # members[cc.i]
      BY <1>0, <2>8, TurningApart
  <2>11. mc'.pc # "idle" /\ mc'.m = cc.i => ~mc'.fresh
      BY <2>9, <2>10 DEF UpdateMember, TypeOK, MemberWorkerTypeOK, MemberWorker
  <2> QED
      BY <1>7, <2>6, <2>7, <2>9, <2>11 DEF Tells, UpdateMember, StoreMember
<1> QED
    BY <1>3, <1>4, <1>5, <1>6, <1>7
       DEF ClusterReconcile, ClusterWorkerStep, ClusterWorkerFault, GetCluster, EnsureInfra,
        RepairWaits, RepairDeclined, UpdateMemberWaits, UpdateMemberDone, ClusterCallFails,
        ClusterStatusUpdate, ClusterStatusUpdateFails, storeUnchanged

\* It goes on to the next member when the last one reports the version.
LEMMA NextIndex ==
    ASSUME TypeOK, ClusterReconcile, cc'.pc = "update"
    PROVE  \/ cc'.i = 0
           \/ /\ cc.pc = "update" /\ cc.i \in Members /\ cc'.i = cc.i + 1
              /\ Current.status.version = cc.obj.spec.version
<1>0. cc \in ClusterWorker /\ (cc.pc = "update" => cc.i \in Members)
    BY DEF TypeOK, ClusterWorkerTypeOK
<1>1. CASE EnsureInfra \/ EnsureMembers
    BY <1>0, <1>1 DEF EnsureInfra, EnsureMembers, ContinueCluster, ReturnCluster, ClusterWorker
<1>2. CASE UpdateMemberDone \/ UpdateMemberCertificate
  <2>1. NextMember \/ \E result, obj : ReturnCluster(result, obj)
      BY <1>2 DEF UpdateMemberDone, UpdateMemberCertificate
  <2>2. cc.pc = "update"
      BY <1>2 DEF UpdateMemberDone, UpdateMemberCertificate
  <2>3. ~\E result, obj : ReturnCluster(result, obj)
      BY <1>0 DEF ReturnCluster, ClusterWorker
  <2>4. cc' = [cc EXCEPT !.i = @ + 1] /\ Current.status.version = cc.obj.spec.version
      BY <2>1, <2>3 DEF NextMember
  <2> QED
      BY <1>0, <2>2, <2>4 DEF ClusterWorker
<1>3. CASE ~EnsureInfra /\ ~EnsureMembers /\ ~UpdateMemberDone /\ ~UpdateMemberCertificate
  <2>1. ~GetCluster
      BY DEF GetCluster
  <2>2. ~ClusterStatusUpdate /\ ~ClusterStatusUpdateFails
    <3>1. FinishCluster => cc'.pc \in {"idle", "panicked"}
        BY DEF FinishCluster, IdleClusterWorker
    <3> QED
        BY <3>1 DEF ClusterStatusUpdate, ClusterStatusUpdateFails
  <2>3. ClusterCallFails => \E result, obj : ReturnCluster(result, obj)
      BY DEF ClusterCallFails
  <2>4. UpdateMemberVersion \/ UpdateMemberWaits => \E result, obj : ReturnCluster(result, obj)
      BY DEF UpdateMemberVersion, UpdateMemberWaits
  <2>5. ASSUME NEW i \in Members, RepairMember(i)
        PROVE  \E result, obj : ReturnCluster(result, obj)
      BY <2>5 DEF RepairMember
  <2>6. RepairWaits \/ RepairDeclined => \E result, obj : ReturnCluster(result, obj)
      BY DEF RepairWaits, RepairDeclined
  <2>7. EnsureMembersAlreadyExists \/ EnsureMembersCallFails =>
            \E result, obj : ReturnCluster(result, obj)
      BY DEF EnsureMembersAlreadyExists, EnsureMembersCallFails, PanicAt
  <2>8. \E result, obj : ReturnCluster(result, obj)
      BY <1>3, <2>1, <2>2, <2>3, <2>4, <2>5, <2>6, <2>7
         DEF ClusterReconcile, ClusterWorkerStep, ClusterWorkerFault
  <2> QED
      BY <1>0, <2>8 DEF ReturnCluster, ClusterWorker
<1> QED
    BY <1>1, <1>2, <1>3

LEMMA RollingVersions ==
    ASSUME TypeOK, NEW w \in Versions, NEW v \in Versions, RollingFrom(w, v), ClusterReconcile,
           (\E k \in Members : Told(k, v))' =>
               (\E k \in Members : Told(k, v)) \/ (Working /\ cc.obj.spec.version = v)
    PROVE  VersionsKnown(w, v)'
<1>0. VersionsKnown(w, v)
    BY DEF RollingFrom
<1>1. cluster'.spec.version = v /\ ccache'.spec.version = ccache.spec.version
    BY <1>0, ClusterWorkerSpec DEF VersionsKnown
<1>2. \/ ~Working'
      \/ cc'.obj.spec.version = ccache.spec.version /\ ~Working
      \/ cc'.obj.spec.version = cc.obj.spec.version /\ Working
    BY ClusterWorkerSpec DEF Working
<1> QED
    BY <1>0, <1>1, <1>2 DEF VersionsKnown

LEMMA RollingCluster ==
    ASSUME TypeOK, Repairing, Known, mlag = {}, NEW w \in Versions, NEW v \in Versions,
           RollingFrom(w, v), ClusterReconcile
    PROVE  RollingFrom(w, v)'
<1>0. /\ w # v /\ InOrder(v) /\ VersionsKnown(w, v)
      /\ \A k \in Members : InTurn(k, w, v)
      /\ members = [i \in Members |-> members[i]]
    BY DEF RollingFrom, TypeOK, StoreTypeOK
<1>1. UNCHANGED <<pods, etcd>> /\ WorkerKept
    BY ClusterEffect DEF ClusterChanges
<1>2. ASSUME NEW k \in Members, members'[k] = members[k]
      PROVE  GoesOn(k, w, v)
  <2>1. Up(k, w) => Up(k, w)'
      BY <1>1, <1>2 DEF Up, WorkerKept
  <2>2. Up(k, v) => Up(k, v)'
      BY <1>1, <1>2 DEF Up, WorkerKept
  <2>3. HeldTurn(k, w, v) => HeldTurn(k, w, v)'
      BY <1>1, <1>2 DEF HeldTurn, Replaced, WorkerKept
  <2>4. Turn(k, w, v) => Turn(k, w, v)'
      BY <1>1, <1>2, <2>3 DEF Turn, Replaced, WorkerKept
  <2> QED
      BY <2>1, <2>2, <2>4 DEF GoesOn
<1>3. CASE UNCHANGED members
  <2>1. \A k \in Members : InTurn(k, w, v) /\ GoesOn(k, w, v)
      BY <1>0, <1>2, <1>3
  <2>2. \A k \in Members : InTurn(k, w, v)' /\ (Told(k, v)' => Told(k, v))
      BY <1>0, <2>1, GoingOn
  <2>3. cc'.pc = "update" /\ cc'.obj.spec.version = v => \A j \in Members : j < cc'.i => Up(j, v)'
    <3> SUFFICES ASSUME cc'.pc = "update", cc'.obj.spec.version = v,
                        NEW j \in Members, j < cc'.i
                 PROVE  Up(j, v)'
        OBVIOUS
    <3>1. /\ cc.pc = "update" /\ cc.i \in Members /\ cc'.i = cc.i + 1
          /\ Current.status.version = cc.obj.spec.version
        BY NextIndex, SizeAssumption DEF Members
    <3>2. cc.obj.spec.version = v
        BY <3>1, ClusterWorkerSpec
    <3>3. members[cc.i].status.version = v
        BY <3>1, <3>2 DEF Current, Known
    <3>4. Up(cc.i, v)
        BY <1>0, <3>1, <3>3, ToldWhich DEF InTurn
    <3>5. j < cc.i \/ j = cc.i
        BY <3>1, SizeAssumption DEF Members
    <3>6. Up(j, v)
        BY <1>0, <3>1, <3>2, <3>4, <3>5 DEF InOrder
    <3> QED
        BY <2>1, <3>6 DEF GoesOn
  <2>4. InOrder(v)'
      BY <1>0, <2>1, <2>2, <2>3 DEF InOrder, GoesOn
  <2>5. VersionsKnown(w, v)'
      BY <2>2, RollingVersions
  <2> QED
      BY <1>0, <2>2, <2>4, <2>5 DEF RollingFrom
<1>4. CASE Tells(w, v)
  <2>0. PICK i : i = cc.i
      OBVIOUS
  <2>1. i \in Members /\ cc.pc = "update" /\ cc.obj.spec.version = v /\ Up(i, w)
      BY <1>4, <2>0 DEF Tells, UpdateMemberVersion, TypeOK, ClusterWorkerTypeOK
  <2>2. members'[i] = OutOfDate(w, v)
        /\ \A k \in Members : k # i => members'[k] = members[k]
      BY <1>0, <1>4, <2>0, <2>1 DEF Tells
  <2>3. Turn(i, w, v)'
    <3>1. OutOfDate(w, v) # Moving(w, v)
        BY <1>0, TurningApart
    <3>2. ASSUME mc'.pc # "idle", mc'.m = i PROVE HeldTurn(i, w, v)'
      <4>1. /\ mc.pc # "idle" /\ mc.m = i
            /\ mc'.obj = mc.obj /\ mc'.pc = mc.pc /\ ~mc'.fresh
          BY <1>1, <1>4, <2>0, <3>2 DEF Tells, WorkerKept
      <4>2. /\ mc.obj = RunningMember(w) /\ mc.pc \in {"certificates", "pod", "status"}
            /\ pods[i].state = "ready" /\ ~pods[i].terminating
          BY <2>1, <4>1 DEF Up
      <4> QED
          BY <1>1, <4>1, <4>2 DEF HeldTurn
    <3>3. pods[i].state = "ready" /\ pods[i].renewed = {} /\ etcd[i] = "started"
        BY <2>1 DEF Up
    <3> QED
        BY <1>1, <2>2, <3>1, <3>2, <3>3 DEF Turn
  <2>4. \A k \in Members : k # i => GoesOn(k, w, v)
      BY <1>2, <2>2
  <2>5. \A k \in Members : InTurn(k, w, v)'
      BY <1>0, <2>3, <2>4 DEF InTurn, GoesOn
  <2>6. \A j, k \in Members : j < k /\ Told(k, v)' => Up(j, v)'
    <3> SUFFICES ASSUME NEW j \in Members, NEW k \in Members, j < k, Told(k, v)'
                 PROVE  Up(j, v)'
        OBVIOUS
    <3>1. Up(j, v)
      <4>1. CASE k = i
          BY <1>0, <2>0, <2>1, <4>1 DEF InOrder
      <4>2. CASE k # i
        <5>1. Told(k, v)
            BY <2>2, <4>2 DEF Told
        <5> QED
            BY <1>0, <5>1 DEF InOrder
      <4> QED
          BY <4>1, <4>2
    <3>2. j # i
        BY <1>0, <2>1, <3>1, ToldWhich
    <3> QED
        BY <2>4, <3>1, <3>2 DEF GoesOn
  <2>7. cc'.pc # "update"
    <3>1. ReturnCluster("requeue", Updating(cc.obj)) /\ cc \in ClusterWorker
        BY <1>4 DEF Tells, UpdateMemberVersion, TypeOK, ClusterWorkerTypeOK
    <3> QED
        BY <3>1 DEF ReturnCluster, ClusterWorker
  <2>8. InOrder(v)'
      BY <2>6, <2>7 DEF InOrder
  <2>9. VersionsKnown(w, v)'
      BY <2>1, RollingVersions DEF Working
  <2> QED
      BY <1>0, <2>5, <2>8, <2>9 DEF RollingFrom
<1> QED
    BY <1>3, <1>4, RollingWrites

-----------------------------------------------------------------------------
(* One event in the life of a cluster: a failure, a renewal, or a change of *)
(* the version.                                                             *)

OneEvent ==
    /\ Struck + used.changes <= 1
    /\ used.changes = 0 => OneVersion /\ FewUnsteady
    /\ used.changes # 0 => Rolling

LEMMA ChangesCount ==
    ASSUME TypeOK, [Next]_vars
    PROVE  /\ used.changes \in Nat
           /\ \/ /\ ~ChangeVersion /\ used'.changes = used.changes
                 /\ cluster'.spec = cluster.spec
              \/ /\ ChangeVersion /\ used'.changes = used.changes + 1 /\ Struck' = Struck
                 /\ Struck + used.changes < MaxEvents
           /\ (\E m \in Members : Strikes(m)) => Struck + used.changes < MaxEvents
<1>0. used \in [failures : Nat, changes : Nat, renewals : Nat, faults : Nat]
    BY BoundAssumption DEF TypeOK, BoundsOK, Budgets
<1>1. ASSUME UNCHANGED used \/ Fault, ~ChangeVersion PROVE used'.changes = used.changes
    BY <1>0, <1>1 DEF Fault
<1>2. EventsLeft <=> Struck + used.changes < MaxEvents
    BY <1>0, BoundAssumption DEF EventsLeft, Struck
<1>3. ASSUME NEW m \in Members, Strikes(m)
      PROVE  Struck + used.changes < MaxEvents /\ used'.changes = used.changes
             /\ cluster' = cluster
    BY <1>0, <1>2, <1>3 DEF Strikes, PodFails, PodEvicted, RenewCertificate, Failure,
        podUnchanged, certUnchanged
<1>4. CASE ChangeVersion
  <2>1. EventsLeft /\ used' = [used EXCEPT !.changes = @ + 1]
      BY <1>4 DEF ChangeVersion
  <2>2. used'.changes = used.changes + 1 /\ Struck' = Struck
      BY <1>0, <2>1 DEF Struck
  <2> QED
      BY <1>0, <1>2, <1>3, <1>4, <2>1, <2>2
<1>5. CASE MemberReconcile
  <2>1. (UNCHANGED used \/ Fault) /\ cluster' = cluster
      BY <1>5 DEF MemberReconcile, MemberWorkerStep, MemberWorkerFault, GetMember,
        RepairDeletePod, RepairDeletePVC, ReaddRemove, ReaddAdd, ReaddAddReplyLost, RepairStatus,
        RepairStatusFails, RepairSpec, RepairSpecFails, Certificates, EnsurePVC, UpdatePod,
        EnsurePod, MemberCallFails, MemberStatusUpdate, MemberStatusUpdateFails, objectsUnchanged
  <2> QED
      BY <1>0, <1>1, <1>3, <1>4, <2>1
<1>6. CASE ClusterReconcile
  <2>1. UNCHANGED used \/ Fault
      BY <1>6 DEF ClusterReconcile, ClusterWorkerStep, ClusterWorkerFault, GetCluster, EnsureInfra,
        EnsureMembers, EnsureMembersAlreadyExists, EnsureMembersCallFails,
        RepairWaits, RepairDeclined, RepairMember, UpdateMemberWaits, UpdateMemberVersion,
        UpdateMemberCertificate, UpdateMemberDone, ClusterCallFails, ClusterStatusUpdate,
        ClusterStatusUpdateFails
  <2>2. cluster'.spec = cluster.spec
      BY <1>6, ClusterWorkerSpec
  <2> QED
      BY <1>0, <1>1, <1>3, <1>4, <2>1, <2>2
<1>7. CASE Sync \/ Tick \/ Crash \/ RestartOnPanic \/ UNCHANGED vars
  <2>1. (UNCHANGED used \/ Fault) /\ cluster' = cluster
      BY <1>7 DEF Sync, SyncCluster, SyncMembers, SyncPods, Tick, Crash, RestartOnPanic,
        RestartManager, vars
  <2> QED
      BY <1>0, <1>1, <1>3, <1>4, <2>1
<1>8. ASSUME NEW m \in Members, KubeletStep(m) \/ PodRecovers(m)
      PROVE  UNCHANGED used /\ cluster' = cluster
    BY <1>8 DEF KubeletStep, PodReady, PodRecovers, Serve, PodGone, PvcGone, IssueCertificates,
        podUnchanged, certUnchanged
<1>9. CASE \E m \in Members : KubeletStep(m) \/ Mishap(m)
    BY <1>0, <1>1, <1>3, <1>4, <1>8, <1>9 DEF Mishap, Strikes
<1> QED
    BY <1>4, <1>5, <1>6, <1>7, <1>9 DEF Next, Step, EnvironmentStep

LEMMA ChangeBegins ==
    ASSUME TypeOK, OneVersion, Unsteady(cluster.spec.version) = {}, ChangeVersion
    PROVE  \E w \in Versions : (RollingFrom(w, cluster.spec.version) /\ \A k \in Members : Up(k, w))'
<1>w. PICK w \in Versions : w = cluster.spec.version
    BY DEF TypeOK, StoreTypeOK, Cluster, ClusterSpec
<1>v. PICK v \in Versions : v # w /\ StoreCluster([cluster EXCEPT !.spec.version = v])
    BY <1>w DEF ChangeVersion
<1>0. cluster \in Cluster /\ cc \in ClusterWorker
    BY DEF TypeOK, StoreTypeOK, ClusterWorkerTypeOK
<1>1. /\ cluster'.spec.version = v /\ ccache' = ccache
      /\ cc'.pc = cc.pc /\ cc'.obj = cc.obj
      /\ UNCHANGED <<members, pods, etcd, mc>>
    BY <1>v, <1>0 DEF ChangeVersion, StoreCluster, Cluster, ClusterSpec, ClusterWorker
<1>2. ccache.spec.version = w /\ (Working => cc.obj.spec.version = w)
    BY <1>w DEF OneVersion, Agrees, ClusterAgrees, Working
<1>3. \A k \in Members : Up(k, w)
    BY <1>w DEF Unsteady, Steady, Up
<1>4. \A k \in Members : Up(k, w)'
    BY <1>1, <1>3 DEF Up
<1>5. \A k \in Members : ~Told(k, v)'
    BY <1>1, <1>3, <1>v, ToldWhich DEF Told
<1>6. InOrder(v)' /\ VersionsKnown(w, v)'
    BY <1>1, <1>2, <1>5, <1>v DEF InOrder, VersionsKnown, Working
<1>7. RollingFrom(w, v)'
    BY <1>4, <1>6, <1>v DEF RollingFrom, InTurn
<1> QED
    BY <1>1, <1>4, <1>7

LEMMA RollingStep ==
    ASSUME TypeOK, Repairing, "members" \notin Lagging, "pods" \notin Lagging, [Next]_vars,
           NEW w \in Versions, NEW v \in Versions, RollingFrom(w, v),
           ~ChangeVersion, \A m \in Members : ~Strikes(m)
    PROVE  RollingFrom(w, v)'
<1>1. Settled => Known /\ mlag = {}
    BY SettledKnown
<1> QED
    BY <1>1, RollingMember, RollingCluster, RollingOutside DEF Next, Step

LEMMA RollingInductive ==
    ASSUME TypeOK, Repairing, Rolling, [Next]_vars, "members" \notin Lagging, "pods" \notin Lagging,
           ~ChangeVersion, \A m \in Members : ~Strikes(m), cluster'.spec = cluster.spec
    PROVE  Rolling'
<1>w. PICK w \in Versions, v \in Versions : v = cluster.spec.version /\ RollingFrom(w, v)
    BY DEF Rolling, TypeOK, StoreTypeOK, Cluster, ClusterSpec
<1>1. RollingFrom(w, v)' /\ cluster'.spec.version = v
    BY <1>w, RollingStep
<1> QED
    BY <1>1 DEF Rolling

LEMMA InitOneEvent ==
    ASSUME FALSE \notin Deployed, Init PROVE OneEvent
<1>1. Unsteady(cluster.spec.version) = {}
    BY InitSteady DEF Unsteady
<1>2. Struck = 0 /\ used.changes = 0
    BY DEF Init, Struck
<1> QED
    BY <1>1, <1>2, InitOneVersion, FS_EmptySet DEF OneEvent, FewUnsteady

LEMMA OneEventInductive ==
    ASSUME MaxEvents = 1, "members" \notin Lagging, "pods" \notin Lagging,
           TypeOK, Repairing, OneEvent, [Next]_vars
    PROVE  OneEvent'
<1>0. used.changes \in Nat /\ Struck \in Nat /\ Struck + used.changes <= 1
    BY ChangesCount, StruckCounts DEF OneEvent
<1>1. CASE ChangeVersion
  <2>1. Struck = 0 /\ used.changes = 0 /\ used'.changes = 1 /\ Struck' = 0
      BY <1>0, <1>1, ChangesCount
  <2>2. OneVersion /\ FewUnsteady
      BY <2>1 DEF OneEvent
  <2>3. Unsteady(cluster.spec.version) = {}
    <3>1. Unsteady(cluster.spec.version) \in SUBSET Members
        BY DEF Unsteady
    <3> QED
        BY <2>1, <2>2, <3>1, UnsteadyFinite, FS_EmptySet DEF FewUnsteady
  <2>4. Rolling'
      BY <1>1, <2>2, <2>3, ChangeBegins DEF Rolling
  <2> QED
      BY <2>1, <2>4 DEF OneEvent
<1>2. CASE ~ChangeVersion /\ used.changes = 0
  <2>1. used'.changes = 0 /\ cluster'.spec = cluster.spec
      BY <1>2, ChangesCount
  <2>2. Struck' + used'.changes <= 1
      BY <1>0, <1>2, <2>1, ChangesCount, StruckCounts
  <2>3. OneVersion' /\ FewUnsteady'
      BY <1>2, <2>1, OneVersionInductive, FewUnsteadyInductive DEF OneEvent
  <2> QED
      BY <2>1, <2>2, <2>3 DEF OneEvent
<1>3. CASE ~ChangeVersion /\ used.changes # 0
  <2>1. used'.changes = used.changes /\ cluster'.spec = cluster.spec
      BY <1>3, ChangesCount
  <2>2. (\A m \in Members : ~Strikes(m)) /\ Struck' = Struck
      BY <1>0, <1>3, ChangesCount, StruckCounts
  <2>3. Rolling'
      BY <1>3, <2>1, <2>2, RollingInductive DEF OneEvent
  <2> QED
      BY <1>0, <1>3, <2>1, <2>2, <2>3 DEF OneEvent
<1> QED
    BY <1>1, <1>2, <1>3

\* One member at most is not up.
LEMMA RollingServes ==
    ASSUME TypeOK, Rolling
    PROVE  \E i : Members \ {i} \subseteq Serving
<1>1. PICK w \in Versions, v \in Versions : RollingFrom(w, v)
    BY DEF Rolling, TypeOK, StoreTypeOK, Cluster, ClusterSpec
<1>2. \A k \in Members : Up(k, w) \/ Up(k, v) => k \in Serving
    BY DEF Up, Serving
<1>3. ASSUME NEW j \in Members, NEW k \in Members, j < k, j \notin Serving, k \notin Serving
      PROVE  FALSE
  <2>1. Turn(k, w, v)
      BY <1>1, <1>2, <1>3 DEF RollingFrom, InTurn
  <2>2. Told(k, v)
      BY <1>1, <2>1, ToldWhich DEF RollingFrom
  <2>3. Up(j, v)
      BY <1>1, <1>3, <2>2 DEF RollingFrom, InOrder
  <2> QED
      BY <1>2, <1>3, <2>3
<1>4. \A j, k \in Members : j < k \/ k < j \/ j = k
    BY SizeAssumption DEF Members
<1>5. \A j, k \in Members : j \notin Serving /\ k \notin Serving => j = k
    BY <1>3, <1>4
<1>7. CASE \E i \in Members : i \notin Serving
    BY <1>5, <1>7
<1>8. CASE \A i \in Members : i \in Serving
    BY <1>8
<1> QED
    BY <1>7, <1>8

LEMMA OneEventServes ==
    ASSUME TypeOK, OneEvent, Size > 1
    PROVE  QuorumKept
<1>0. IsFiniteSet(Members) /\ Cardinality(Members) = Size /\ Size \in Nat /\ Size >= 3
    BY FS_Interval, SizeAssumption DEF Members
<1>1. ASSUME NEW U \in SUBSET Members, Cardinality(U) <= 1, Members \ U \subseteq Serving
      PROVE  QuorumKept
  <2>1. Serving \subseteq Members
      BY DEF Serving
  <2>2. Cardinality(Members \ U) = Size - Cardinality(U)
    <3>1. Members \cap U = U
        OBVIOUS
    <3> QED
        BY <1>0, <3>1, FS_Difference
  <2>3. Cardinality(Members \ U) <= Cardinality(Serving)
      BY <1>1, <2>1, UnsteadyFinite, FS_Subset
  <2>4. Cardinality(U) \in Nat /\ Cardinality(Serving) \in Nat
      BY <2>1, UnsteadyFinite
  <2> QED
      BY <1>0, <1>1, <2>2, <2>3, <2>4 DEF QuorumKept
<1>2. CASE used.changes = 0
  <2> DEFINE U == Unsteady(cluster.spec.version)
  <2>1. U \in SUBSET Members /\ Members \ U \subseteq Serving
      BY DEF Unsteady, Steady, Serving
  <2>2. Struck <= 1 /\ Struck \in Nat
      BY <1>2, BoundAssumption DEF OneEvent, Struck, TypeOK, BoundsOK, Budgets
  <2>3. Cardinality(U) <= 1
    <3>1. Cardinality(U) \in Nat
        BY <2>1, UnsteadyFinite
    <3>2. Cardinality(U) <= Struck
        BY <1>2 DEF OneEvent, FewUnsteady
    <3> QED
        BY <2>2, <3>1, <3>2
  <2> QED
      BY <1>1, <2>1, <2>3
<1>3. CASE used.changes # 0
  <2>1. PICK i : Members \ {i} \subseteq Serving
      BY <1>3, RollingServes DEF OneEvent
  <2> DEFINE U == Members \cap {i}
  <2>2. U \in SUBSET Members /\ Members \ U \subseteq Serving
      BY <2>1
  <2>3. Cardinality(U) <= 1
    <3>1. U \subseteq {i}
        OBVIOUS
    <3>2. IsFiniteSet({i}) /\ Cardinality({i}) = 1
        BY FS_Singleton
    <3> QED
        BY <3>1, <3>2, FS_Subset
  <2> QED
      BY <1>1, <2>2, <2>3
<1> QED
    BY <1>2, <1>3

\* One thing that happens to a deployed cluster, of any kind, takes down one member at a
\* time, so that a cluster of more than one member keeps a majority serving: a failed
\* pod, an evicted one, a renewed certificate, or a change of the version, which the
\* cluster controller tells one member after the other and each of them takes up by
\* replacing its pod (cluster_controller.go:333-372, member_controller.go:110-184).  It
\* takes caches of the members and pods that do not lag; the cache of the cluster may,
\* and writes fail and managers restart as the bound of the instance allows.
THEOREM OneEventKeepsQuorum ==
    ASSUME MaxEvents = 1, "members" \notin Lagging, "pods" \notin Lagging,
           FALSE \notin Deployed, Size > 1
    PROVE  Spec => []QuorumKept
<1>1. Init => OneEvent
    BY InitOneEvent
<1>2. TypeOK /\ Repairing /\ OneEvent /\ [Next]_vars => OneEvent'
    BY OneEventInductive
<1>3. TypeOK /\ OneEvent => QuorumKept
    BY OneEventServes
<1> QED
    BY <1>1, <1>2, <1>3, MarkMeansInvariant, PTL DEF Spec

-----------------------------------------------------------------------------
(* The version a member reports.  While the cluster keeps its version, every *)
(* pod runs it.                                                              *)

PodsAgree(v) == \A k \in Members : pods[k].state # "none" => pods[k].version = v

LEMMA InitPodsAgree == Init => PodsAgree(cluster.spec.version)
<1> SUFFICES ASSUME Init PROVE PodsAgree(cluster.spec.version)
    OBVIOUS
<1>1. PICK v, backup : InitRunning(v, backup) \/ InitCreated(v, backup)
    BY DEF Init
<1>2. RunningPod(v, backup).version = v
    BY DEF RunningPod, NoPod
<1>3. NoPod.state = "none"
    BY DEF NoPod
<1> QED
    BY <1>1, <1>2, <1>3 DEF InitRunning, InitCreated, PodsAgree

\* A pod is made by the member controller, and keeps its version as long as it is there.
Makes(k) == /\ EnsurePod /\ mc.m = k /\ pods'[k] = GetPod(mc.obj)
PodStays(k) ==
    pods'[k].state # "none" => pods[k].state # "none" /\ pods'[k].version = pods[k].version

LEMMA PodVersions ==
    ASSUME TypeOK, Repairing, [Next]_vars, NEW k \in Members
    PROVE  PodStays(k) \/ Makes(k)
<1>0. pods \in [Members -> Pod] /\ (mc.pc # "idle" => mc.m \in Members)
    BY Held DEF TypeOK, OwnedTypeOK
<1>1. CASE UNCHANGED pods
    BY <1>1 DEF PodStays
<1>2. CASE MemberReconcile
  <2>1. CASE EnsurePod
      BY <1>0, <1>1, <2>1 DEF EnsurePod, Makes, PodStays
  <2>2. ASSUME DeletePod(mc.m), mc.pc # "idle" PROVE PodStays(k)
    <3>1. pods'[k].state = pods[k].state /\ pods'[k].version = pods[k].version
        BY <1>0, <2>2 DEF DeletePod, Pod
    <3> QED
        BY <3>1 DEF PodStays
  <2>3. CASE RepairDeletePod \/ UpdatePod
      BY <1>1, <2>2, <2>3 DEF RepairDeletePod, UpdatePod
  <2> QED
      BY <1>1, <1>2, <2>1, <2>3 DEF MemberReconcile, MemberWorkerStep, MemberWorkerFault, GetMember,
        RepairDeletePVC, ReaddRemove, ReaddAdd, ReaddAddReplyLost, RepairStatus,
        RepairStatusFails, RepairSpec, RepairSpecFails, Certificates, EnsurePVC,
        MemberCallFails, MemberStatusUpdate, MemberStatusUpdateFails
<1>3. CASE ClusterReconcile
    BY <1>1, <1>3, ClusterEffect DEF ClusterChanges
<1>4. CASE Sync \/ ChangeVersion \/ Tick \/ Crash \/ RestartOnPanic \/ UNCHANGED vars
    BY <1>1, <1>4 DEF Sync, SyncCluster, SyncMembers, SyncPods, ChangeVersion, Tick, Crash,
        RestartOnPanic, RestartManager, vars
<1>5. ASSUME NEW m \in Members, KubeletStep(m) \/ Mishap(m) PROVE PodStays(k)
  <2>1. CASE m # k
    <3>1. pods'[k] = pods[k]
        BY <1>0, <1>5, <2>1 DEF KubeletStep, Mishap, PodReady, PodRecovers, Serve, PodFails,
          PodEvicted, PodGone, PvcGone, IssueCertificates, RenewCertificate, podUnchanged,
          certUnchanged
    <3> QED
        BY <3>1 DEF PodStays
  <2>2. CASE m = k
    <3>1. ASSUME NEW s, s # "none", pods[k].state # "none",
                 pods' = [pods EXCEPT ![k].state = s] \/ pods' = [pods EXCEPT ![k].terminating = s]
          PROVE  PodStays(k)
        BY <1>0, <3>1 DEF PodStays, Pod
    <3>2. CASE PodReady(k) \/ PodRecovers(k) \/ PodFails(k)
        BY <3>1, <3>2 DEF PodReady, PodRecovers, PodFails, Serve
    <3>3. CASE PodEvicted(k)
      <4>1. pods'[k].state = pods[k].state /\ pods'[k].version = pods[k].version
          BY <1>0, <3>3 DEF PodEvicted, Pod
      <4> QED
          BY <4>1 DEF PodStays
    <3>4. CASE PodGone(k)
      <4>1. pods'[k].state = "none"
          BY <1>0, <3>4 DEF PodGone, NoPod
      <4> QED
          BY <4>1 DEF PodStays
    <3>5. CASE PvcGone(k) \/ IssueCertificates(k)
      <4>1. UNCHANGED pods
          BY <3>5 DEF PvcGone, IssueCertificates
      <4> QED
          BY <4>1 DEF PodStays
    <3>6. ASSUME NEW suffix \in Suffixes, RenewCertificate(k, suffix) PROVE PodStays(k)
      <4>1. /\ Outdated(pods[k], suffix).state = pods[k].state
            /\ Outdated(pods[k], suffix).version = pods[k].version
          BY <1>0 DEF Outdated, Pod
      <4> QED
          BY <1>0, <3>6, <4>1 DEF RenewCertificate, certUnchanged, PodStays
    <3> QED
        BY <1>5, <2>2, <3>2, <3>3, <3>4, <3>5, <3>6 DEF KubeletStep, Mishap
  <2> QED
      BY <2>1, <2>2
<1> QED
    BY <1>2, <1>3, <1>4, <1>5 DEF Next, Step, EnvironmentStep

LEMMA PodsAgreeInductive ==
    ASSUME TypeOK, Repairing, OneVersion, PodsAgree(cluster.spec.version), [Next]_vars,
           [cluster'.spec.version = cluster.spec.version]_vars
    PROVE  PodsAgree(cluster.spec.version)'
<1>v. PICK v : v = cluster.spec.version /\ v = cluster'.spec.version
    BY DEF vars
<1>1. ASSUME NEW k \in Members, Makes(k) PROVE pods'[k].version = v
  <2>1. mc.obj.spec.version = v
      BY <1>1, <1>v DEF Makes, EnsurePod, OneVersion, Agrees, HeldAgrees, OfVersion
  <2> QED
      BY <1>1, <2>1 DEF Makes, GetPod, NoPod
<1>2. \A k \in Members : pods'[k].state # "none" => pods'[k].version = v
    BY <1>1, <1>v, PodVersions DEF PodStays, PodsAgree
<1> QED
    BY <1>2, <1>v DEF PodsAgree

LEMMA AgreeingTruth ==
    ASSUME OneVersion, PodsAgree(cluster.spec.version) PROVE VersionTruth
BY DEF VersionTruth, PodsAgree, OneVersion, Agrees, MembersAgree, OfVersion

\* As long as nobody asks for another version, a member recorded as running reports the
\* version its pod runs: for any size, however many members fail and are repaired, with
\* any caches, faults and restarts (member_controller.go:143-184).
THEOREM SameVersionReported == Spec /\ VersionStays => []VersionTruth
<1>1. /\ TypeOK /\ Repairing /\ OneVersion /\ [Next]_vars
      /\ [cluster'.spec.version = cluster.spec.version]_vars
      => OneVersion'
    BY OneVersionInductive
<1>2. /\ TypeOK /\ Repairing /\ OneVersion /\ PodsAgree(cluster.spec.version) /\ [Next]_vars
      /\ [cluster'.spec.version = cluster.spec.version]_vars
      => PodsAgree(cluster.spec.version)'
    BY PodsAgreeInductive
<1>3. OneVersion /\ PodsAgree(cluster.spec.version) => VersionTruth
    BY AgreeingTruth
<1> QED
    BY <1>1, <1>2, <1>3, InitOneVersion, InitPodsAgree, MarkMeansInvariant, PTL
       DEF Spec, VersionStays

\* While a member is out of date its pod is the old one, or the worker that has just
\* replaced it holds the member still and will say so.
HoldsNew(k, w, v) == mc.pc # "idle" /\ mc.m = k /\ mc.obj \in {Moving(w, v), RunningMember(v)}
TurnRecorded(k, w, v) ==
    members[k] = OutOfDate(w, v) =>
        /\ mc.pc # "idle" /\ mc.m = k => mc.fresh \/ mc.obj = RunningMember(w)
        /\ pods[k].state # "none" => pods[k].version = w \/ HoldsNew(k, w, v)

RollingRecorded ==
    \E w \in Versions : /\ RollingFrom(w, cluster.spec.version)
                        /\ \A k \in Members : TurnRecorded(k, w, cluster.spec.version)

\* No status write of the member controller is lost, and no manager dies between
\* its writes.
StatusIsRecorded == [][~MemberStatusUpdateFails /\ ~Crash /\ ~RestartOnPanic]_vars

LEMMA TurnRecordedMember ==
    ASSUME TypeOK, Known, mlag = {}, NEW w \in Versions, NEW v \in Versions, w # v,
           NEW k \in Members, Turn(k, w, v), TurnRecorded(k, w, v),
           MemberReconcile, ~MemberStatusUpdateFails
    PROVE  TurnRecorded(k, w, v)'
<1>0. members \in [Members -> Member] /\ pods \in [Members -> Pod] /\ MemberWorkerTypeOK
      /\ (mc.pc # "idle" => mc.m \in Members /\ mc.obj \in Member)
    BY Held DEF TypeOK, StoreTypeOK, OwnedTypeOK
<1>f. /\ OutOfDate(w, v).spec = RunningMember(v).spec
      /\ Moving(w, v).spec = RunningMember(v).spec
      /\ OutOfDate(w, v) # Moving(w, v)
      /\ RunningMember(v) # OutOfDate(w, v) /\ RunningMember(v) # Moving(w, v)
      /\ RunningMember(w) # OutOfDate(w, v) /\ RunningMember(w) # Moving(w, v)
      /\ RunningMember(w) # RunningMember(v)
    BY TurningApart
<1>1. CASE \E m \in Members : GetMember(m)
  <2>1. PICK m \in Members : GetMember(m)
      BY <1>1
  <2>2. /\ UNCHANGED <<members, pods>> /\ mc.pc = "idle"
        /\ mc' = mc \/ mc'.fresh = (m \notin mlag)
      BY <2>1 DEF GetMember
  <2> QED
      BY <2>2 DEF TurnRecorded, HoldsNew
<1>2. CASE mc.pc # "idle" /\ mc.m # k
  <2>1. members'[k] = members[k] /\ pods'[k] = pods[k]
      BY <1>2, OthersKept
  <2>2. mc'.pc = "idle" \/ mc'.m = mc.m
      BY <1>2, WorkerEffect DEF Reads, Works, Stores, Ends, IdleMemberWorker
  <2> QED
      BY <1>2, <2>1, <2>2 DEF TurnRecorded, HoldsNew
<1>3. CASE mc.pc # "idle" /\ mc.m = k
  <2>1. HeldTurn(k, w, v)
      BY <1>3 DEF Turn
  <2>2. Certificates \/ UpdatePod \/ EnsurePod \/ MemberCallFails \/ MemberStatusUpdate
      BY <1>3, <2>1 DEF HeldTurn, MemberReconcile, MemberWorkerStep, MemberWorkerFault, GetMember,
        RepairDeletePod, RepairDeletePVC, ReaddRemove, ReaddAdd, ReaddAddReplyLost, RepairStatus,
        RepairStatusFails, RepairSpec, RepairSpecFails, EnsurePVC
  <2>3. CASE Certificates \/ MemberCallFails
    <3>1. UNCHANGED <<members, pods>>
        BY <2>3 DEF Certificates, MemberCallFails
    <3>2. CertificateExpires(k) = FALSE
        BY DEF CertificateExpires, Known, Turn
    <3>3. Checked(mc.obj, mc.m) = mc.obj
        BY <1>3, <2>1, <3>2, RunningFixed, TurningSteps DEF Checked, HeldTurn
    <3>4. /\ mc'.obj = mc.obj /\ mc'.m = mc.m /\ mc'.fresh = mc.fresh
          /\ mc'.pc \in {"status", AfterCertificates(mc.obj)}
        BY <1>0, <2>3, <3>3, ContinueFields, ReturnFields DEF Certificates, MemberCallFails
    <3>5. mc'.pc # "idle"
        BY <3>4 DEF AfterCertificates, AfterPVC
    <3> QED
        BY <1>3, <3>1, <3>4, <3>5 DEF TurnRecorded, HoldsNew
  <2>4. CASE UpdatePod
    <3>1. mc.obj = OutOfDate(w, v) /\ members[k] = OutOfDate(w, v) /\ UNCHANGED members
        BY <2>1, <2>4 DEF HeldTurn, UpdatePod
    <3>2. mc.fresh /\ (pods[k].state # "none" => pods[k].version = w)
        BY <1>3, <1>f, <3>1 DEF TurnRecorded, HoldsNew
    <3>3. CASE pods[k].state = "none"
      <4>1. UNCHANGED pods /\ Continue("pod", Moving(w, v))
          BY <1>3, <2>4, <3>1, <3>3, TurningSteps DEF UpdatePod
      <4>2. mc'.fresh
          BY <1>0, <3>2, <4>1, ContinueFields
      <4> QED
          BY <3>3, <4>1, <4>2 DEF TurnRecorded
    <3>4. CASE pods[k].state # "none"
      <4>1. DeletePod(k) /\ Return("requeue", OutOfDate(w, v))
          BY <1>3, <2>4, <3>1, <3>4 DEF UpdatePod
      <4>2. pods'[k].version = pods[k].version
          BY <1>0, <4>1 DEF DeletePod, Pod
      <4>3. mc'.fresh
          BY <1>0, <3>2, <4>1, ReturnFields
      <4> QED
          BY <3>2, <3>4, <4>2, <4>3 DEF TurnRecorded
    <3> QED
        BY <3>3, <3>4
  <2>5. CASE EnsurePod
    <3>1. mc.pc = "pod" /\ UNCHANGED members
        BY <2>5 DEF EnsurePod
    <3>2. \E result, obj : Return(result, obj)
        BY <2>5 DEF EnsurePod
    <3>3. mc'.pc = "status" /\ mc'.m = mc.m /\ mc'.fresh = mc.fresh
        BY <1>0, <3>2, ReturnFields
    <3>4. CASE mc.obj = RunningMember(w) /\ pods[k].state = "ready"
      <4>1. UNCHANGED pods /\ \E result : Return(result, RunningMember(w))
          BY <1>3, <2>5, <3>4, RunningFixed DEF EnsurePod, Known
      <4>2. mc'.obj = RunningMember(w)
          BY <1>0, <4>1, ReturnFields
      <4> QED
          BY <1>3, <1>f, <3>1, <3>3, <3>4, <4>1, <4>2 DEF TurnRecorded, HoldsNew
    <3>5. CASE mc.obj = Moving(w, v)
      <4>1. \E result : \/ Return(result, PodObserved(Moving(w, v), pods[k]))
                        \/ Return(result, PodCreated(Moving(w, v)))
                        \/ Return(result, Moving(w, v))
          BY <1>3, <2>5, <3>5 DEF EnsurePod, Known
      <4>2. mc'.obj \in {Moving(w, v), RunningMember(v)}
          BY <1>0, <4>1, ReturnFields, TurningSteps
      <4> QED
          BY <1>3, <1>f, <3>1, <3>3, <3>5, <4>2 DEF TurnRecorded, HoldsNew
    <3> QED
        BY <2>1, <3>1, <3>4, <3>5 DEF HeldTurn
  <2>6. CASE MemberStatusUpdate
    <3>1. UNCHANGED pods /\ mc'.pc = "idle"
        BY <2>6 DEF MemberStatusUpdate, FinishMember, IdleMemberWorker
    <3>2. \/ UNCHANGED members /\ ~mc.fresh
          \/ /\ mc.fresh
             /\ members' = [members EXCEPT ![k] = [members[k] EXCEPT !.status = mc.obj.status]]
        BY <1>3, <2>6 DEF MemberStatusUpdate, StoreMember
    <3>3. CASE mc.obj = RunningMember(w) /\ ~mc.fresh
        BY <1>f, <3>1, <3>2, <3>3 DEF TurnRecorded, HoldsNew
    <3>4. CASE mc.obj = OutOfDate(w, v) /\ members[k] = OutOfDate(w, v)
        BY <1>f, <3>1, <3>4 DEF TurnRecorded, HoldsNew
    <3>5. CASE mc.obj \in {Moving(w, v), RunningMember(v)}
      <4>1. members'[k] = members[k] \/ members'[k] = mc.obj
        <5>1. members[k] \in Member /\ mc.obj \in Member /\ members[k].spec = mc.obj.spec
            BY <1>0, <1>3, <1>f, <3>5 DEF Turn
        <5> QED
            BY <1>0, <3>2, <5>1, StatusWritten
      <4>2. mc.fresh => members'[k] = mc.obj
        <5>1. members[k] \in Member /\ mc.obj \in Member /\ members[k].spec = mc.obj.spec
            BY <1>0, <1>3, <1>f, <3>5 DEF Turn
        <5> QED
            BY <1>0, <3>2, <5>1, StatusWritten
      <4>3. members[k] = OutOfDate(w, v) => mc.fresh
          BY <1>3, <1>f, <3>5 DEF TurnRecorded
      <4>4. members'[k] # OutOfDate(w, v)
          BY <1>f, <3>5, <4>1, <4>2, <4>3 DEF Turn
      <4> QED
          BY <4>4 DEF TurnRecorded
    <3> QED
        BY <2>1, <2>6, <3>3, <3>4, <3>5 DEF HeldTurn
  <2> QED
      BY <2>2, <2>3, <2>4, <2>5, <2>6
<1> QED
    BY <1>1, <1>2, <1>3
       DEF MemberReconcile, MemberWorkerStep, MemberWorkerFault,
        RepairDeletePod, RepairDeletePVC, ReaddRemove, ReaddAdd, ReaddAddReplyLost, RepairStatus,
        RepairStatusFails, RepairSpec, RepairSpecFails, Certificates, EnsurePVC, UpdatePod,
        EnsurePod, MemberCallFails, MemberStatusUpdate, MemberStatusUpdateFails

LEMMA UpRecorded ==
    ASSUME NEW w \in Versions, NEW v \in Versions, w # v, NEW k \in Members
    PROVE  Up(k, w)' \/ Up(k, v)' => TurnRecorded(k, w, v)'
<1>1. Up(k, w)' \/ Up(k, v)' => members'[k] \in {RunningMember(w), RunningMember(v)}
    BY DEF Up
<1>2. RunningMember(w) # OutOfDate(w, v) /\ RunningMember(v) # OutOfDate(w, v)
    BY TurningApart
<1> QED
    BY <1>1, <1>2 DEF TurnRecorded

\* Only a write makes a reconcile of the member stale.
LEMMA FreshKept ==
    ASSUME TypeOK, ClusterReconcile, NEW k \in Members, mc.m = k, members'[k] = members[k]
    PROVE  mc'.fresh = mc.fresh
<1>0. members \in [Members -> Member] /\ (cc.pc = "update" => cc.i \in Members)
    BY DEF TypeOK, StoreTypeOK, ClusterWorkerTypeOK
<1>1. ASSUME NEW i \in Members, NEW value, UpdateMember(i, value) PROVE mc'.fresh = mc.fresh
  <2>1. i = k => members'[k] = value
      BY <1>0, <1>1 DEF UpdateMember, StoreMember
  <2> QED
      BY <1>1, <2>1 DEF UpdateMember
<1>2. ASSUME NEW i \in Members, RepairMember(i) PROVE mc'.fresh = mc.fresh
    BY <1>1, <1>2 DEF RepairMember
<1>3. CASE UpdateMemberVersion \/ UpdateMemberCertificate
    BY <1>0, <1>1, <1>3 DEF UpdateMemberVersion, UpdateMemberCertificate
<1> QED
    BY <1>2, <1>3 DEF ClusterReconcile, ClusterWorkerStep, ClusterWorkerFault, GetCluster,
        EnsureInfra, EnsureMembers, EnsureMembersAlreadyExists, EnsureMembersCallFails, PanicAt,
        RepairWaits, RepairDeclined, UpdateMemberWaits, UpdateMemberDone, ClusterCallFails,
        ClusterStatusUpdate, ClusterStatusUpdateFails, ownedUnchanged, storeUnchanged

LEMMA TurnRecordedCluster ==
    ASSUME TypeOK, Repairing, Known, mlag = {}, NEW w \in Versions, NEW v \in Versions,
           RollingFrom(w, v), NEW k \in Members, TurnRecorded(k, w, v), ClusterReconcile
    PROVE  TurnRecorded(k, w, v)'
<1>1. UNCHANGED pods /\ WorkerKept
    BY ClusterEffect DEF ClusterChanges
<1>2. CASE members'[k] = members[k]
  <2>1. mc.m = k => mc'.fresh = mc.fresh
      BY <1>2, FreshKept
  <2>2. mc'.pc = mc.pc /\ mc'.m = mc.m /\ mc'.obj = mc.obj
      BY <1>1 DEF WorkerKept
  <2> QED
      BY <1>1, <1>2, <2>1, <2>2 DEF TurnRecorded, HoldsNew
<1>3. CASE members'[k] # members[k]
  <2>1. members = [i \in Members |-> members[i]]
      BY DEF TypeOK, StoreTypeOK
  <2>2. Up(k, w)
      BY <1>3, <2>1, RollingWrites DEF Tells
  <2>3. /\ mc.pc # "idle" /\ mc.m = k => mc.obj = RunningMember(w)
        /\ pods[k].version = w
      BY <2>2 DEF Up
  <2>4. mc'.pc = mc.pc /\ mc'.m = mc.m /\ mc'.obj = mc.obj
      BY <1>1 DEF WorkerKept
  <2> QED
      BY <1>1, <2>3, <2>4 DEF TurnRecorded
<1> QED
    BY <1>2, <1>3

LEMMA TurnRecordedOutside ==
    ASSUME TypeOK, Repairing, NEW w, NEW v, NEW k \in Members, TurnRecorded(k, w, v), [Next]_vars,
           Sync \/ EnvironmentStep \/ UNCHANGED vars, ~Crash, ~RestartOnPanic
    PROVE  TurnRecorded(k, w, v)'
<1>1. UNCHANGED <<members, mc>>
    BY DEF Sync, SyncCluster, SyncMembers, SyncPods, EnvironmentStep, Tick, ChangeVersion,
        KubeletStep, Mishap, PodReady, PodRecovers, Serve, PodFails, PodEvicted, PodGone, PvcGone,
        IssueCertificates, RenewCertificate, podUnchanged, certUnchanged, workersUnchanged, vars
<1>2. ~EnsurePod
  <2>1. ASSUME NEW result, NEW obj, mc.pc = "pod" PROVE ~Return(result, obj)
      BY <1>1, <2>1, ReturnFields DEF TypeOK
  <2> QED
      BY <2>1 DEF EnsurePod
<1>3. PodStays(k)
    BY <1>2, PodVersions DEF Makes
<1> QED
    BY <1>1, <1>3 DEF TurnRecorded, HoldsNew, PodStays

LEMMA RollingRecordedInductive ==
    ASSUME TypeOK, Repairing, RollingRecorded, [Next]_vars,
           "members" \notin Lagging, "pods" \notin Lagging,
           [~MemberStatusUpdateFails /\ ~Crash /\ ~RestartOnPanic]_vars,
           ~ChangeVersion, \A m \in Members : ~Strikes(m), cluster'.spec = cluster.spec
    PROVE  RollingRecorded'
<1>w. PICK w \in Versions, v \in Versions :
            /\ v = cluster.spec.version /\ RollingFrom(w, v)
            /\ \A k \in Members : TurnRecorded(k, w, v)
    BY DEF RollingRecorded, TypeOK, StoreTypeOK, Cluster, ClusterSpec
<1>1. RollingFrom(w, v)' /\ cluster'.spec.version = v /\ w # v
    BY <1>w, RollingStep DEF RollingFrom
<1>2. Settled => Known /\ mlag = {}
    BY SettledKnown
<1>3. ASSUME NEW k \in Members PROVE TurnRecorded(k, w, v)'
  <2>1. CASE Sync \/ UNCHANGED vars \/ EnvironmentStep
    <3>1. CASE UNCHANGED vars
        BY <1>w, <3>1 DEF vars, TurnRecorded, HoldsNew
    <3>2. CASE ~UNCHANGED vars
        BY <1>w, <2>1, <3>2, TurnRecordedOutside
    <3> QED
        BY <3>1, <3>2
  <2>2. CASE Settled /\ ClusterReconcile
      BY <1>w, <1>2, <2>2, TurnRecordedCluster
  <2>3. CASE Settled /\ MemberReconcile
    <3>1. CASE UNCHANGED vars
        BY <1>w, <3>1 DEF vars, TurnRecorded, HoldsNew
    <3>2. CASE Turn(k, w, v) /\ ~UNCHANGED vars
        BY <1>w, <1>1, <1>2, <2>3, <3>2, TurnRecordedMember
    <3>3. CASE Up(k, w) \/ Up(k, v)
      <4>1. Up(k, w)' \/ Up(k, v)'
          BY <1>2, <2>3, <3>3, MemberSteady, UpIsSteady
      <4> QED
          BY <1>1, <4>1, UpRecorded
    <3> QED
        BY <1>w, <3>1, <3>2, <3>3 DEF RollingFrom, InTurn
  <2> QED
      BY <2>1, <2>2, <2>3 DEF Next, Step
<1> QED
    BY <1>1, <1>3 DEF RollingRecorded

EventRecorded ==
    /\ used.changes = 0 => PodsAgree(cluster.spec.version)
    /\ used.changes # 0 => RollingRecorded

LEMMA EventRecordedInductive ==
    ASSUME MaxEvents = 1, "members" \notin Lagging, "pods" \notin Lagging,
           TypeOK, Repairing, OneEvent, EventRecorded, [Next]_vars,
           [~MemberStatusUpdateFails /\ ~Crash /\ ~RestartOnPanic]_vars
    PROVE  EventRecorded'
<1>0. used.changes \in Nat /\ Struck \in Nat /\ Struck + used.changes <= 1
    BY ChangesCount, StruckCounts DEF OneEvent
<1>1. CASE ChangeVersion
  <2>1. Struck = 0 /\ used.changes = 0 /\ used'.changes = 1
      BY <1>0, <1>1, ChangesCount
  <2>2. OneVersion /\ FewUnsteady
      BY <2>1 DEF OneEvent
  <2>3. Unsteady(cluster.spec.version) = {}
    <3>1. Unsteady(cluster.spec.version) \in SUBSET Members
        BY DEF Unsteady
    <3> QED
        BY <2>1, <2>2, <3>1, UnsteadyFinite, FS_EmptySet DEF FewUnsteady
  <2>4. PICK w \in Versions :
            (RollingFrom(w, cluster.spec.version) /\ \A k \in Members : Up(k, w))'
      BY <1>1, <2>2, <2>3, ChangeBegins
  <2>5. PICK v : v = cluster'.spec.version
      OBVIOUS
  <2>6. v \in Versions /\ w # v
      BY <1>1, <2>4, <2>5 DEF RollingFrom, ChangeVersion, StoreCluster, TypeOK, StoreTypeOK, Cluster,
        ClusterSpec
  <2>7. \A k \in Members : TurnRecorded(k, w, v)'
      BY <2>4, <2>6, UpRecorded
  <2>8. RollingRecorded'
      BY <2>4, <2>5, <2>7 DEF RollingRecorded
  <2> QED
      BY <2>1, <2>8 DEF EventRecorded
<1>2. CASE ~ChangeVersion /\ used.changes = 0
  <2>1. used'.changes = 0 /\ cluster'.spec = cluster.spec
      BY <1>2, ChangesCount
  <2>2. PodsAgree(cluster.spec.version)'
      BY <1>2, <2>1, PodsAgreeInductive DEF OneEvent, EventRecorded
  <2> QED
      BY <2>1, <2>2 DEF EventRecorded
<1>3. CASE ~ChangeVersion /\ used.changes # 0
  <2>1. used'.changes = used.changes /\ cluster'.spec = cluster.spec
      BY <1>3, ChangesCount
  <2>2. \A m \in Members : ~Strikes(m)
      BY <1>0, <1>3, ChangesCount
  <2>3. RollingRecorded'
      BY <1>3, <2>1, <2>2, RollingRecordedInductive DEF EventRecorded
  <2> QED
      BY <1>3, <2>1, <2>3 DEF EventRecorded
<1> QED
    BY <1>1, <1>2, <1>3

LEMMA RecordedTruth ==
    ASSUME TypeOK, OneEvent, EventRecorded PROVE VersionTruth
<1>1. CASE used.changes = 0
    BY <1>1, AgreeingTruth DEF OneEvent, EventRecorded
<1>2. CASE used.changes # 0
  <2>w. PICK w \in Versions, v \in Versions :
              RollingFrom(w, v) /\ \A k \in Members : TurnRecorded(k, w, v)
      BY <1>2 DEF EventRecorded, RollingRecorded, TypeOK, StoreTypeOK, Cluster, ClusterSpec
  <2> SUFFICES ASSUME NEW k \in Members, members[k].status.phase = "Running",
                      pods[k].state = "ready", ~(mc.pc # "idle" /\ mc.m = k)
               PROVE  pods[k].version = members[k].status.version
      BY DEF VersionTruth
  <2>1. CASE Up(k, w) \/ Up(k, v)
    <3>1. PICK x \in {w, v} : Up(k, x)
        BY <2>1
    <3>2. members[k] = RunningMember(x) /\ pods[k].version = x
        BY <3>1 DEF Up
    <3> QED
        BY <3>2, RunningFields
  <2>2. CASE Turn(k, w, v)
    <3>1. members[k] = OutOfDate(w, v)
        BY <2>2, MovingFields DEF Turn
    <3>2. pods[k].version = w
        BY <2>w, <3>1 DEF TurnRecorded, HoldsNew
    <3>3. OutOfDate(w, v).status.version = w
        BY OutOfDateFields
    <3> QED
        BY <3>1, <3>2, <3>3
  <2> QED
      BY <2>w, <2>1, <2>2 DEF RollingFrom, InTurn
<1> QED
    BY <1>1, <1>2

LEMMA EventRecordedInvariant ==
    ASSUME MaxEvents = 1, "members" \notin Lagging, "pods" \notin Lagging, FALSE \notin Deployed
    PROVE  Spec /\ StatusIsRecorded => [](TypeOK /\ OneEvent /\ EventRecorded)
<1>1. Init => OneEvent /\ EventRecorded
  <2> SUFFICES ASSUME Init PROVE OneEvent /\ EventRecorded
      OBVIOUS
  <2>1. used.changes = 0
      BY DEF Init
  <2> QED
      BY <2>1, InitOneEvent, InitPodsAgree DEF EventRecorded
<1>2. TypeOK /\ Repairing /\ OneEvent /\ [Next]_vars => OneEvent'
    BY OneEventInductive
<1>3. /\ TypeOK /\ Repairing /\ OneEvent /\ EventRecorded /\ [Next]_vars
      /\ [~MemberStatusUpdateFails /\ ~Crash /\ ~RestartOnPanic]_vars
      => EventRecorded'
    BY EventRecordedInductive
<1> QED
    BY <1>1, <1>2, <1>3, MarkMeansInvariant, PTL DEF Spec, StatusIsRecorded

\* The same for one event of any kind in a deployed cluster, the change of its version
\* too: the members take it up one by one, and none says it runs a version its pod does
\* not.  It takes caches of the members and pods that do not lag, and that the write is
\* not lost by which the member controller records that it has replaced the pod, for an
\* error or because the manager dies before it (member_controller.go:70-74); any other
\* call may fail.
THEOREM RecordedChangeReported ==
    ASSUME MaxEvents = 1, "members" \notin Lagging, "pods" \notin Lagging, FALSE \notin Deployed
    PROVE  Spec /\ StatusIsRecorded => []VersionTruth
<1>1. TypeOK /\ OneEvent /\ EventRecorded => VersionTruth
    BY RecordedTruth
<1> QED
    BY <1>1, EventRecordedInvariant, PTL

\* The pod that is replaced in the course of the change is the old one.
EventDue == used.changes = 0 => ReplaceDue

LEMMA EventUpdateDue ==
    ASSUME TypeOK, EventDue, EventRecorded
    PROVE  UpdateDue
<1>1. CASE used.changes = 0
    BY <1>1 DEF EventDue, ReplaceDue, UpdateDue
<1>2. CASE used.changes # 0
  <2>w. PICK w \in Versions, v \in Versions :
              RollingFrom(w, v) /\ \A k \in Members : TurnRecorded(k, w, v)
      BY <1>2 DEF EventRecorded, RollingRecorded, TypeOK, StoreTypeOK, Cluster, ClusterSpec
  <2> SUFFICES ASSUME mc.pc = "updatePod", pods[mc.m].state # "none"
               PROVE  pods[mc.m].version # members[mc.m].spec.version
      BY DEF UpdateDue
  <2>1. PICK k \in Members : k = mc.m
      BY Held DEF TypeOK
  <2>2. Turn(k, w, v)
      BY <2>w, <2>1 DEF RollingFrom, InTurn, Up
  <2>3. mc.obj = OutOfDate(w, v) /\ members[k] = OutOfDate(w, v)
      BY <2>1, <2>2 DEF Turn, HeldTurn
  <2>4. w # v /\ OutOfDate(w, v) # Moving(w, v) /\ OutOfDate(w, v) # RunningMember(v)
        /\ OutOfDate(w, v).spec.version = v
      BY <2>w, TurningApart DEF RollingFrom
  <2>5. pods[k].version = w
      BY <2>w, <2>1, <2>3, <2>4 DEF TurnRecorded, HoldsNew
  <2> QED
      BY <2>1, <2>3, <2>4, <2>5
<1> QED
    BY <1>1, <1>2

\* Nor does the change replace a pod twice: what the member controller deletes for it is
\* a pod of the old version, and any other pod is deleted for the mark on its member or
\* for its certificate (member_controller.go:91-96, member_types.go:353).
THEOREM RecordedChangeRestartsOnce ==
    ASSUME MaxEvents = 1, "members" \notin Lagging, "pods" \notin Lagging, FALSE \notin Deployed
    PROVE  Spec /\ StatusIsRecorded => NoNeedlessRestart
<1>1. Init => RepairMarked /\ EventDue
    BY DEF Init, IdleMemberWorker, RepairMarked, RepairSteps, EventDue, ReplaceDue
<1>2. TypeOK /\ Repairing /\ MarkMeans /\ RepairMarked /\ [Next]_vars => RepairMarked'
    BY RepairMarkedInductive
<1>3. TypeOK /\ Repairing /\ DataFits /\ OneEvent /\ EventDue /\ [Next]_vars => EventDue'
  <2> SUFFICES ASSUME TypeOK, Repairing, DataFits, OneEvent, EventDue, [Next]_vars,
                      used'.changes = 0
               PROVE  ReplaceDue'
      BY DEF EventDue
  <2>1. used.changes = 0
      BY ChangesCount
  <2> QED
      BY <2>1, ReplaceDueInductive DEF OneEvent, EventDue
<1>4. RepairMarked => DeleteDue
    BY DEF RepairMarked, DeleteDue, RepairSteps
<1>5. Spec /\ StatusIsRecorded => [](TypeOK /\ OneEvent /\ EventRecorded)
    BY EventRecordedInvariant
<1> QED
    BY <1>1, <1>2, <1>3, <1>4, <1>5, EventUpdateDue, RestartsFromDue, DataFitsInvariant, PTL
       DEF Spec, NoNeedlessRestart
=============================================================================
