---------------------------- MODULE RepairProofs ----------------------------
(***************************************************************************)
(* That at most one member is marked broken, for a cluster of any size and *)
(* whatever the caches show.  RepairMembers decides on cached members, so  *)
(* the invariant has to say why a mark the cache does not show yet is not  *)
(* followed by a second one: RepairMembers, run again on the same cache,   *)
(* picks the same member, and its update is then refused.                  *)
(***************************************************************************)
EXTENDS EtcdOpsProofs, FiniteSetTheorems

CacheAgrees == \A i \in Members : i \notin mlag => mcache[i] = members[i]

\* A mark the cache does not show is on the member RepairMembers would pick.
MarkedOldest ==
    \A k \in Members : members[k].spec.broken /\ ~mcache[k].spec.broken => Oldest(k)

Repairing == CacheAgrees /\ MarkedOldest /\ RepairOneAtATime

\* A step that marks no member and does not move the caches or the clock.
MarksNone ==
    /\ UNCHANGED <<mcache, now>>
    /\ mlag \subseteq mlag'
    /\ \A k \in Members : k \notin mlag' => members'[k] = members[k]
    /\ \A k \in Members : members'[k].spec.broken => members[k].spec.broken

-----------------------------------------------------------------------------

\* Only one member is the oldest failed one.
LEMMA OldestUnique ==
    ASSUME TypeOK, NEW i \in Members, NEW k \in Members, Oldest(i), Oldest(k)
    PROVE  i = k
<1>1. mcache[i].status.failedTime \in Int /\ mcache[k].status.failedTime \in Int
    BY BoundAssumption DEF TypeOK, StoreTypeOK, Member, MemberStatus, Times
<1>2. i \in Int /\ k \in Int
    BY SizeAssumption DEF Members
<1> QED
    BY <1>1, <1>2 DEF Oldest

LEMMA MarksNonePreserves ==
    ASSUME Repairing, MarksNone PROVE Repairing'
<1>1. CacheAgrees'
    BY DEF Repairing, CacheAgrees, MarksNone
<1>2. \A k \in Members : Oldest(k)' <=> Oldest(k)
    BY DEF MarksNone, Oldest, Overdue
<1>3. MarkedOldest'
    BY <1>2 DEF Repairing, MarkedOldest, MarksNone
<1>4. RepairOneAtATime'
    BY DEF Repairing, RepairOneAtATime, MarksNone
<1> QED
    BY <1>1, <1>3, <1>4 DEF Repairing

\* A write of member m that does not set its mark.
LEMMA StoreMarksNone ==
    ASSUME TypeOK, NEW m \in Members, NEW value, StoreMember(m, value),
           UNCHANGED <<mcache, now>>,
           value.spec.broken => members[m].spec.broken
    PROVE  MarksNone
<1>1. members' = [members EXCEPT ![m] = value] /\ members \in [Members -> Member]
    BY DEF StoreMember, TypeOK, StoreTypeOK
<1>2. mlag \subseteq mlag' /\ (value # members[m] => m \in mlag')
    BY DEF StoreMember
<1> QED
    BY <1>1, <1>2 DEF MarksNone

LEMMA UnchangedMarksNone ==
    ASSUME UNCHANGED <<members, mlag, mcache, now>> PROVE MarksNone
BY DEF MarksNone

LEMMA MemberMarksNone ==
    ASSUME TypeOK, MemberReconcile PROVE MarksNone
<1>h. ASSUME mc.pc # "idle" PROVE mc.m \in Members /\ mc.obj \in Member
    BY <1>h, Held DEF TypeOK
<1>0. UNCHANGED <<mcache, now>>
    BY DEF MemberReconcile, MemberWorkerStep, MemberWorkerFault, GetMember, RepairDeletePod,
        RepairDeletePVC, ReaddRemove, ReaddAdd, ReaddAddReplyLost, RepairStatus,
        RepairStatusFails, RepairSpec, RepairSpecFails, Certificates, EnsurePVC, UpdatePod,
        EnsurePod, MemberCallFails, MemberStatusUpdate, MemberStatusUpdateFails,
        objectsUnchanged
<1>1. CASE RepairStatus
  <2> DEFINE new == [members[mc.m] EXCEPT !.status = Recreated(mc.obj).status]
  <2>1. mc.m \in Members
      BY <1>1, <1>h DEF RepairStatus
  <2>2. members[mc.m] \in Member
      BY <2>1 DEF TypeOK, StoreTypeOK
  <2>3. new.spec = members[mc.m].spec
      BY <2>2 DEF Member
  <2>4. StoreMember(mc.m, new) \/ UNCHANGED <<members, mlag>>
      BY <1>1 DEF RepairStatus
  <2> HIDE DEF new
  <2> QED
      BY <1>0, <2>1, <2>3, <2>4, StoreMarksNone, UnchangedMarksNone
<1>2. CASE RepairSpec
  <2> DEFINE new == [members[mc.m] EXCEPT !.spec = Mended(mc.obj).spec]
  <2>1. mc.m \in Members /\ mc.obj \in Member
      BY <1>2, <1>h DEF RepairSpec
  <2>2. members[mc.m] \in Member
      BY <2>1 DEF TypeOK, StoreTypeOK
  <2>3. new.spec.broken = FALSE
      BY <2>1, <2>2 DEF Mended, Member, MemberSpec
  <2>4. StoreMember(mc.m, new) \/ UNCHANGED <<members, mlag>>
      BY <1>2 DEF RepairSpec
  <2> HIDE DEF new
  <2> QED
      BY <1>0, <2>1, <2>3, <2>4, StoreMarksNone, UnchangedMarksNone
<1>3. CASE MemberStatusUpdate
  <2> DEFINE new == [members[mc.m] EXCEPT !.status = mc.obj.status]
  <2>1. mc.m \in Members
      BY <1>3, <1>h DEF MemberStatusUpdate
  <2>2. members[mc.m] \in Member
      BY <2>1 DEF TypeOK, StoreTypeOK
  <2>3. new.spec = members[mc.m].spec
      BY <2>2 DEF Member
  <2>4. StoreMember(mc.m, new) \/ UNCHANGED <<members, mlag>>
      BY <1>3 DEF MemberStatusUpdate
  <2> HIDE DEF new
  <2> QED
      BY <1>0, <2>1, <2>3, <2>4, StoreMarksNone, UnchangedMarksNone
<1>4. CASE ~(RepairStatus \/ RepairSpec \/ MemberStatusUpdate)
  <2>1. UNCHANGED <<members, mlag>>
      BY <1>4 DEF MemberReconcile, MemberWorkerStep, MemberWorkerFault, GetMember,
          RepairDeletePod, RepairDeletePVC, ReaddRemove, ReaddAdd, ReaddAddReplyLost,
          RepairStatusFails, RepairSpecFails, Certificates, EnsurePVC, UpdatePod, EnsurePod,
          MemberCallFails, MemberStatusUpdateFails
  <2> QED
      BY <1>0, <2>1, UnchangedMarksNone
<1> QED
    BY <1>1, <1>2, <1>3, <1>4

LEMMA CreateMarksNone ==
    ASSUME TypeOK, cc.obj \in Cluster, NEW created, created \subseteq Members,
           CreateMembers(created), UNCHANGED <<mcache, now>>
    PROVE  MarksNone
<1>1. MemberTemplate(cc.obj).spec.broken = FALSE
    BY AbsentMemberType DEF MemberTemplate, AbsentMember
<1> QED
    BY <1>1 DEF CreateMembers, MarksNone

\* The update of a member the cache shows as it is stored, its mark left alone.
LEMMA UpdateMarksNone ==
    ASSUME TypeOK, CacheAgrees, ClusterReconcile, UpdateMemberVersion \/ UpdateMemberCertificate
    PROVE  MarksNone
<1>0. UNCHANGED <<mcache, now>>
    BY DEF UpdateMemberVersion, UpdateMemberCertificate, ownedUnchanged
<1>1. cc.pc = "update" /\ cc.i \in Members
    BY DEF UpdateMemberVersion, UpdateMemberCertificate, TypeOK, ClusterWorkerTypeOK
<1>2. CASE UNCHANGED <<members, mlag>>
    BY <1>0, <1>2, UnchangedMarksNone
<1>3. CASE cc.i \notin mlag /\ \/ StoreMember(cc.i, WithVersion(Current))
                               \/ StoreMember(cc.i, WithCertificateUpdate(Current))
  <2>1. Current = members[cc.i] /\ Current \in Member
      BY <1>1, <1>3 DEF CacheAgrees, Current, TypeOK, StoreTypeOK
  <2>2. WithVersion(Current).spec.broken = Current.spec.broken
      BY <2>1 DEF WithVersion, Member, MemberSpec
  <2>3. WithCertificateUpdate(Current).spec.broken = Current.spec.broken
      BY <2>1 DEF WithCertificateUpdate, Member, MemberSpec
  <2> QED
      BY <1>0, <1>1, <1>3, <2>1, <2>2, <2>3, StoreMarksNone
<1> QED
    BY <1>2, <1>3 DEF UpdateMemberVersion, UpdateMemberCertificate, UpdateMember

\* The only action that marks a member.
LEMMA RepairMemberPreserves ==
    ASSUME TypeOK, Repairing, NEW i \in Members, RepairMember(i) PROVE Repairing'
<1>0. UNCHANGED <<mcache, now>>
    BY DEF RepairMember, ownedUnchanged
<1>1. CASE i \in mlag
    BY <1>0, <1>1, UnchangedMarksNone, MarksNonePreserves DEF RepairMember
<1>2. CASE i \notin mlag
  <2>1. StoreMember(i, Broken(mcache[i])) /\ Oldest(i) /\ ~RepairUnderWay
      BY <1>2 DEF RepairMember, UpdateMember
  <2>2. \A k \in Members : ~mcache[k].spec.broken
      BY <2>1 DEF RepairUnderWay, RepairStops
  <2>3. \A k \in Members : members[k].spec.broken => k = i
      BY <2>1, <2>2, OldestUnique DEF Repairing, MarkedOldest
  <2>4. /\ members' = [members EXCEPT ![i] = Broken(mcache[i])]
        /\ members \in [Members -> Member]
        /\ mlag' = IF Broken(mcache[i]) = members[i] THEN mlag ELSE mlag \cup {i}
      BY <2>1 DEF StoreMember, TypeOK, StoreTypeOK
  <2>5. \A k \in Members : members'[k].spec.broken => k = i
      BY <2>3, <2>4
  <2>6. CacheAgrees'
      BY <1>0, <2>4 DEF Repairing, CacheAgrees
  <2>7. Oldest(i)'
      BY <1>0, <2>1 DEF Oldest, Overdue
  <2>8. MarkedOldest'
      BY <2>5, <2>7 DEF MarkedOldest
  <2>9. RepairOneAtATime'
      BY <2>5 DEF RepairOneAtATime
  <2> QED
      BY <2>6, <2>8, <2>9 DEF Repairing
<1> QED
    BY <1>1, <1>2

LEMMA ClusterPreserves ==
    ASSUME TypeOK, Repairing, ClusterReconcile PROVE Repairing'
<1>0. UNCHANGED <<mcache, now>>
    BY DEF ClusterReconcile, ClusterWorkerStep, ClusterWorkerFault, GetCluster, EnsureInfra,
        EnsureMembers, EnsureMembersAlreadyExists, EnsureMembersCallFails, PanicAt,
        RepairWaits, RepairDeclined, RepairMember, UpdateMemberWaits, UpdateMemberVersion,
        UpdateMemberCertificate, UpdateMemberDone, ClusterCallFails, ClusterStatusUpdate,
        ClusterStatusUpdateFails, ownedUnchanged
<1>1. CASE \E i \in Members : RepairMember(i)
    BY <1>1, RepairMemberPreserves
<1>2. CASE UpdateMemberVersion \/ UpdateMemberCertificate
    BY <1>2, UpdateMarksNone, MarksNonePreserves DEF Repairing
<1>3. CASE EnsureMembers \/ EnsureMembersAlreadyExists \/ EnsureMembersCallFails
  <2>1. PICK created \in SUBSET Members : CreateMembers(created)
      BY <1>3 DEF EnsureMembers, EnsureMembersAlreadyExists, EnsureMembersCallFails, PanicAt,
          NotCached
  <2>2. cc.obj \in Cluster
      BY <1>3, HeldCluster DEF EnsureMembers, EnsureMembersAlreadyExists,
          EnsureMembersCallFails, TypeOK
  <2> QED
      BY <1>0, <2>1, <2>2, CreateMarksNone, MarksNonePreserves
<1>4. CASE UNCHANGED <<members, mlag>>
    BY <1>0, <1>4, UnchangedMarksNone, MarksNonePreserves
<1> QED
    BY <1>1, <1>2, <1>3, <1>4
       DEF ClusterReconcile, ClusterWorkerStep, ClusterWorkerFault, GetCluster, EnsureInfra,
        RepairWaits, RepairDeclined, UpdateMemberWaits, UpdateMemberDone, ClusterCallFails,
        ClusterStatusUpdate, ClusterStatusUpdateFails, storeUnchanged

-----------------------------------------------------------------------------

\* A cache brought up to date shows every mark.
LEMMA CaughtUpPreserves ==
    ASSUME RepairOneAtATime, mcache' = members, UNCHANGED members PROVE Repairing'
BY DEF Repairing, CacheAgrees, MarkedOldest, RepairOneAtATime

\* The members that become overdue failed later than those that were.
LEMMA TickPreserves ==
    ASSUME TypeOK, Repairing, Tick PROVE Repairing'
<1>1. UNCHANGED <<members, mcache, mlag>> /\ now' = now + 1 /\ now \in Int
    BY BoundAssumption DEF Tick, TypeOK, BoundsOK, Times
<1>2. \A k \in Members : mcache[k].status.failedTime \in Int
    BY BoundAssumption DEF TypeOK, StoreTypeOK, Member, MemberStatus, Times
<1>3. ASSUME NEW k \in Members, Oldest(k) PROVE Oldest(k)'
  <2>1. k \in Overdue /\ k \in Overdue'
      BY <1>1, <1>2, <1>3 DEF Oldest, Overdue
  <2>2. ASSUME NEW j \in Overdue', j \notin Overdue
        PROVE  mcache[k].status.failedTime < mcache[j].status.failedTime
      BY <1>1, <1>2, <2>1, <2>2 DEF Overdue
  <2> QED
      BY <1>1, <1>3, <2>1, <2>2 DEF Oldest
<1>4. MarkedOldest'
    BY <1>1, <1>3 DEF Repairing, MarkedOldest
<1>5. CacheAgrees' /\ RepairOneAtATime'
    BY <1>1 DEF Repairing, CacheAgrees, RepairOneAtATime
<1> QED
    BY <1>4, <1>5 DEF Repairing

LEMMA SyncPreserves ==
    ASSUME Repairing, Sync PROVE Repairing'
<1>1. CASE SyncMembers
    BY <1>1, CaughtUpPreserves DEF Repairing, SyncMembers
<1>2. CASE SyncCluster \/ SyncPods
    BY <1>2, UnchangedMarksNone, MarksNonePreserves DEF SyncCluster, SyncPods
<1> QED
    BY <1>1, <1>2 DEF Sync

LEMMA EnvironmentPreserves ==
    ASSUME TypeOK, Repairing, EnvironmentStep PROVE Repairing'
<1>1. CASE Tick
    BY <1>1, TickPreserves
<1>2. CASE Crash \/ RestartOnPanic
    BY <1>2, CaughtUpPreserves DEF Repairing, Crash, RestartOnPanic, RestartManager
<1>3. CASE ChangeVersion \/ \E m \in Members : KubeletStep(m) \/ Mishap(m)
  <2>1. UNCHANGED <<members, mlag, mcache, now>>
      BY <1>3 DEF ChangeVersion, KubeletStep, Mishap, PodReady, PodRecovers, Serve, PodFails,
          PodEvicted, PodGone, PvcGone, IssueCertificates, RenewCertificate, podUnchanged,
          certUnchanged
  <2> QED
      BY <2>1, UnchangedMarksNone, MarksNonePreserves
<1> QED
    BY <1>1, <1>2, <1>3 DEF EnvironmentStep

LEMMA RepairingInductive == TypeOK /\ Repairing /\ [Next]_vars => Repairing'
<1> SUFFICES ASSUME TypeOK, Repairing, [Next]_vars PROVE Repairing'
    OBVIOUS
<1>1. CASE MemberReconcile
    BY <1>1, MemberMarksNone, MarksNonePreserves
<1>2. CASE UNCHANGED vars
    BY <1>2, UnchangedMarksNone, MarksNonePreserves DEF vars
<1> QED
    BY <1>1, <1>2, ClusterPreserves, SyncPreserves, EnvironmentPreserves DEF Next, Step

LEMMA InitRepairing == Init => Repairing
<1> SUFFICES ASSUME Init PROVE Repairing
    OBVIOUS
<1>1. \A m \in Members : members[m].spec.broken = FALSE
  <2>1. PICK v, backup : InitRunning(v, backup) \/ InitCreated(v, backup)
      BY DEF Init
  <2> QED
      BY <2>1 DEF InitRunning, InitCreated, RunningMember, AbsentMember
<1>2. mcache = members
    BY DEF Init
<1> QED
    BY <1>1, <1>2 DEF Repairing, CacheAgrees, MarkedOldest, RepairOneAtATime

\* At most one member is marked broken at any time, for clusters of any size,
\* any number of failures and faults, and caches as far behind as may be
\* (RepairMembers, cluster_controller.go:292-331).
THEOREM RepairsOneAtATime == Spec => []RepairOneAtATime
<1>1. Init => Repairing
    BY InitRepairing
<1>2. TypeOK /\ Repairing /\ [Next]_vars => Repairing'
    BY RepairingInductive
<1>3. Repairing => RepairOneAtATime
    BY DEF Repairing
<1> QED
    BY <1>1, <1>2, <1>3, TypeCorrect, PTL DEF Spec

\* What RepairsOneByOne is for: in a cluster of three members or more whose repairs
\* follow SingleRepair, only one member is ever without its data, and that is a
\* minority (cluster_controller.go:302-307).
THEOREM DataKeptByRepairs ==
    ASSUME Size >= 3 PROVE RepairsOneByOne => []DataKept
<1>1. Repairs!AtMostOneLost => DataKept
  <2> SUFFICES ASSUME \A j, k \in WithoutData : j = k PROVE DataKept
      BY DEF Repairs!AtMostOneLost
  <2>1. CASE WithoutData = {}
      BY <2>1, FS_EmptySet, SizeAssumption DEF DataKept
  <2>2. CASE \E m \in WithoutData : WithoutData = {m}
      BY <2>2, FS_Singleton, SizeAssumption DEF DataKept
  <2> QED
      BY <2>1, <2>2
<1> QED
    BY <1>1, Repairs!OneLost, PTL DEF RepairsOneByOne
=============================================================================
