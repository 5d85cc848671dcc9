--------------------------- MODULE EtcdOpsProofs ---------------------------
(***************************************************************************)
(* Theorems about EtcdOps for every size of the cluster, every set of      *)
(* versions, every bound and whatever caches lag.                          *)
(***************************************************************************)
EXTENDS EtcdOps, TLAPS

-----------------------------------------------------------------------------
(* The operators on objects return objects. *)

LEMMA AbsentMemberType == AbsentMember \in Member
BY BoundAssumption DEF AbsentMember, Member, MemberSpec, MemberStatus, MemberPhases, Times

LEMMA NoPodType == NoPod \in Pod
BY DEF NoPod, Pod, Suffixes

LEMMA IdleTypes == IdleMemberWorker \in MemberWorker /\ IdleClusterWorker \in ClusterWorker
BY AbsentMemberType
   DEF IdleMemberWorker, MemberWorker, MemberSteps, IdleClusterWorker, ClusterWorker,
       ClusterSteps, Results

LEMMA TemplateType ==
    ASSUME NEW c \in Cluster PROVE MemberTemplate(c) \in Member
BY AbsentMemberType DEF MemberTemplate, Member, MemberSpec, MemberStatus, MemberPhases,
    Cluster, ClusterSpec

LEMMA GetPodType ==
    ASSUME NEW m \in Member, cluster \in Cluster PROVE GetPod(m) \in Pod
BY DEF Cluster, ClusterSpec, GetPod, GetState, Restores, NoPod, Pod, Suffixes, Member, MemberSpec

LEMMA SetFailedType ==
    ASSUME NEW m \in Member, now \in Times PROVE SetFailed(m) \in Member
BY DEF SetFailed, Member, MemberStatus, MemberPhases, MemberSpec

LEMMA RunningTypes ==
    ASSUME NEW v \in Versions, NEW backup \in BOOLEAN
    PROVE  RunningMember(v) \in Member /\ RunningPod(v, backup) \in Pod
<1>1. RunningMember(v) \in Member
    BY BoundAssumption DEF RunningMember, Member, MemberSpec, MemberStatus, MemberPhases, Times
<1>2. RunningPod(v, backup) \in Pod
    BY NoPodType DEF RunningPod, Pod
<1> QED
    BY <1>1, <1>2

LEMMA InitType == Init => TypeOK
<1> SUFFICES ASSUME Init PROVE TypeOK
    OBVIOUS
<1>1. PICK v \in Versions, backup \in BOOLEAN : InitRunning(v, backup) \/ InitCreated(v, backup)
    BY VersionAssumption, FlagAssumption DEF Init
<1>2. cluster \in Cluster
  <2>1. CASE InitRunning(v, backup)
      BY <2>1 DEF InitRunning, Cluster, ClusterSpec, ClusterStatus, ClusterPhases
  <2>2. CASE InitCreated(v, backup)
    <3>1. NoCluster.status \in ClusterStatus
        BY DEF NoCluster, ClusterStatus, ClusterPhases
    <3> QED
        BY <2>2, <3>1 DEF InitCreated, Cluster, ClusterSpec
  <2> QED
      BY <1>1, <2>1, <2>2
<1>3. members \in [Members -> Member] /\ pods \in [Members -> Pod]
  <2>1. RunningMember(v) \in Member /\ RunningPod(v, backup) \in Pod
      BY RunningTypes
  <2>2. CASE InitRunning(v, backup)
      BY <2>1, <2>2 DEF InitRunning
  <2>3. CASE InitCreated(v, backup)
      BY <2>3, AbsentMemberType, NoPodType DEF InitCreated
  <2> QED
      BY <1>1, <2>2, <2>3
<1>4. StoreTypeOK
    BY <1>2, <1>3 DEF Init, StoreTypeOK
<1>5. OwnedTypeOK
    BY <1>1, <1>3 DEF Init, InitRunning, InitCreated, OwnedTypeOK
<1>6. MemberWorkerTypeOK /\ ClusterWorkerTypeOK
    BY <1>1, IdleTypes DEF Init, InitRunning, InitCreated, MemberWorkerTypeOK,
        ClusterWorkerTypeOK, IdleMemberWorker, IdleClusterWorker
<1>7. BoundsOK
    BY BoundAssumption DEF Init, BoundsOK, Times, Budgets
<1> QED
    BY <1>4, <1>5, <1>6, <1>7 DEF TypeOK

-----------------------------------------------------------------------------
(* Every step of a worker keeps the types. *)

LEMMA StoreMemberType ==
    ASSUME StoreTypeOK, NEW m \in Members, NEW value \in Member, StoreMember(m, value)
    PROVE  members' \in [Members -> Member] /\ mlag' \subseteq Members
BY DEF StoreTypeOK, StoreMember

LEMMA ContinueType ==
    ASSUME MemberWorkerTypeOK, mc.pc # "idle", NEW pc \in MemberSteps, NEW obj \in Member,
           Continue(pc, obj), mq' = mq
    PROVE  MemberWorkerTypeOK'
BY DEF MemberWorkerTypeOK, Continue, MemberWorker

LEMMA ReturnType ==
    ASSUME MemberWorkerTypeOK, mc.pc # "idle", NEW obj \in Member,
           NEW result \in {"done", "requeue"}, Return(result, obj), mq' = mq
    PROVE  MemberWorkerTypeOK'
BY DEF MemberWorkerTypeOK, Return, MemberWorker, MemberSteps

LEMMA RecreatedTypes ==
    ASSUME NEW obj \in Member
    PROVE  Recreated(obj) \in Member /\ Mended(obj) \in Member
<1>1. 0 \in Times
    BY BoundAssumption DEF Times
<1>2. Recreated(obj) \in Member
    BY <1>1 DEF Recreated, Member, MemberStatus, MemberPhases
<1>3. Mended(obj) \in Member
  <2>1. ASSUME NEW b \in BOOLEAN PROVE [obj EXCEPT !.spec.broken = b] \in Member
      BY DEF Member, MemberSpec
  <2> QED
      BY <2>1 DEF Mended
<1> QED
    BY <1>2, <1>3

LEMMA CheckedType ==
    ASSUME NEW obj \in Member, NEW m \in Members PROVE Checked(obj, m) \in Member
<1>1. CertificateExpires(m) \in BOOLEAN
    BY DEF CertificateExpires
<1>2. ASSUME NEW e \in BOOLEAN
      PROVE  [obj EXCEPT !.status.certificateExpires = e] \in Member
    BY DEF Member, MemberStatus
<1> QED
    BY <1>1, <1>2 DEF Checked

LEMMA PodObservedTypes ==
    ASSUME NEW obj \in Member, NEW pod, now \in Times
    PROVE  PodCreated(obj) \in Member /\ PodObserved(obj, pod) \in Member
<1>1. SetFailed(obj) \in Member
    BY SetFailedType
<1>2. PodCreated(obj) \in Member
    BY <1>1 DEF PodCreated
<1>3. [obj EXCEPT !.status.phase = "Running", !.status.version = obj.spec.version] \in Member
    BY DEF Member, MemberStatus, MemberSpec, MemberPhases
<1> QED
    BY <1>1, <1>2, <1>3 DEF PodObserved

LEMMA Held ==
    ASSUME MemberWorkerTypeOK, mc.pc # "idle"
    PROVE  mc.m \in Members /\ mc.obj \in Member
BY DEF MemberWorkerTypeOK, MemberWorker

LEMMA DeletePodType ==
    ASSUME OwnedTypeOK, NEW m \in Members, DeletePod(m)
    PROVE  pods' \in [Members -> Pod]
<1>1. ASSUME NEW b \in BOOLEAN, NEW pod \in Pod
      PROVE  [pod EXCEPT !.terminating = b] \in Pod
    BY DEF Pod
<1>2. [pods[m] EXCEPT !.terminating = TRUE] \in Pod
    BY <1>1 DEF OwnedTypeOK
<1> QED
    BY <1>2 DEF DeletePod, OwnedTypeOK

LEMMA NextCallTypes ==
    ASSUME NEW obj \in Member
    PROVE  AfterCertificates(obj) \in MemberSteps /\ AfterPVC(obj) \in MemberSteps
BY DEF AfterCertificates, AfterPVC, MemberSteps

LEMMA FaultType ==
    ASSUME BoundsOK, Fault PROVE used' \in Budgets
BY BoundAssumption DEF BoundsOK, Fault, Budgets

\* What the steps of the member controller have in common.
LEMMA MemberFrame ==
    ASSUME TypeOK, objectsUnchanged, UNCHANGED <<infra, now>>,
           members' \in [Members -> Member], mlag' \subseteq Members,
           pods' \in [Members -> Pod],
           pvcs' \in [Members -> {"none", "empty", "data", "terminating"}],
           certs' \in [Members -> {"none", "pending", "issued"}],
           etcd' \in [Members -> {"none", "started", "removed", "added"}],
           MemberWorkerTypeOK', used' \in Budgets
    PROVE  TypeOK'
<1>1. StoreTypeOK'
    BY DEF TypeOK, StoreTypeOK, objectsUnchanged
<1>2. OwnedTypeOK'
    BY DEF TypeOK, OwnedTypeOK, objectsUnchanged
<1>3. ClusterWorkerTypeOK'
    BY DEF TypeOK, ClusterWorkerTypeOK, objectsUnchanged
<1>4. BoundsOK'
    BY DEF TypeOK, BoundsOK
<1> QED
    BY <1>1, <1>2, <1>3, <1>4 DEF TypeOK

LEMMA GetMemberType ==
    ASSUME TypeOK, NEW m \in Members, GetMember(m) PROVE MemberWorkerTypeOK'
<1> DEFINE new == [pc     |-> IF mcache[m].spec.broken THEN "deletePod" ELSE "certificates",
                   m      |-> m, obj |-> mcache[m], fresh |-> m \notin mlag,
                   result |-> "done"]
<1>1. new \in MemberWorker
    BY DEF TypeOK, StoreTypeOK, MemberWorker, MemberSteps, Members
<1>2. mc' = mc \/ mc' = new
    BY DEF GetMember
<1>3. mq' \subseteq Members
    BY DEF GetMember, TypeOK, MemberWorkerTypeOK
<1> QED
    BY <1>1, <1>2, <1>3 DEF TypeOK, MemberWorkerTypeOK

LEMMA FinishMemberType ==
    ASSUME MemberWorkerTypeOK, mc.pc # "idle", FinishMember PROVE MemberWorkerTypeOK'
<1>1. mc' \in MemberWorker /\ mc'.pc = "idle"
    BY IdleTypes DEF FinishMember, IdleMemberWorker
<1>2. mq' \subseteq Members
    BY Held DEF FinishMember, MemberWorkerTypeOK
<1> QED
    BY <1>1, <1>2 DEF MemberWorkerTypeOK

LEMMA MemberReconcileType == TypeOK /\ MemberReconcile => TypeOK'
<1> SUFFICES ASSUME TypeOK, MemberReconcile PROVE TypeOK'
    OBVIOUS
<1> USE DEF TypeOK
<1>0. used \in Budgets /\ now \in Times
    BY DEF BoundsOK
<1>h. ASSUME mc.pc # "idle" PROVE mc.m \in Members /\ mc.obj \in Member
    BY <1>h, Held
<1>s. "deletePVC" \in MemberSteps /\ "memberRemove" \in MemberSteps /\ "memberAdd" \in MemberSteps
      /\ "repairStatus" \in MemberSteps /\ "repairSpec" \in MemberSteps
      /\ "certificates" \in MemberSteps /\ "pod" \in MemberSteps
    BY DEF MemberSteps
<1>1. ASSUME NEW m \in Members, GetMember(m) PROVE TypeOK'
  <2>1. MemberWorkerTypeOK'
      BY <1>1, GetMemberType
  <2> QED
      BY <1>0, <1>1, <2>1, MemberFrame DEF GetMember, StoreTypeOK, OwnedTypeOK
<1>2. ASSUME RepairDeletePod PROVE TypeOK'
  <2>1. mc.m \in Members /\ mc.obj \in Member
      BY <1>2, <1>h DEF RepairDeletePod
  <2>2. MemberWorkerTypeOK'
      BY <1>2, <1>s, <2>1, ContinueType, ReturnType DEF RepairDeletePod
  <2>3. pods' \in [Members -> Pod]
      BY <1>2, <2>1, DeletePodType DEF RepairDeletePod, OwnedTypeOK
  <2> QED
      BY <1>0, <1>2, <2>2, <2>3, MemberFrame DEF RepairDeletePod, StoreTypeOK, OwnedTypeOK
<1>3. ASSUME RepairDeletePVC PROVE TypeOK'
  <2>1. mc.m \in Members /\ mc.obj \in Member
      BY <1>3, <1>h DEF RepairDeletePVC
  <2>2. MemberWorkerTypeOK'
      BY <1>3, <1>s, <2>1, ContinueType, ReturnType DEF RepairDeletePVC
  <2> QED
      BY <1>0, <1>3, <2>2, MemberFrame DEF RepairDeletePVC, StoreTypeOK, OwnedTypeOK
<1>4. ASSUME ReaddRemove PROVE TypeOK'
  <2>1. mc.m \in Members /\ mc.obj \in Member
      BY <1>4, <1>h DEF ReaddRemove
  <2>2. MemberWorkerTypeOK'
      BY <1>4, <1>s, <2>1, ContinueType, ReturnType DEF ReaddRemove
  <2> QED
      BY <1>0, <1>4, <2>2, MemberFrame DEF ReaddRemove, StoreTypeOK, OwnedTypeOK
<1>5. ASSUME ReaddAdd PROVE TypeOK'
  <2>1. mc.m \in Members /\ mc.obj \in Member
      BY <1>5, <1>h DEF ReaddAdd
  <2>2. MemberWorkerTypeOK'
      BY <1>5, <1>s, <2>1, ContinueType, ReturnType DEF ReaddAdd
  <2> QED
      BY <1>0, <1>5, <2>2, MemberFrame DEF ReaddAdd, StoreTypeOK, OwnedTypeOK
<1>6. ASSUME ReaddAddReplyLost PROVE TypeOK'
  <2>1. mc.m \in Members /\ mc.obj \in Member
      BY <1>6, <1>h DEF ReaddAddReplyLost
  <2>2. MemberWorkerTypeOK'
      BY <1>6, <2>1, ReturnType DEF ReaddAddReplyLost
  <2>3. used' \in Budgets
      BY <1>6, FaultType DEF ReaddAddReplyLost
  <2> QED
      BY <1>0, <1>6, <2>2, <2>3, MemberFrame DEF ReaddAddReplyLost, StoreTypeOK, OwnedTypeOK
<1>7. ASSUME RepairStatus PROVE TypeOK'
  <2> DEFINE obj == Recreated(mc.obj)
             new == [members[mc.m] EXCEPT !.status = obj.status]
  <2>1. mc.m \in Members /\ mc.obj \in Member
      BY <1>7, <1>h DEF RepairStatus
  <2>2. obj \in Member
      BY <2>1, RecreatedTypes
  <2>3. new \in Member
      BY <2>1, <2>2 DEF StoreTypeOK, Member
  <2> HIDE DEF obj, new
  <2>4. \/ StoreMember(mc.m, new) /\ Continue("repairSpec", new)
        \/ UNCHANGED <<members, mlag>> /\ Continue("repairSpec", obj)
      BY <1>7 DEF RepairStatus, obj, new
  <2>5. MemberWorkerTypeOK'
      BY <1>7, <1>s, <2>2, <2>3, <2>4, ContinueType DEF RepairStatus
  <2>6. members' \in [Members -> Member] /\ mlag' \subseteq Members
      BY <2>1, <2>3, <2>4, StoreMemberType DEF StoreTypeOK
  <2> QED
      BY <1>0, <1>7, <2>5, <2>6, MemberFrame DEF RepairStatus, OwnedTypeOK
<1>8. ASSUME RepairStatusFails PROVE TypeOK'
  <2>1. mc.m \in Members /\ mc.obj \in Member
      BY <1>8, <1>h DEF RepairStatusFails
  <2>2. MemberWorkerTypeOK'
      BY <1>8, <1>s, <2>1, RecreatedTypes, ContinueType DEF RepairStatusFails
  <2>3. used' \in Budgets
      BY <1>8, FaultType DEF RepairStatusFails
  <2> QED
      BY <1>0, <1>8, <2>2, <2>3, MemberFrame DEF RepairStatusFails, StoreTypeOK, OwnedTypeOK
<1>9. ASSUME RepairSpec PROVE TypeOK'
  <2> DEFINE obj == Mended(mc.obj)
             new == [members[mc.m] EXCEPT !.spec = obj.spec]
  <2>1. mc.m \in Members /\ mc.obj \in Member
      BY <1>9, <1>h DEF RepairSpec
  <2>2. obj \in Member
      BY <2>1, RecreatedTypes
  <2>3. new \in Member
      BY <2>1, <2>2 DEF StoreTypeOK, Member
  <2> HIDE DEF obj, new
  <2>4. \/ StoreMember(mc.m, new) /\ Continue("certificates", new)
        \/ UNCHANGED <<members, mlag>> /\ Continue("certificates", obj)
      BY <1>9 DEF RepairSpec, obj, new
  <2>5. MemberWorkerTypeOK'
      BY <1>9, <1>s, <2>2, <2>3, <2>4, ContinueType DEF RepairSpec
  <2>6. members' \in [Members -> Member] /\ mlag' \subseteq Members
      BY <2>1, <2>3, <2>4, StoreMemberType DEF StoreTypeOK
  <2> QED
      BY <1>0, <1>9, <2>5, <2>6, MemberFrame DEF RepairSpec, OwnedTypeOK
<1>10. ASSUME RepairSpecFails PROVE TypeOK'
  <2>1. mc.m \in Members /\ mc.obj \in Member
      BY <1>10, <1>h DEF RepairSpecFails
  <2>2. MemberWorkerTypeOK'
      BY <1>10, <1>s, <2>1, RecreatedTypes, ContinueType DEF RepairSpecFails
  <2>3. used' \in Budgets
      BY <1>10, FaultType DEF RepairSpecFails
  <2> QED
      BY <1>0, <1>10, <2>2, <2>3, MemberFrame DEF RepairSpecFails, StoreTypeOK, OwnedTypeOK
<1>11. ASSUME Certificates PROVE TypeOK'
  <2>1. mc.m \in Members /\ mc.obj \in Member
      BY <1>11, <1>h DEF Certificates
  <2>2. Checked(mc.obj, mc.m) \in Member
      BY <2>1, CheckedType
  <2>3. MemberWorkerTypeOK'
      BY <1>11, <2>1, <2>2, NextCallTypes, ContinueType, ReturnType DEF Certificates
  <2> QED
      BY <1>0, <1>11, <2>3, MemberFrame DEF Certificates, StoreTypeOK, OwnedTypeOK
<1>12. ASSUME EnsurePVC PROVE TypeOK'
  <2>1. mc.m \in Members /\ mc.obj \in Member
      BY <1>12, <1>h DEF EnsurePVC
  <2>2. MemberWorkerTypeOK'
      BY <1>12, <2>1, NextCallTypes, ContinueType, ReturnType DEF EnsurePVC
  <2> QED
      BY <1>0, <1>12, <2>2, MemberFrame DEF EnsurePVC, StoreTypeOK, OwnedTypeOK
<1>13. ASSUME UpdatePod PROVE TypeOK'
  <2>1. mc.m \in Members /\ mc.obj \in Member
      BY <1>13, <1>h DEF UpdatePod
  <2>2. [mc.obj EXCEPT !.status.phase = "Updating"] \in Member
      BY <2>1 DEF Member, MemberStatus, MemberPhases
  <2>3. MemberWorkerTypeOK'
      BY <1>13, <1>s, <2>1, <2>2, ContinueType, ReturnType DEF UpdatePod
  <2>4. pods' \in [Members -> Pod]
      BY <1>13, <2>1, DeletePodType DEF UpdatePod, OwnedTypeOK
  <2> QED
      BY <1>0, <1>13, <2>3, <2>4, MemberFrame DEF UpdatePod, StoreTypeOK, OwnedTypeOK
<1>14. ASSUME EnsurePod PROVE TypeOK'
  <2>1. mc.m \in Members /\ mc.obj \in Member
      BY <1>14, <1>h DEF EnsurePod
  <2>2. PodCreated(mc.obj) \in Member /\ PodObserved(mc.obj, pcache[mc.m]) \in Member
      BY <1>0, <2>1, PodObservedTypes
  <2>3. MemberWorkerTypeOK'
      BY <1>14, <2>1, <2>2, ReturnType DEF EnsurePod
  <2>4. pods' \in [Members -> Pod]
      BY <1>14, <2>1, GetPodType DEF EnsurePod, OwnedTypeOK, TypeOK, StoreTypeOK
  <2> QED
      BY <1>0, <1>14, <2>3, <2>4, MemberFrame DEF EnsurePod, StoreTypeOK, OwnedTypeOK
<1>15. ASSUME MemberCallFails PROVE TypeOK'
  <2>1. mc.m \in Members /\ mc.obj \in Member
      BY <1>15, <1>h DEF MemberCallFails
  <2>2. MemberWorkerTypeOK'
      BY <1>15, <2>1, ReturnType DEF MemberCallFails
  <2>3. used' \in Budgets
      BY <1>15, FaultType DEF MemberCallFails
  <2> QED
      BY <1>0, <1>15, <2>2, <2>3, MemberFrame DEF MemberCallFails, StoreTypeOK, OwnedTypeOK
<1>16. ASSUME MemberStatusUpdate PROVE TypeOK'
  <2> DEFINE new == [members[mc.m] EXCEPT !.status = mc.obj.status]
  <2>1. mc.m \in Members /\ mc.obj \in Member
      BY <1>16, <1>h DEF MemberStatusUpdate
  <2>2. new \in Member
      BY <2>1 DEF StoreTypeOK, Member
  <2> HIDE DEF new
  <2>3. StoreMember(mc.m, new) \/ UNCHANGED <<members, mlag>>
      BY <1>16 DEF MemberStatusUpdate, new
  <2>4. members' \in [Members -> Member] /\ mlag' \subseteq Members
      BY <2>1, <2>2, <2>3, StoreMemberType DEF StoreTypeOK
  <2>5. MemberWorkerTypeOK'
      BY <1>16, FinishMemberType DEF MemberStatusUpdate
  <2> QED
      BY <1>0, <1>16, <2>4, <2>5, MemberFrame DEF MemberStatusUpdate, OwnedTypeOK
<1>17. ASSUME MemberStatusUpdateFails PROVE TypeOK'
  <2>1. MemberWorkerTypeOK'
      BY <1>17, FinishMemberType DEF MemberStatusUpdateFails
  <2>2. used' \in Budgets
      BY <1>17, FaultType DEF MemberStatusUpdateFails
  <2> QED
      BY <1>0, <1>17, <2>1, <2>2, MemberFrame DEF MemberStatusUpdateFails, StoreTypeOK, OwnedTypeOK
<1> QED
    BY <1>1, <1>2, <1>3, <1>4, <1>5, <1>6, <1>7, <1>8, <1>9, <1>10, <1>11, <1>12, <1>13,
       <1>14, <1>15, <1>16, <1>17
       DEF MemberReconcile, MemberWorkerStep, MemberWorkerFault

-----------------------------------------------------------------------------
(* ... of the cluster worker as well. *)

LEMMA HeldCluster ==
    ASSUME ClusterWorkerTypeOK, cc.pc \notin {"idle", "panicked"}
    PROVE  cc.obj \in Cluster
BY DEF ClusterWorkerTypeOK

LEMMA ContinueClusterType ==
    ASSUME ClusterWorkerTypeOK, cq' = cq, NEW obj \in Cluster,
           NEW pc \in {"members", "repair", "update"}, pc = "update" => 0 \in Members,
           ContinueCluster(pc, obj)
    PROVE  ClusterWorkerTypeOK'
BY DEF ClusterWorkerTypeOK, ContinueCluster, ClusterWorker, ClusterSteps

LEMMA ReturnClusterType ==
    ASSUME ClusterWorkerTypeOK, cq' = cq, NEW obj \in Cluster, NEW result \in Results,
           ReturnCluster(result, obj)
    PROVE  ClusterWorkerTypeOK'
BY DEF ClusterWorkerTypeOK, ReturnCluster, ClusterWorker, ClusterSteps

LEMMA ClusterObjectTypes ==
    ASSUME NEW obj \in Cluster
    PROVE  RecordVersion(obj) \in Cluster /\ Updating(obj) \in Cluster /\ Updated(obj) \in Cluster
<1>1. ASSUME NEW o \in Cluster PROVE RecordVersion(o) \in Cluster
    BY DEF RecordVersion, Cluster, ClusterSpec, ClusterStatus
<1>2. ASSUME NEW phase \in ClusterPhases
      PROVE  [obj EXCEPT !.status.phase = phase] \in Cluster
    BY DEF Cluster, ClusterStatus
<1>3. ASSUME NEW o \in Cluster, NEW b \in BOOLEAN
      PROVE  [o EXCEPT !.status.certificateExpires = b] \in Cluster
    BY DEF Cluster, ClusterStatus
<1>4. "Updating" \in ClusterPhases /\ "Running" \in ClusterPhases
    BY DEF ClusterPhases
<1>5. [obj EXCEPT !.status.phase = "Running", !.status.certificateExpires = FALSE] \in Cluster
  <2>1. [[obj EXCEPT !.status.phase = "Running"] EXCEPT !.status.certificateExpires = FALSE] \in Cluster
      BY <1>2, <1>3, <1>4
  <2> QED
      BY <2>1
<1> QED
    BY <1>1, <1>2, <1>4, <1>5 DEF Updating, Updated

LEMMA AssessedType ==
    ASSUME TypeOK, cc.obj \in Cluster PROVE Assessed \in Cluster
<1> DEFINE phase == ClusterPhase(Cardinality(FailedMembers), Cardinality(CreatingMembers))
           expires == \E i \in Members :
               Seen(i).status.certificateExpires \/ Seen(i).spec.certificateUpdate
<1>1. phase \in ClusterPhases
    BY DEF ClusterPhase, ClusterPhases
<1>2. expires \in BOOLEAN
    OBVIOUS
<1>3. ASSUME NEW p \in ClusterPhases, NEW b \in BOOLEAN
      PROVE  [cc.obj EXCEPT !.status.phase = p, !.status.certificateExpires = b] \in Cluster
    BY DEF Cluster, ClusterStatus
<1> HIDE DEF phase, expires
<1>4. Assessed = [cc.obj EXCEPT !.status.phase = phase, !.status.certificateExpires = expires]
    BY DEF Assessed, phase, expires
<1> QED
    BY <1>1, <1>2, <1>3, <1>4

LEMMA CreateMembersType ==
    ASSUME StoreTypeOK, cc.obj \in Cluster, NEW created, created \subseteq Members,
           CreateMembers(created)
    PROVE  members' \in [Members -> Member] /\ mlag' \subseteq Members
BY TemplateType DEF StoreTypeOK, CreateMembers

LEMMA UpdateMemberType ==
    ASSUME StoreTypeOK, MemberWorkerTypeOK, NEW i \in Members, NEW value \in Member,
           UpdateMember(i, value), mq' = mq
    PROVE  members' \in [Members -> Member] /\ mlag' \subseteq Members /\ MemberWorkerTypeOK'
<1>1. members' \in [Members -> Member] /\ mlag' \subseteq Members
    BY StoreMemberType DEF UpdateMember
<1>2. mc' = mc \/ mc' = [mc EXCEPT !.fresh = FALSE]
    BY DEF UpdateMember
<1>3. mc' \in MemberWorker /\ mc'.pc = mc.pc /\ mc'.m = mc.m
    BY <1>2 DEF MemberWorkerTypeOK, MemberWorker
<1> QED
    BY <1>1, <1>3 DEF MemberWorkerTypeOK

LEMMA BrokenTypes ==
    ASSUME NEW member \in Member, cc.obj \in Cluster
    PROVE  Broken(member) \in Member /\ WithVersion(member) \in Member
           /\ WithCertificateUpdate(member) \in Member
<1>1. ASSUME NEW b \in BOOLEAN
      PROVE  [member EXCEPT !.spec.broken = b] \in Member
             /\ [member EXCEPT !.spec.certificateUpdate = b] \in Member
    BY DEF Member, MemberSpec
<1>2. member.status.certificateExpires \in BOOLEAN
    BY DEF Member, MemberStatus
<1>3. WithVersion(member) \in Member
    BY DEF WithVersion, Member, MemberSpec, Cluster, ClusterSpec
<1> QED
    BY <1>1, <1>2, <1>3 DEF Broken, WithCertificateUpdate

\* What the steps of the cluster controller have in common.
LEMMA ClusterFrame ==
    ASSUME TypeOK, ownedUnchanged,
           cluster' \in Cluster, clag' \in BOOLEAN,
           members' \in [Members -> Member], mlag' \subseteq Members,
           infra' \subseteq Infra,
           MemberWorkerTypeOK', ClusterWorkerTypeOK', used' \in Budgets
    PROVE  TypeOK'
<1>1. StoreTypeOK'
    BY DEF TypeOK, StoreTypeOK, ownedUnchanged
<1>2. OwnedTypeOK'
    BY DEF TypeOK, OwnedTypeOK, ownedUnchanged
<1>3. BoundsOK'
    BY DEF TypeOK, BoundsOK, ownedUnchanged
<1> QED
    BY <1>1, <1>2, <1>3 DEF TypeOK

LEMMA FinishClusterType ==
    ASSUME ClusterWorkerTypeOK, FinishCluster PROVE ClusterWorkerTypeOK'
<1>1. [IdleClusterWorker EXCEPT !.pc = "panicked"] \in ClusterWorker
    BY IdleTypes DEF ClusterWorker, ClusterSteps
<1>2. cc' \in ClusterWorker /\ cc'.pc \in {"idle", "panicked"}
    BY <1>1, IdleTypes DEF FinishCluster, IdleClusterWorker
<1>3. cq' \in BOOLEAN
    BY DEF FinishCluster, ClusterWorkerTypeOK
<1> QED
    BY <1>2, <1>3 DEF ClusterWorkerTypeOK

LEMMA NextMemberType ==
    ASSUME ClusterWorkerTypeOK, cc.pc = "update", cq' = cq, NextMember
    PROVE  ClusterWorkerTypeOK'
<1>1. cc.obj \in Cluster /\ Updated(cc.obj) \in Cluster
    BY HeldCluster, ClusterObjectTypes
<1>2. CASE ReturnCluster("requeue", cc.obj) \/ ReturnCluster("done", Updated(cc.obj))
    BY <1>1, <1>2, ReturnClusterType DEF Results
<1>3. CASE cc.i + 1 < Size /\ cc' = [cc EXCEPT !.i = @ + 1]
    BY <1>3, SizeAssumption DEF ClusterWorkerTypeOK, ClusterWorker, Members
<1> QED
    BY <1>2, <1>3 DEF NextMember

LEMMA ClusterReconcileType == TypeOK /\ ClusterReconcile => TypeOK'
<1> SUFFICES ASSUME TypeOK, ClusterReconcile PROVE TypeOK'
    OBVIOUS
<1> USE DEF TypeOK
<1>0. /\ used \in Budgets /\ cluster \in Cluster /\ clag \in BOOLEAN
      /\ members \in [Members -> Member] /\ mlag \subseteq Members
      /\ infra \subseteq Infra
    BY DEF BoundsOK, StoreTypeOK, OwnedTypeOK
<1>m. ASSUME mc' = mc, ownedUnchanged PROVE MemberWorkerTypeOK'
    BY <1>m DEF MemberWorkerTypeOK, ownedUnchanged
<1>h. ASSUME cc.pc \notin {"idle", "panicked"}
      PROVE  cc.obj \in Cluster /\ RecordVersion(cc.obj) \in Cluster /\ Updating(cc.obj) \in Cluster
    BY <1>h, HeldCluster, ClusterObjectTypes
<1>1. ASSUME GetCluster PROVE TypeOK'
  <2> DEFINE obj == IF ccache.status.phase = "None"
                    THEN [ccache EXCEPT !.status.phase = "Creating"] ELSE ccache
             new == [pc |-> "infra", obj |-> obj, fresh |-> ~clag, i |-> 0, result |-> "done"]
  <2>1. obj \in Cluster
      BY DEF StoreTypeOK, Cluster, ClusterStatus, ClusterPhases
  <2> HIDE DEF obj
  <2>2. new \in ClusterWorker
      BY <2>1 DEF StoreTypeOK, ClusterWorker, ClusterSteps, Results
  <2>3. cc' = new /\ cq' = FALSE
      BY <1>1 DEF GetCluster, obj
  <2>4. ClusterWorkerTypeOK'
      BY <2>1, <2>2, <2>3 DEF ClusterWorkerTypeOK
  <2> QED
      BY <1>0, <1>1, <1>m, <2>4, ClusterFrame DEF GetCluster, storeUnchanged
<1>2. ASSUME EnsureInfra PROVE TypeOK'
  <2>1. FirstMissing \subseteq Infra /\ "schedule" \in Infra
      BY DEF FirstMissing, Infra
  <2>2. ClusterWorkerTypeOK'
      BY <1>2, <1>h, ContinueClusterType, ReturnClusterType DEF EnsureInfra, Results
  <2> QED
      BY <1>0, <1>2, <1>m, <2>1, <2>2, ClusterFrame DEF EnsureInfra, storeUnchanged
<1>3. ASSUME EnsureMembers PROVE TypeOK'
  <2>1. cc.obj \in Cluster
      BY <1>3, <1>h DEF EnsureMembers
  <2>2. Assessed \in Cluster /\ RecordVersion(Assessed) \in Cluster
      BY <2>1, AssessedType, ClusterObjectTypes
  <2>3. Size > 0 => 0 \in Members
      BY SizeAssumption DEF Members
  <2>4. ClusterWorkerTypeOK'
      BY <1>3, <2>2, <2>3, ContinueClusterType, ReturnClusterType DEF EnsureMembers, Results
  <2>5. members' \in [Members -> Member] /\ mlag' \subseteq Members
      BY <1>3, <2>1, CreateMembersType DEF EnsureMembers, NotCached
  <2> QED
      BY <1>0, <1>3, <1>m, <2>4, <2>5, ClusterFrame DEF EnsureMembers
<1>p. ASSUME NEW n, PanicAt(n), cc.pc = "members", used' \in Budgets PROVE TypeOK'
  <2>1. cc.obj \in Cluster
      BY <1>p, <1>h
  <2>2. ClusterWorkerTypeOK'
      BY <1>p, <2>1, ReturnClusterType DEF PanicAt, Results
  <2>3. members' \in [Members -> Member] /\ mlag' \subseteq Members
      BY <1>p, <2>1, CreateMembersType DEF PanicAt, NotCached
  <2> QED
      BY <1>0, <1>p, <1>m, <2>2, <2>3, ClusterFrame DEF PanicAt
<1>4. ASSUME EnsureMembersAlreadyExists PROVE TypeOK'
    BY <1>0, <1>4, <1>p DEF EnsureMembersAlreadyExists
<1>5. ASSUME EnsureMembersCallFails PROVE TypeOK'
    BY <1>5, <1>p, FaultType DEF EnsureMembersCallFails
<1>6. ASSUME RepairWaits PROVE TypeOK'
  <2>1. ClusterWorkerTypeOK'
      BY <1>6, <1>h, ReturnClusterType DEF RepairWaits, Results
  <2> QED
      BY <1>0, <1>6, <1>m, <2>1, ClusterFrame DEF RepairWaits, storeUnchanged
<1>7. ASSUME RepairDeclined PROVE TypeOK'
  <2>1. ClusterWorkerTypeOK'
      BY <1>7, <1>h, ReturnClusterType DEF RepairDeclined, Results
  <2> QED
      BY <1>0, <1>7, <1>m, <2>1, ClusterFrame DEF RepairDeclined, storeUnchanged
<1>8. ASSUME NEW i \in Members, RepairMember(i) PROVE TypeOK'
  <2>1. Broken(mcache[i]) \in Member
      BY <1>8, <1>h, BrokenTypes DEF RepairMember, StoreTypeOK
  <2>2. ClusterWorkerTypeOK'
      BY <1>8, <1>h, ReturnClusterType DEF RepairMember, Results
  <2>3. CASE UpdateMember(i, Broken(mcache[i]))
    <3>1. members' \in [Members -> Member] /\ mlag' \subseteq Members /\ MemberWorkerTypeOK'
        BY <1>8, <2>1, <2>3, UpdateMemberType DEF RepairMember, ownedUnchanged
    <3> QED
        BY <1>0, <1>8, <2>2, <3>1, ClusterFrame DEF RepairMember
  <2>4. CASE UNCHANGED <<members, mlag, mc>>
      BY <1>0, <1>8, <1>m, <2>2, <2>4, ClusterFrame DEF RepairMember
  <2> QED
      BY <1>8, <2>3, <2>4 DEF RepairMember
<1>9. ASSUME UpdateMemberWaits PROVE TypeOK'
  <2>1. ClusterWorkerTypeOK'
      BY <1>9, <1>h, ReturnClusterType DEF UpdateMemberWaits, Results
  <2> QED
      BY <1>0, <1>9, <1>m, <2>1, ClusterFrame DEF UpdateMemberWaits, storeUnchanged
<1>u. ASSUME cc.pc = "update"
      PROVE  cc.i \in Members /\ WithVersion(Current) \in Member
             /\ WithCertificateUpdate(Current) \in Member
  <2>1. cc.i \in Members
      BY <1>u DEF ClusterWorkerTypeOK
  <2> QED
      BY <1>u, <1>h, <2>1, BrokenTypes DEF Current, StoreTypeOK
<1>10. ASSUME UpdateMemberVersion PROVE TypeOK'
  <2>1. ClusterWorkerTypeOK'
      BY <1>10, <1>h, ReturnClusterType DEF UpdateMemberVersion, Results
  <2>2. CASE UpdateMember(cc.i, WithVersion(Current))
    <3>1. members' \in [Members -> Member] /\ mlag' \subseteq Members /\ MemberWorkerTypeOK'
        BY <1>10, <1>u, <2>2, UpdateMemberType DEF UpdateMemberVersion, ownedUnchanged
    <3> QED
        BY <1>0, <1>10, <2>1, <3>1, ClusterFrame DEF UpdateMemberVersion
  <2>3. CASE UNCHANGED <<members, mlag, mc>>
      BY <1>0, <1>10, <1>m, <2>1, <2>3, ClusterFrame DEF UpdateMemberVersion
  <2> QED
      BY <1>10, <2>2, <2>3 DEF UpdateMemberVersion
<1>11. ASSUME UpdateMemberCertificate PROVE TypeOK'
  <2>1. ClusterWorkerTypeOK'
      BY <1>11, <1>h, ReturnClusterType, NextMemberType DEF UpdateMemberCertificate, Results
  <2>2. CASE UpdateMember(cc.i, WithCertificateUpdate(Current))
    <3>1. members' \in [Members -> Member] /\ mlag' \subseteq Members /\ MemberWorkerTypeOK'
        BY <1>11, <1>u, <2>2, UpdateMemberType DEF UpdateMemberCertificate, ownedUnchanged
    <3> QED
        BY <1>0, <1>11, <2>1, <3>1, ClusterFrame DEF UpdateMemberCertificate
  <2>3. CASE UNCHANGED <<members, mlag, mc>>
      BY <1>0, <1>11, <1>m, <2>1, <2>3, ClusterFrame DEF UpdateMemberCertificate
  <2> QED
      BY <1>11, <2>2, <2>3 DEF UpdateMemberCertificate
<1>12. ASSUME UpdateMemberDone PROVE TypeOK'
  <2>1. ClusterWorkerTypeOK'
      BY <1>12, NextMemberType DEF UpdateMemberDone
  <2> QED
      BY <1>0, <1>12, <1>m, <2>1, ClusterFrame DEF UpdateMemberDone, storeUnchanged
<1>13. ASSUME ClusterCallFails PROVE TypeOK'
  <2>1. used' \in Budgets
      BY <1>13, FaultType DEF ClusterCallFails
  <2>2. ClusterWorkerTypeOK'
      BY <1>13, <1>h, ReturnClusterType DEF ClusterCallFails, Results
  <2> QED
      BY <1>0, <1>13, <1>m, <2>1, <2>2, ClusterFrame DEF ClusterCallFails, storeUnchanged
<1>14. ASSUME ClusterStatusUpdate PROVE TypeOK'
  <2>1. cc.obj \in Cluster
      BY <1>14, <1>h DEF ClusterStatusUpdate
  <2>2. [cluster EXCEPT !.status = cc.obj.status] \in Cluster
      BY <1>0, <2>1 DEF Cluster
  <2>3. cluster' \in Cluster /\ clag' \in BOOLEAN
      BY <1>0, <1>14, <2>2 DEF ClusterStatusUpdate, StoreCluster
  <2>4. ClusterWorkerTypeOK'
      BY <1>14, FinishClusterType DEF ClusterStatusUpdate
  <2> QED
      BY <1>0, <1>14, <1>m, <2>3, <2>4, ClusterFrame DEF ClusterStatusUpdate
<1>15. ASSUME ClusterStatusUpdateFails PROVE TypeOK'
  <2>1. used' \in Budgets
      BY <1>15, FaultType DEF ClusterStatusUpdateFails
  <2>2. ClusterWorkerTypeOK'
      BY <1>15, FinishClusterType DEF ClusterStatusUpdateFails
  <2> QED
      BY <1>0, <1>15, <1>m, <2>1, <2>2, ClusterFrame DEF ClusterStatusUpdateFails, storeUnchanged
<1> QED
    BY <1>1, <1>2, <1>3, <1>4, <1>5, <1>6, <1>7, <1>8, <1>9, <1>10, <1>11, <1>12, <1>13,
       <1>14, <1>15
       DEF ClusterReconcile, ClusterWorkerStep, ClusterWorkerFault

-----------------------------------------------------------------------------
(* ... and of the environment. *)

LEMMA SyncType == TypeOK /\ Sync => TypeOK'
<1> SUFFICES ASSUME TypeOK, Sync PROVE TypeOK'
    OBVIOUS
<1> USE DEF TypeOK, BoundsOK
<1>1. CASE SyncCluster
    BY <1>1 DEF SyncCluster, workersUnchanged, StoreTypeOK, OwnedTypeOK, MemberWorkerTypeOK,
        ClusterWorkerTypeOK
<1>2. CASE SyncMembers
    BY <1>2 DEF SyncMembers, workersUnchanged, StoreTypeOK, OwnedTypeOK, MemberWorkerTypeOK,
        ClusterWorkerTypeOK
<1>3. CASE SyncPods
  <2>1. mq' \subseteq Members
      BY <1>3 DEF SyncPods, MemberWorkerTypeOK
  <2> QED
      BY <1>3, <2>1 DEF SyncPods, workersUnchanged, StoreTypeOK, OwnedTypeOK,
          MemberWorkerTypeOK, ClusterWorkerTypeOK
<1> QED
    BY <1>1, <1>2, <1>3 DEF Sync

LEMMA RestartType ==
    ASSUME TypeOK, RestartManager, used' \in Budgets PROVE TypeOK'
<1> USE DEF TypeOK
<1>1. StoreTypeOK'
    BY DEF RestartManager, StoreTypeOK
<1>2. OwnedTypeOK'
    BY DEF RestartManager, OwnedTypeOK
<1>3. MemberWorkerTypeOK'
    BY IdleTypes DEF RestartManager, MemberWorkerTypeOK, IdleMemberWorker
<1>4. ClusterWorkerTypeOK'
    BY IdleTypes DEF RestartManager, ClusterWorkerTypeOK, IdleClusterWorker
<1>5. BoundsOK'
    BY DEF RestartManager, BoundsOK
<1> QED
    BY <1>1, <1>2, <1>3, <1>4, <1>5

LEMMA ChangeVersionType == TypeOK /\ ChangeVersion => TypeOK'
<1> SUFFICES ASSUME TypeOK, ChangeVersion PROVE TypeOK'
    OBVIOUS
<1> USE DEF TypeOK
<1>1. PICK v \in Versions : StoreCluster([cluster EXCEPT !.spec.version = v])
    BY DEF ChangeVersion
<1>2. [cluster EXCEPT !.spec.version = v] \in Cluster
    BY DEF StoreTypeOK, Cluster, ClusterSpec
<1>3. StoreTypeOK'
    BY <1>1, <1>2 DEF ChangeVersion, StoreCluster, StoreTypeOK
<1>4. OwnedTypeOK' /\ MemberWorkerTypeOK'
    BY DEF ChangeVersion, OwnedTypeOK, MemberWorkerTypeOK
<1>5. ClusterWorkerTypeOK'
  <2>1. cc' = cc \/ cc' = [cc EXCEPT !.fresh = FALSE]
      BY DEF ChangeVersion
  <2>2. cc' \in ClusterWorker /\ cc'.pc = cc.pc /\ cc'.obj = cc.obj /\ cc'.i = cc.i
      BY <2>1 DEF ClusterWorkerTypeOK, ClusterWorker
  <2> QED
      BY <2>2 DEF ChangeVersion, ClusterWorkerTypeOK
<1>6. BoundsOK'
    BY BoundAssumption DEF ChangeVersion, BoundsOK, Budgets
<1> QED
    BY <1>3, <1>4, <1>5, <1>6

\* What the steps of the kubelet, of etcd and of cert-manager have in common.
LEMMA OutsideFrame ==
    ASSUME TypeOK,
           UNCHANGED <<cluster, ccache, clag, members, mcache, mlag, infra, now, cq, cc, mc>>,
           pods' \in [Members -> Pod], pcache' \in [Members -> Pod],
           pvcs' \in [Members -> {"none", "empty", "data", "terminating"}],
           certs' \in [Members -> {"none", "pending", "issued"}],
           etcd' \in [Members -> {"none", "started", "removed", "added"}],
           mq' \subseteq Members, used' \in Budgets
    PROVE  TypeOK'
BY DEF TypeOK, StoreTypeOK, OwnedTypeOK, MemberWorkerTypeOK, ClusterWorkerTypeOK, BoundsOK

LEMMA PodFieldTypes ==
    ASSUME NEW pod \in Pod
    PROVE  /\ \A b \in BOOLEAN : [pod EXCEPT !.terminating = b] \in Pod
           /\ \A state \in {"none", "starting", "ready", "unready"} :
                 [pod EXCEPT !.state = state] \in Pod
           /\ \A suffix \in Suffixes : Outdated(pod, suffix) \in Pod
<1>1. \A b \in BOOLEAN : [pod EXCEPT !.terminating = b] \in Pod
    BY DEF Pod
<1>2. \A state \in {"none", "starting", "ready", "unready"} : [pod EXCEPT !.state = state] \in Pod
    BY DEF Pod
<1>3. \A suffix \in Suffixes : Outdated(pod, suffix) \in Pod
    BY DEF Outdated, Pod
<1> QED
    BY <1>1, <1>2, <1>3

LEMMA KubeletType ==
    ASSUME TypeOK, NEW m \in Members, KubeletStep(m) \/ Mishap(m) PROVE TypeOK'
<1> USE DEF TypeOK
<1>0. /\ pods \in [Members -> Pod] /\ pcache \in [Members -> Pod]
      /\ pods[m] \in Pod /\ pcache[m] \in Pod
      /\ pvcs \in [Members -> {"none", "empty", "data", "terminating"}]
      /\ certs \in [Members -> {"none", "pending", "issued"}]
      /\ etcd \in [Members -> {"none", "started", "removed", "added"}]
      /\ mq \subseteq Members /\ used \in Budgets
    BY DEF OwnedTypeOK, MemberWorkerTypeOK, BoundsOK
<1>1. ASSUME Serve(m) PROVE TypeOK'
  <2>1. pods' \in [Members -> Pod]
      BY <1>0, <1>1, PodFieldTypes DEF Serve
  <2> QED
      BY <1>0, <1>1, <2>1, OutsideFrame DEF Serve, podUnchanged
<1>2. ASSUME PodFails(m) PROVE TypeOK'
  <2>1. pods' \in [Members -> Pod]
      BY <1>0, <1>2, PodFieldTypes DEF PodFails
  <2>2. used' \in Budgets
      BY <1>0, <1>2, BoundAssumption DEF PodFails, Failure, Budgets
  <2> QED
      BY <1>0, <1>2, <2>1, <2>2, OutsideFrame DEF PodFails, podUnchanged
<1>3. ASSUME PodEvicted(m) PROVE TypeOK'
  <2>1. pods' \in [Members -> Pod]
    <3>1. [pods[m] EXCEPT !.terminating = TRUE] \in Pod
        BY <1>0, PodFieldTypes
    <3> QED
        BY <1>0, <1>3, <3>1 DEF PodEvicted
  <2>2. used' \in Budgets
      BY <1>0, <1>3, BoundAssumption DEF PodEvicted, Failure, Budgets
  <2> QED
      BY <1>0, <1>3, <2>1, <2>2, OutsideFrame DEF PodEvicted, podUnchanged
<1>4. ASSUME PodGone(m) PROVE TypeOK'
  <2>1. pods' \in [Members -> Pod]
      BY <1>0, <1>4, NoPodType DEF PodGone
  <2> QED
      BY <1>0, <1>4, <2>1, OutsideFrame DEF PodGone, podUnchanged
<1>5. ASSUME PvcGone(m) PROVE TypeOK'
    BY <1>0, <1>5, OutsideFrame DEF PvcGone, podUnchanged
<1>6. ASSUME IssueCertificates(m) PROVE TypeOK'
    BY <1>0, <1>6, OutsideFrame DEF IssueCertificates, certUnchanged
<1>7. ASSUME NEW suffix \in Suffixes, RenewCertificate(m, suffix) PROVE TypeOK'
  <2>1. pods' \in [Members -> Pod] /\ pcache' \in [Members -> Pod]
      BY <1>0, <1>7, PodFieldTypes DEF RenewCertificate
  <2>2. used' \in Budgets
      BY <1>0, <1>7, BoundAssumption DEF RenewCertificate, Budgets
  <2> QED
      BY <1>0, <1>7, <2>1, <2>2, OutsideFrame DEF RenewCertificate, certUnchanged
<1> QED
    BY <1>1, <1>2, <1>3, <1>4, <1>5, <1>6, <1>7
       DEF KubeletStep, Mishap, PodReady, PodRecovers

LEMMA EnvironmentType == TypeOK /\ EnvironmentStep => TypeOK'
<1> SUFFICES ASSUME TypeOK, EnvironmentStep PROVE TypeOK'
    OBVIOUS
<1>1. CASE ChangeVersion
    BY <1>1, ChangeVersionType
<1>2. CASE Tick
    BY <1>2, BoundAssumption DEF Tick, workersUnchanged, TypeOK, StoreTypeOK, OwnedTypeOK,
        MemberWorkerTypeOK, ClusterWorkerTypeOK, BoundsOK, Times
<1>3. CASE Crash
  <2>1. used' \in Budgets
      BY <1>3, FaultType DEF Crash, TypeOK
  <2> QED
      BY <1>3, <2>1, RestartType DEF Crash
<1>4. CASE RestartOnPanic
  <2>1. used' \in Budgets
      BY <1>4 DEF RestartOnPanic, TypeOK, BoundsOK
  <2> QED
      BY <1>4, <2>1, RestartType DEF RestartOnPanic
<1>5. CASE \E m \in Members : KubeletStep(m) \/ Mishap(m)
    BY <1>5, KubeletType
<1> QED
    BY <1>1, <1>2, <1>3, <1>4, <1>5 DEF EnvironmentStep

LEMMA StutterType == TypeOK /\ UNCHANGED vars => TypeOK'
BY DEF vars, TypeOK, StoreTypeOK, OwnedTypeOK, MemberWorkerTypeOK, ClusterWorkerTypeOK, BoundsOK

LEMMA TypeInductive == TypeOK /\ [Next]_vars => TypeOK'
BY SyncType, MemberReconcileType, ClusterReconcileType, EnvironmentType, StutterType
   DEF Next, Step

\* Every variable keeps its type, and a worker that holds a key holds an object
\* of this cluster: UpdateMembers never runs off the members
\* (cluster_controller.go:251), for whatever size, versions, bounds and caches.
THEOREM TypeCorrect == Spec => []TypeOK
<1>1. Init => TypeOK
    BY InitType
<1>2. TypeOK /\ [Next]_vars => TypeOK'
    BY TypeInductive
<1> QED
    BY <1>1, <1>2, PTL DEF Spec
=============================================================================
