-------------------------- MODULE MemberController --------------------------
(***************************************************************************)
(* controllers/member_controller.go: the reconciler of Member objects.     *)
(*                                                                         *)
(* One worker takes a key from the queue, reads the member from the cache  *)
(* and runs Reconcile; every call to the API server or to etcd is a step   *)
(* of its own, so that the cluster controller, the kubelet, cert-manager,  *)
(* the informers and the user run between any two of them.  mc.obj is the  *)
(* local variable "member" of Reconcile, mc.fresh says whether the store   *)
(* still has the version it was read from (if not, its updates conflict). *)
(***************************************************************************)
EXTENDS OperatorState

\* The step that follows EnsurePVC, and the one that follows
\* CheckCertificateExpires: EnsurePVC returns at once unless IsCreating.
AfterPVC(obj) == IF MemberShouldUpdate(obj) THEN "updatePod" ELSE "pod"
\* Mutant of AfterCertificates: no claim is made.
AfterCertificatesNoPVC(obj) == AfterPVC(obj)

AfterCertificates(obj) == IF IsCreating(obj) THEN "pvc" ELSE AfterPVC(obj)

Continue(pc, obj) == mc' = [mc EXCEPT !.pc = pc, !.obj = obj]

\* Reconcile returns and its deferred call is next: with Requeue() or an error
\* the key goes back to the queue, with the zero result it does not.
Return(result, obj) == mc' = [mc EXCEPT !.pc = "status", !.obj = obj, !.result = result]

objectsUnchanged == UNCHANGED <<cluster, ccache, clag, mcache, pcache, cc, cq>>

-----------------------------------------------------------------------------
(* Reconcile *)

\* The worker takes a key and reads the member from the cache.
GetMember(m) ==
    /\ mc.pc = "idle" /\ m \in mq
    /\ mq' = mq \ {m}
    /\ IF mcache[m].status.phase = "Absent"
       THEN UNCHANGED mc
       ELSE mc' = [pc     |-> IF mcache[m].spec.broken THEN "deletePod" ELSE "certificates",
                   m      |-> m,
                   obj    |-> mcache[m],
                   fresh  |-> m \notin mlag,
                   result |-> "done"]
    /\ objectsUnchanged
    /\ UNCHANGED <<members, mlag, pods, pvcs, certs, etcd, infra, now, used>>

\* The client's Delete of a pod: it stays until the kubelet has stopped it.
DeletePod(m) == pods' = [pods EXCEPT ![m].terminating = TRUE]

\* Repair, first call: DeletePod requeues until the pod is gone.
RepairDeletePod ==
    /\ mc.pc = "deletePod"
    /\ IF pods[mc.m].state = "none"
       THEN UNCHANGED pods /\ Continue("deletePVC", mc.obj)
       ELSE DeletePod(mc.m) /\ Return("requeue", mc.obj)
    /\ objectsUnchanged
    /\ UNCHANGED <<members, mlag, pvcs, certs, etcd, infra, now, mq, used>>

\* Repair, second call: DeletePVC requeues until the claim is gone.
RepairDeletePVC ==
    /\ mc.pc = "deletePVC"
    /\ IF pvcs[mc.m] = "none"
       THEN UNCHANGED pvcs /\ Continue("memberRemove", mc.obj)
       ELSE pvcs' = [pvcs EXCEPT ![mc.m] = "terminating"] /\ Return("requeue", mc.obj)
    /\ objectsUnchanged
    /\ UNCHANGED <<members, mlag, pods, certs, etcd, infra, now, mq, used>>

\* etcd answers membership calls while a majority of its members is up.
Serving    == {m \in Members : etcd[m] = "started" /\ pods[m].state = "ready"}
EtcdMembers == {m \in Members : etcd[m] # "removed"}
EtcdQuorum == 2 * Cardinality(Serving) > Cardinality(EtcdMembers)

\* ReaddToCluster, MemberList and MemberRemove: the entry with the member's
\* name is removed; an entry that was added but never started has no name.
ReaddRemove ==
    /\ mc.pc = "memberRemove"
    /\ IF ~EtcdQuorum
       THEN UNCHANGED etcd /\ Return("requeue", mc.obj)
       ELSE /\ etcd' = IF etcd[mc.m] = "started" THEN [etcd EXCEPT ![mc.m] = "removed"] ELSE etcd
            /\ Continue("memberAdd", mc.obj)
    /\ objectsUnchanged
    /\ UNCHANGED <<members, mlag, pods, pvcs, certs, infra, now, mq, used>>

\* MemberAdd is refused when the peer URL is still in the list.
MemberAddAccepted == EtcdQuorum /\ etcd[mc.m] = "removed"

\* ReaddToCluster, MemberAdd.
ReaddAdd ==
    /\ mc.pc = "memberAdd"
    /\ IF MemberAddAccepted
       THEN etcd' = [etcd EXCEPT ![mc.m] = "added"] /\ Continue("repairStatus", mc.obj)
       ELSE UNCHANGED etcd /\ Return("requeue", mc.obj)
    /\ objectsUnchanged
    /\ UNCHANGED <<members, mlag, pods, pvcs, certs, infra, now, mq, used>>

\* The reply of MemberAdd is lost: etcd has the member, Repair returns an error.
ReaddAddReplyLost ==
    /\ mc.pc = "memberAdd" /\ MemberAddAccepted /\ Fault
    /\ etcd' = [etcd EXCEPT ![mc.m] = "added"]
    /\ Return("requeue", mc.obj)
    /\ objectsUnchanged
    /\ UNCHANGED <<members, mlag, pods, pvcs, certs, infra, now, mq>>

Recreated(obj) == [obj EXCEPT !.status.phase = "Recreating", !.status.failedTime = 0]

\* Repair's Status().Update; a conflict is swallowed.  The reply of a
\* successful write overwrites the local object.
RepairStatus ==
    /\ mc.pc = "repairStatus"
    /\ LET obj == Recreated(mc.obj)
           new == [members[mc.m] EXCEPT !.status = obj.status]
       IN IF mc.fresh
          THEN StoreMember(mc.m, new) /\ Continue("repairSpec", new)
          ELSE UNCHANGED <<members, mlag>> /\ Continue("repairSpec", obj)
    /\ objectsUnchanged
    /\ UNCHANGED <<pods, pvcs, certs, etcd, infra, now, mq, used>>

\* ... and any other error of that write is swallowed as well.
RepairStatusFails ==
    /\ mc.pc = "repairStatus" /\ Fault
    /\ Continue("repairSpec", Recreated(mc.obj))
    /\ objectsUnchanged
    /\ UNCHANGED <<members, mlag, pods, pvcs, certs, etcd, infra, now, mq>>

Mended(obj) == [obj EXCEPT !.spec.broken = FALSE]

\* Repair's Update of the spec, errors swallowed too.
RepairSpec ==
    /\ mc.pc = "repairSpec"
    /\ LET obj == Mended(mc.obj)
           new == [members[mc.m] EXCEPT !.spec = obj.spec]
       IN IF mc.fresh
          THEN StoreMember(mc.m, new) /\ Continue("certificates", new)
          ELSE UNCHANGED <<members, mlag>> /\ Continue("certificates", obj)
    /\ objectsUnchanged
    /\ UNCHANGED <<pods, pvcs, certs, etcd, infra, now, mq, used>>

RepairSpecFails ==
    /\ mc.pc = "repairSpec" /\ Fault
    /\ Continue("certificates", Mended(mc.obj))
    /\ objectsUnchanged
    /\ UNCHANGED <<members, mlag, pods, pvcs, certs, etcd, infra, now, mq>>

-----------------------------------------------------------------------------

\* CheckCertificateExpires compares each certificate with the cached pod; the
\* loop runs over client, then peer, and each turn overwrites the flag.
\* Mutant: the client certificate is looked at last.
CertificateExpiresClient(m) == "client" \in pcache[m].renewed

CertificateExpires(m) == "peer" \in pcache[m].renewed

\* Mutant of Checked: the flag is never cleared.
CheckedOnce(obj, m) ==
    IF pcache[m].state = "none" \/ ~CertificateExpires(m) THEN obj
    ELSE [obj EXCEPT !.status.certificateExpires = TRUE]

Checked(obj, m) ==
    IF pcache[m].state = "none" THEN obj
    ELSE [obj EXCEPT !.status.certificateExpires = CertificateExpires(m)]

\* EnsureCertificates creates the missing certificates and requeues until all
\* are issued; CheckCertificateExpires follows.
Certificates ==
    /\ mc.pc = "certificates"
    /\ IF certs[mc.m] = "issued"
       THEN /\ UNCHANGED certs
            /\ LET obj == Checked(mc.obj, mc.m) IN Continue(AfterCertificates(obj), obj)
       ELSE /\ certs' = [certs EXCEPT ![mc.m] = "pending"]
            /\ Return("requeue", mc.obj)
    /\ objectsUnchanged
    /\ UNCHANGED <<members, mlag, pods, pvcs, etcd, infra, now, mq, used>>

\* Mutant of EnsurePVC: it does not requeue after the create.
EnsurePVCGoesOn ==
    /\ mc.pc = "pvc"
    /\ pvcs' = [pvcs EXCEPT ![mc.m] = IF @ = "none" THEN "empty" ELSE @]
    /\ Continue(AfterPVC(mc.obj), mc.obj)
    /\ objectsUnchanged
    /\ UNCHANGED <<members, mlag, pods, certs, etcd, infra, now, mq, used>>

\* EnsurePVC of a member that IsCreating.
EnsurePVC ==
    /\ mc.pc = "pvc"
    /\ IF pvcs[mc.m] = "none"
       THEN pvcs' = [pvcs EXCEPT ![mc.m] = "empty"] /\ Return("requeue", mc.obj)
       ELSE UNCHANGED pvcs /\ Continue(AfterPVC(mc.obj), mc.obj)
    /\ objectsUnchanged
    /\ UNCHANGED <<members, mlag, pods, certs, etcd, infra, now, mq, used>>

\* A member that ShouldUpdate loses its pod; it is Updating once the pod is gone.
UpdatePod ==
    /\ mc.pc = "updatePod"
    /\ IF pods[mc.m].state = "none"
       THEN UNCHANGED pods /\ Continue("pod", [mc.obj EXCEPT !.status.phase = "Updating"])
       ELSE DeletePod(mc.m) /\ Return("requeue", mc.obj)
    /\ objectsUnchanged
    /\ UNCHANGED <<members, mlag, pvcs, certs, etcd, infra, now, mq, used>>

\* EnsurePod when the pod was just created, and when the cache shows one.
PodCreated(obj) == IF obj.status.phase = "Running" THEN SetFailed(obj) ELSE obj
PodObserved(obj, pod) ==
    IF pod.state = "ready"
    THEN [obj EXCEPT !.status.phase = "Running", !.status.version = obj.spec.version]
    ELSE IF obj.status.phase = "Running" THEN SetFailed(obj) ELSE obj

\* EnsurePod: whether there is a pod is read from the cache, so a create can
\* find the name taken (AlreadyExists, an error).
EnsurePod ==
    /\ mc.pc = "pod"
    /\ \/ /\ pcache[mc.m].state # "none"
          /\ UNCHANGED pods
          /\ Return("done", PodObserved(mc.obj, pcache[mc.m]))
       \/ /\ pcache[mc.m].state = "none" /\ pods[mc.m].state = "none"
          /\ pods' = [pods EXCEPT ![mc.m] = GetPod(mc.obj)]
          /\ Return("requeue", PodCreated(mc.obj))
       \/ /\ pcache[mc.m].state = "none" /\ pods[mc.m].state # "none"
          /\ UNCHANGED pods
          /\ Return("requeue", mc.obj)
    /\ objectsUnchanged
    /\ UNCHANGED <<members, mlag, pvcs, certs, etcd, infra, now, mq, used>>

\* Any call before the deferred one may fail: Reconcile returns the error.
MemberCallFails ==
    /\ mc.pc \notin {"idle", "repairStatus", "repairSpec", "status"}
    /\ Fault
    /\ Return("requeue", mc.obj)
    /\ objectsUnchanged
    /\ UNCHANGED <<members, mlag, pods, pvcs, certs, etcd, infra, now, mq>>

FinishMember ==
    /\ mc' = IdleMemberWorker
    /\ mq' = IF mc.result = "requeue" THEN mq \cup {mc.m} ELSE mq

\* The deferred Status().Update; a conflict leaves the store as it is.
MemberStatusUpdate ==
    /\ mc.pc = "status"
    /\ IF mc.fresh
       THEN StoreMember(mc.m, [members[mc.m] EXCEPT !.status = mc.obj.status])
       ELSE UNCHANGED <<members, mlag>>
    /\ FinishMember
    /\ objectsUnchanged
    /\ UNCHANGED <<pods, pvcs, certs, etcd, infra, now, used>>

\* ... and so does any other error, which is only logged.
MemberStatusUpdateFails ==
    /\ mc.pc = "status" /\ Fault
    /\ FinishMember
    /\ objectsUnchanged
    /\ UNCHANGED <<members, mlag, pods, pvcs, certs, etcd, infra, now>>

MemberWorkerStep ==
    \/ RepairDeletePod \/ RepairDeletePVC \/ ReaddRemove \/ ReaddAdd
    \/ RepairStatus \/ RepairSpec
    \/ Certificates \/ EnsurePVC \/ UpdatePod \/ EnsurePod
    \/ MemberStatusUpdate

MemberWorkerFault ==
    \/ ReaddAddReplyLost \/ RepairStatusFails \/ RepairSpecFails
    \/ MemberCallFails \/ MemberStatusUpdateFails

MemberReconcile == (\E m \in Members : GetMember(m)) \/ MemberWorkerStep \/ MemberWorkerFault
=============================================================================
