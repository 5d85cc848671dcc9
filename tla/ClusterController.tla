------------------------- MODULE ClusterController -------------------------
(***************************************************************************)
(* controllers/cluster_controller.go: the reconciler of the Cluster.       *)
(*                                                                         *)
(* cc.obj is the local variable "cluster" of Reconcile, cc.fresh says      *)
(* whether the store still has the version it was read from, cc.i is the   *)
(* loop variable of UpdateMembers.  EnsureMembers and RepairMembers read   *)
(* all members in one go (their loops only read the cache, or create       *)
(* objects that no other process creates); UpdateMembers, whose loop       *)
(* writes, is one step per iteration.  Deletion of the cluster             *)
(* (CleanupSecrets) is not part of this module.                            *)
(***************************************************************************)
EXTENDS OperatorState

ContinueCluster(pc, obj) == cc' = [cc EXCEPT !.pc = pc, !.obj = obj, !.i = 0]
ReturnCluster(result, obj) ==
    cc' = [cc EXCEPT !.pc = "status", !.obj = obj, !.result = result]

\* What the cluster controller never touches.
ownedUnchanged == UNCHANGED <<ccache, mcache, pods, pcache, pvcs, certs, etcd, now, mq>>
storeUnchanged == UNCHANGED <<cluster, clag, members, mlag, mc>>

\* The end of Reconcile: the version asked for is recorded as the version run.
RecordVersion(obj) == [obj EXCEPT !.status.version = obj.spec.version]

\* A successful write of member i: a member worker that read it is stale now.
UpdateMember(i, value) ==
    /\ StoreMember(i, value)
    /\ mc' = IF mc.pc # "idle" /\ mc.m = i /\ value # members[i]
             THEN [mc EXCEPT !.fresh = FALSE] ELSE mc

-----------------------------------------------------------------------------
(* Reconcile *)

GetCluster ==
    /\ cc.pc = "idle" /\ cq
    /\ cq' = FALSE
    /\ cc' = [pc     |-> "infra",
              obj    |-> IF ccache.status.phase = "None"
                         THEN [ccache EXCEPT !.status.phase = "Creating"] ELSE ccache,
              fresh  |-> ~clag,
              i      |-> 0,
              result |-> "done"]
    /\ storeUnchanged /\ ownedUnchanged
    /\ UNCHANGED <<infra, used>>

\* EnsureBackupSchedule goes on after a create; EnsureService, EnsureCACertificate
\* and EnsureCAIssuer each requeue after theirs.
FirstMissing ==
    IF "service" \notin infra THEN {"service"}
    ELSE IF "ca" \notin infra THEN {"ca"}
    ELSE {"issuer"} \ infra

EnsureInfra ==
    /\ cc.pc = "infra"
    /\ infra' = infra \cup {"schedule"} \cup FirstMissing
    /\ IF FirstMissing # {}
       THEN ReturnCluster("requeue", cc.obj)
       ELSE ContinueCluster("members", cc.obj)
    /\ storeUnchanged /\ ownedUnchanged
    /\ UNCHANGED <<cq, used>>

\* EnsureMember(i) creates the member when the cache does not show it; when
\* the store has it already the create fails with AlreadyExists, EnsureMember
\* returns a nil member and its caller dereferences it.
NotCached       == {i \in Members : mcache[i].status.phase = "Absent"}
AlreadyExisting == {i \in NotCached : members[i].status.phase # "Absent"}

\* The members EnsureMembers sees: the cached ones, and those it creates.
Seen(i) == IF i \in NotCached THEN MemberTemplate(cc.obj) ELSE mcache[i]

FailedMembers   == {i \in Members : Seen(i).status.phase = "Failed"}
CreatingMembers == {i \in Members : IsCreating(Seen(i))}

\* Mutant of ClusterPhase: the members being created are not counted.
ClusterPhaseHasty(failed, creating) ==
    IF failed = 0 THEN "Running"
    ELSE IF (failed + creating) * 2 < Size THEN "MinorFailure" ELSE "Failed"

ClusterPhase(failed, creating) ==
    IF failed = 0 THEN (IF creating = 0 THEN "Running" ELSE "Creating")
    ELSE IF (failed + creating) * 2 < Size THEN "MinorFailure" ELSE "Failed"

\* The cluster after EnsureMembers
Assessed ==
    [cc.obj EXCEPT
        !.status.phase = ClusterPhase(Cardinality(FailedMembers), Cardinality(CreatingMembers)),
        !.status.certificateExpires =
            \E i \in Members : Seen(i).status.certificateExpires \/ Seen(i).spec.certificateUpdate]

CreateMembers(created) ==
    /\ members' = [i \in Members |-> IF i \in created THEN MemberTemplate(cc.obj) ELSE members[i]]
    /\ mlag' = mlag \cup created

\* With Size < 0 no loop runs: UpdateMembers has nothing to do.
EnsureMembers ==
    /\ cc.pc = "members" /\ AlreadyExisting = {}
    /\ CreateMembers(NotCached)
    /\ IF Assessed.status.phase = "MinorFailure"
       THEN ContinueCluster("repair", Assessed)
       ELSE IF ClusterShouldUpdate(Assessed) /\ Size > 0
       THEN ContinueCluster("update", Assessed)
       ELSE ReturnCluster("done", RecordVersion(Assessed))
    /\ ownedUnchanged
    /\ UNCHANGED <<cluster, clag, mc, cq, infra, used>>

\* The nil member is dereferenced at index n: the members before it that were
\* missing have been created, the deferred update still runs.
PanicAt(n) ==
    /\ CreateMembers({i \in NotCached : i < n})
    /\ ReturnCluster("panic", cc.obj)
    /\ ownedUnchanged
    /\ UNCHANGED <<cluster, clag, mc, cq, infra>>

EnsureMembersAlreadyExists ==
    /\ cc.pc = "members"
    /\ \E n \in AlreadyExisting :
          /\ \A i \in AlreadyExisting : n <= i
          /\ PanicAt(n)
    /\ UNCHANGED used

EnsureMembersCallFails ==
    /\ cc.pc = "members" /\ Fault
    /\ \E n \in NotCached :
          /\ \A i \in AlreadyExisting : n < i
          /\ PanicAt(n)

-----------------------------------------------------------------------------
(* RepairMembers *)

\* minorFailedTimeout has passed since the member failed.
Overdue == {i \in Members : mcache[i].status.phase = "Failed" /\ mcache[i].status.failedTime < now}

\* Mutant of Oldest: the comparison of the times is the wrong way round.
Latest(i) ==
    /\ mcache[i].status.phase = "Failed"
    /\ \A j \in Overdue : mcache[i].status.failedTime >= mcache[j].status.failedTime

\* The member the loop ends up with: the one that failed first, the lowest
\* index among those that failed at the same time.
Oldest(i) ==
    /\ i \in Overdue
    /\ \A j \in Overdue :
          \/ mcache[i].status.failedTime < mcache[j].status.failedTime
          \/ mcache[i].status.failedTime = mcache[j].status.failedTime /\ i <= j

\* Mutant of RepairStops: a member being created does not stop the loop.
RepairStopsAtBroken == {i \in Members : mcache[i].spec.broken} \cup NotCached

\* The loop stops at the first member that is being created or repaired, or
\* at a nil one, as in EnsureMembers.
RepairStops    == {i \in Members : IsCreating(mcache[i]) \/ mcache[i].spec.broken} \cup NotCached
RepairUnderWay == RepairStops # {}
NilMember      == \E i \in NotCached : \A j \in RepairStops : i <= j

\* Mutant: the failed members are not counted again.
NeverTooManyFailed == FALSE

TooManyFailed ==
    2 * Cardinality({i \in Members : mcache[i].status.phase = "Failed"}) > Size

Broken(member) == [member EXCEPT !.spec.broken = TRUE]

\* Nothing to do now: a repair is under way, or no failure is old enough.
RepairWaits ==
    /\ cc.pc = "repair"
    /\ RepairUnderWay \/ Overdue = {}
    /\ ReturnCluster(IF NilMember THEN "panic" ELSE "requeue", cc.obj)
    /\ storeUnchanged /\ ownedUnchanged
    /\ UNCHANGED <<cq, infra, used>>

\* RepairMembers declines and Reconcile goes on to its end.
RepairDeclined ==
    /\ cc.pc = "repair"
    /\ ~RepairUnderWay /\ Overdue # {} /\ TooManyFailed
    /\ ReturnCluster("done", RecordVersion(cc.obj))
    /\ storeUnchanged /\ ownedUnchanged
    /\ UNCHANGED <<cq, infra, used>>

\* Mutants of RepairMember: every overdue member is marked, one after the other;
\* the mark is set whatever became of the member since it was read.
RepairEachMember(i) ==
    /\ cc.pc = "repair"
    /\ i \in Overdue /\ ~TooManyFailed
    /\ IF i \in mlag
       THEN UNCHANGED <<members, mlag, mc>> /\ ReturnCluster("requeue", cc.obj)
       ELSE /\ UpdateMember(i, Broken(mcache[i]))
            /\ ReturnCluster("done", RecordVersion(cc.obj))
    /\ ownedUnchanged
    /\ UNCHANGED <<cluster, clag, cq, infra, used>>

RepairMemberForced(i) ==
    /\ cc.pc = "repair"
    /\ ~RepairUnderWay /\ ~TooManyFailed /\ Oldest(i)
    /\ UpdateMember(i, Broken(members[i]))
    /\ ReturnCluster("done", RecordVersion(cc.obj))
    /\ ownedUnchanged
    /\ UNCHANGED <<cluster, clag, cq, infra, used>>

\* The oldest failed member is marked broken; Reconcile goes on to its end.
\* The update is refused when the cached member is not the stored one.
RepairMember(i) ==
    /\ cc.pc = "repair"
    /\ ~RepairUnderWay /\ ~TooManyFailed /\ Oldest(i)
    /\ IF i \in mlag
       THEN UNCHANGED <<members, mlag, mc>> /\ ReturnCluster("requeue", cc.obj)
       ELSE /\ UpdateMember(i, Broken(mcache[i]))
            /\ ReturnCluster("done", RecordVersion(cc.obj))
    /\ ownedUnchanged
    /\ UNCHANGED <<cluster, clag, cq, infra, used>>

-----------------------------------------------------------------------------
(* UpdateMembers *)

Current == mcache[cc.i]

\* The first test of the loop body: member i has to settle before anything else.
UpdateWaits == IsCreating(Current) \/ Current.status.phase = "Updating"

CertificateTurn ==
    cc.obj.status.certificateExpires \/ Current.spec.certificateUpdate

\* Member i gets the new version ...
WithVersion(member) == [member EXCEPT !.spec.version = cc.obj.spec.version]
\* ... or is told whether to pick up new certificates.
WithCertificateUpdate(member) ==
    [member EXCEPT !.spec.certificateUpdate = member.status.certificateExpires]

Updating(obj) == [obj EXCEPT !.status.phase = "Updating"]

\* The loop is over: nothing left to update.
Updated(obj) ==
    RecordVersion([obj EXCEPT !.status.phase = "Running", !.status.certificateExpires = FALSE])

\* Mutants of NextMember: the loop runs once too often; the version reported by
\* the member is not waited for.
OneMemberTooFar ==
    IF cc.obj.spec.version # Current.status.version
    THEN ReturnCluster("requeue", cc.obj)
    ELSE IF cc.i < Size THEN cc' = [cc EXCEPT !.i = @ + 1]
    ELSE ReturnCluster("done", Updated(cc.obj))

NextMemberAtOnce ==
    IF cc.i + 1 < Size THEN cc' = [cc EXCEPT !.i = @ + 1]
    ELSE ReturnCluster("done", Updated(cc.obj))

\* The last test of the loop body, and the next iteration.
NextMember ==
    IF cc.obj.spec.version # Current.status.version
    THEN ReturnCluster("requeue", cc.obj)
    ELSE IF cc.i + 1 < Size THEN cc' = [cc EXCEPT !.i = @ + 1]
    ELSE ReturnCluster("done", Updated(cc.obj))

UpdateMemberWaits ==
    /\ cc.pc = "update" /\ UpdateWaits
    /\ ReturnCluster("requeue", cc.obj)
    /\ storeUnchanged /\ ownedUnchanged
    /\ UNCHANGED <<cq, infra, used>>

\* The phase is set before the update, which may be refused.
UpdateMemberVersion ==
    /\ cc.pc = "update" /\ ~UpdateWaits
    /\ Current.spec.version # cc.obj.spec.version
    /\ ReturnCluster("requeue", Updating(cc.obj))
    /\ IF cc.i \in mlag
       THEN UNCHANGED <<members, mlag, mc>>
       ELSE UpdateMember(cc.i, WithVersion(Current))
    /\ ownedUnchanged
    /\ UNCHANGED <<cluster, clag, cq, infra, used>>

UpdateMemberCertificate ==
    /\ cc.pc = "update" /\ ~UpdateWaits
    /\ Current.spec.version = cc.obj.spec.version
    /\ CertificateTurn
    /\ IF cc.i \in mlag
       THEN UNCHANGED <<members, mlag, mc>> /\ ReturnCluster("requeue", cc.obj)
       ELSE /\ UpdateMember(cc.i, WithCertificateUpdate(Current))
            /\ IF Current.status.certificateExpires
               THEN ReturnCluster("requeue", Updating(cc.obj))
               ELSE NextMember
    /\ ownedUnchanged
    /\ UNCHANGED <<cluster, clag, cq, infra, used>>

UpdateMemberDone ==
    /\ cc.pc = "update" /\ ~UpdateWaits
    /\ Current.spec.version = cc.obj.spec.version
    /\ ~CertificateTurn
    /\ NextMember
    /\ storeUnchanged /\ ownedUnchanged
    /\ UNCHANGED <<cq, infra, used>>

-----------------------------------------------------------------------------

\* A write before the deferred one fails and Reconcile returns its error.
ClusterCallFails ==
    /\ Fault
    /\ \/ cc.pc \in {"infra", "repair"} /\ ReturnCluster("requeue", cc.obj)
       \/ /\ cc.pc = "update" /\ ~UpdateWaits
          /\ IF Current.spec.version # cc.obj.spec.version
             THEN ReturnCluster("requeue", Updating(cc.obj))
             ELSE CertificateTurn /\ ReturnCluster("requeue", cc.obj)
    /\ storeUnchanged /\ ownedUnchanged
    /\ UNCHANGED <<cq, infra>>

\* Reconcile is over; a panic takes the process down.
FinishCluster ==
    /\ cc' = IF cc.result = "panic" THEN [IdleClusterWorker EXCEPT !.pc = "panicked"]
             ELSE IdleClusterWorker
    /\ cq' = (cq \/ cc.result = "requeue")

\* The deferred Status().Update; a conflict leaves the store as it is.
ClusterStatusUpdate ==
    /\ cc.pc = "status"
    /\ IF cc.fresh
       THEN StoreCluster([cluster EXCEPT !.status = cc.obj.status])
       ELSE UNCHANGED <<cluster, clag>>
    /\ FinishCluster
    /\ ownedUnchanged
    /\ UNCHANGED <<members, mlag, mc, infra, used>>

\* ... and so does any other error, which is only logged.
ClusterStatusUpdateFails ==
    /\ cc.pc = "status" /\ Fault
    /\ FinishCluster
    /\ storeUnchanged /\ ownedUnchanged
    /\ UNCHANGED infra

ClusterWorkerStep ==
    \/ EnsureInfra \/ EnsureMembers \/ EnsureMembersAlreadyExists
    \/ RepairWaits \/ RepairDeclined \/ (\E i \in Members : RepairMember(i))
    \/ UpdateMemberWaits \/ UpdateMemberVersion \/ UpdateMemberCertificate \/ UpdateMemberDone
    \/ ClusterStatusUpdate

ClusterWorkerFault ==
    EnsureMembersCallFails \/ ClusterCallFails \/ ClusterStatusUpdateFails

ClusterReconcile == GetCluster \/ ClusterWorkerStep \/ ClusterWorkerFault
=============================================================================
