------------------------------ MODULE EtcdOps ------------------------------
(***************************************************************************)
(* The etcd operator: the cluster controller and the member controller,    *)
(* each with one worker (MaxConcurrentReconciles is left at 1), in their   *)
(* environment, and what they promise together.                            *)
(***************************************************************************)
EXTENDS MemberController, ClusterController, Environment

\* A cluster that has been up for a while ...
RunningMember(v) ==
    [spec   |-> [version |-> v, broken |-> FALSE, certificateUpdate |-> FALSE],
     status |-> [version |-> v, phase |-> "Running", failedTime |-> 0,
                 certificateExpires |-> FALSE]]
RunningPod(v, backup) ==
    [NoPod EXCEPT !.state = "ready", !.version = v, !.restore = backup]

InitRunning(v, backup) ==
    /\ cluster = [spec   |-> [version |-> v, backup |-> backup],
                  status |-> [phase |-> "Running", version |-> v, certificateExpires |-> FALSE]]
    /\ members = [m \in Members |-> RunningMember(v)]
    /\ pods    = [m \in Members |-> RunningPod(v, backup)]
    /\ pvcs    = [m \in Members |-> "data"]
    /\ certs   = [m \in Members |-> "issued"]
    /\ etcd    = [m \in Members |-> "started"]
    /\ infra   = Infra
    /\ cq = FALSE

\* ... and one that ValidateCreate has just admitted.
InitCreated(v, backup) ==
    /\ cluster = [spec |-> [version |-> v, backup |-> backup], status |-> NoCluster.status]
    /\ members = [m \in Members |-> AbsentMember]
    /\ pods    = [m \in Members |-> NoPod]
    /\ pvcs    = [m \in Members |-> "none"]
    /\ certs   = [m \in Members |-> "none"]
    /\ etcd    = [m \in Members |-> "none"]
    /\ infra   = {}
    /\ cq = TRUE

Init ==
    /\ \E v \in FirstVersions, backup \in FromBackup :
          \/ TRUE \in Deployed /\ InitRunning(v, backup)
          \/ FALSE \in Deployed /\ InitCreated(v, backup)
    /\ ccache = cluster /\ clag = FALSE
    /\ mcache = members /\ mlag = {}
    /\ pcache = pods
    /\ now = 1
    /\ mq = {}
    /\ mc = IdleMemberWorker /\ cc = IdleClusterWorker
    /\ used = [failures |-> 0, changes |-> 0, renewals |-> 0, faults |-> 0]

Step == MemberReconcile \/ ClusterReconcile \/ EnvironmentStep

\* A cache that does not lag in this instance is brought up to date first.
Next == Sync \/ (Settled /\ Step)

Spec == Init /\ [][Next]_vars

-----------------------------------------------------------------------------
(* Fairness.  A worker that holds a key goes on, a queued key is taken (the *)
(* queue is first in first out), informers deliver, a deleted object goes   *)
(* away, a new pod that can start becomes ready, a certificate is issued,   *)
(* Kubernetes restarts a manager that panicked, and time passes.  Nothing   *)
(* is assumed of failures, faults, the user, or of an unready pod.          *)

FairNext ==
    /\ WF_vars(SyncCluster) /\ WF_vars(SyncMembers) /\ WF_vars(SyncPods)
    /\ SF_vars(Settled /\ ((\E m \in Members : GetMember(m)) \/ MemberWorkerStep))
    /\ SF_vars(Settled /\ (GetCluster \/ ClusterWorkerStep))
    /\ SF_vars(Settled /\ \E m \in Members : KubeletStep(m))
    /\ SF_vars(Settled /\ (Tick \/ RestartOnPanic))

FairSpec == Spec /\ FairNext

-----------------------------------------------------------------------------
(* Types *)

MemberWorker  == [pc : MemberSteps, m : Nat, obj : Member, fresh : BOOLEAN,
                  result : {"done", "requeue"}]
ClusterWorker == [pc : ClusterSteps, obj : Cluster \cup {NoCluster}, fresh : BOOLEAN,
                  i : Nat, result : Results]
Budgets == [failures : 0 .. MaxFailures, changes : 0 .. MaxChanges,
            renewals : 0 .. MaxRenewals, faults : 0 .. MaxFaults]

StoreTypeOK ==
    /\ cluster \in Cluster /\ ccache \in Cluster /\ clag \in BOOLEAN
    /\ members \in [Members -> Member] /\ mcache \in [Members -> Member]
    /\ mlag \subseteq Members

OwnedTypeOK ==
    /\ pods \in [Members -> Pod] /\ pcache \in [Members -> Pod]
    /\ pvcs \in [Members -> {"none", "empty", "data", "terminating"}]
    /\ certs \in [Members -> {"none", "pending", "issued"}]
    /\ etcd \in [Members -> {"none", "started", "removed", "added"}]
    /\ infra \subseteq Infra

\* A worker that holds a key holds one of this cluster and an object of it.
MemberWorkerTypeOK ==
    /\ mq \subseteq Members
    /\ mc \in MemberWorker
    /\ mc.pc # "idle" => mc.m \in Members

ClusterWorkerTypeOK ==
    /\ cq \in BOOLEAN
    /\ cc \in ClusterWorker
    /\ cc.pc \notin {"idle", "panicked"} => cc.obj \in Cluster
    /\ cc.pc = "update" => cc.i \in Members

BoundsOK == now \in Times \ {0} /\ used \in Budgets

TypeOK ==
    StoreTypeOK /\ OwnedTypeOK /\ MemberWorkerTypeOK /\ ClusterWorkerTypeOK /\ BoundsOK

-----------------------------------------------------------------------------
(* Repair *)

\* At most one member is marked broken, hence taken apart, at any time.
\* RepairMembers decides on cached members: a repair it has just ordered may
\* not be in the cache when it decides again (cluster_controller.go:305, 330).
RepairOneAtATime ==
    \A j, k \in Members : members[j].spec.broken /\ members[k].spec.broken => j = k

\* A member marked broken is one that failed and has not recovered, or one whose
\* repair is done but not recorded: between the read and the write of
\* RepairMembers the member may recover (cluster_controller.go:314-330), and
\* Repair's two writes may fail one by one (member_controller.go:232-241).
BrokenOnlyFailed ==
    \A m \in Members :
        members[m].spec.broken => members[m].status.phase \in {"Failed", "Recreating"}

\* In a deployed cluster at most one member, and never a majority, is without
\* its data: the next repair starts only when the data of the last one is back.
WithoutData == {m \in Members : pvcs[m] # "data"}
DataKept == Cardinality(WithoutData) <= 1 /\ 2 * Cardinality(WithoutData) < Size

\* A running cluster implements SingleRepair, in which members are taken apart
\* one by one (cluster_controller.go:302-331, member_controller.go:219-244).
Repairs == INSTANCE SingleRepair WITH
    marked <- {m \in Members : members[m].spec.broken}, lost <- WithoutData
RepairsOneByOne == Repairs!Spec

\* A claim that holds data is deleted only while the stored member says broken:
\* Repair may work from a cached member that is still marked although the
\* repair is over (member_controller.go:76, 225).
NoHealthyWipe ==
    [][\A m \in Members :
          pvcs[m] = "data" /\ pvcs'[m] = "terminating" => members[m].spec.broken]_vars

FailedNow == {m \in Members : members[m].status.phase = "Failed"}
MarkedBroken(m) == ~members[m].spec.broken /\ members'[m].spec.broken

\* The member marked is one that failed first, among all that are failed when
\* the mark is stored (cluster_controller.go:314-317).
LongestFailedFirst ==
    [][\A m \in Members : MarkedBroken(m) =>
          \A j \in FailedNow : members[m].status.failedTime <= members[j].status.failedTime]_vars

\* A member is marked only while fewer than half of the members are failed: one
\* more may fail after EnsureMembers found a minor failure
\* (cluster_controller.go:97, 323).
RepairOnlyMinority ==
    [][\A m \in Members : MarkedBroken(m) => 2 * Cardinality(FailedNow) < Size]_vars

\* A new pod that has its claim finds what etcd needs to start: the mode it was
\* given, the claim and the membership list belong together although three
\* reconciles and two caches are between them (member_types.go:359-365,
\* member_controller.go:228-242).
NewPodCanStart ==
    \A m \in Members :
        pods[m].state = "starting" /\ pvcs[m] \in {"empty", "data"} => CanServe(m)

\* A member that stays failed longer than minorFailedTimeout runs again.
RepairCompletes ==
    \A m \in Members :
        (members[m].status.phase = "Failed" /\ members[m].status.failedTime < now)
            ~> (members[m].status.phase = "Running")

-----------------------------------------------------------------------------
(* Creation and update *)

\* A rolling update leaves a majority of the members serving: UpdateMembers
\* goes on to the next member only when the last one is back
\* (cluster_controller.go:251-280).
QuorumKept == 2 * Cardinality(Serving) > Size

\* While its reconciler is not at work on it, a member recorded as running
\* reports the version its pod runs (member_controller.go:176-181).
VersionTruth ==
    \A m \in Members :
        /\ members[m].status.phase = "Running" /\ pods[m].state = "ready"
        /\ ~(mc.pc # "idle" /\ mc.m = m)
        => pods[m].version = members[m].status.version

\* The operator deletes only the pod of a member under repair or one that is out
\* of date, for its version or for a certificate: a pod replaced once is not
\* replaced again because the status of its member lags behind
\* (member_controller.go:76, 91-96, member_types.go:353).  The other pods that
\* go are evicted, which is counted as a failure.
NoNeedlessRestart ==
    [][\A m \in Members : ~pods[m].terminating /\ pods'[m].terminating =>
          \/ members[m].spec.broken
          \/ pods[m].version # members[m].spec.version
          \/ "peer" \in pods[m].renewed
          \/ used'.failures > used.failures]_vars

\* The clock stops at MaxTime: a member that fails then is never repaired.
FailedTooLate ==
    \E m \in Members : members[m].status.phase = "Failed" /\ members[m].status.failedTime = MaxTime

\* Every version the user asks for is run by every member and recorded, unless
\* the user asks for another one; of a new cluster, that it is deployed; of one
\* with a failed member, that it comes back (cluster_controller.go:97-109).
UpToDate(v) ==
    /\ cluster.status.phase = "Running" /\ cluster.status.version = v
    /\ \A m \in Members : pods[m].state = "ready" /\ pods[m].version = v
Converges ==
    \A v \in Versions :
        (cluster.spec.version = v) ~>
            (UpToDate(v) \/ cluster.spec.version # v \/ FailedTooLate)

\* A pod older than the peer certificate is replaced.
PeerRenewalPickedUp ==
    \A m \in Members : ("peer" \in pods[m].renewed) ~> ("peer" \notin pods[m].renewed)

-----------------------------------------------------------------------------
(* What the repository says and the code does not do: see the README.      *)

\* member_controller.go:53, Reconcile "aims to move the current state of the
\* cluster closer to the desired state": a repair that was begun is ended.
RepairEnds == \A m \in Members : members[m].spec.broken ~> ~members[m].spec.broken

\* member_types.go:43, "the observed state of an etcd cluster member": that its
\* client certificate was renewed is observed as well.
ClientRenewalPickedUp ==
    \A m \in Members : ("client" \in pods[m].renewed) ~> ("client" \notin pods[m].renewed)
=============================================================================
