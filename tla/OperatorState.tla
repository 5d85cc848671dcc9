--------------------------- MODULE OperatorState ---------------------------
(***************************************************************************)
(* The state the etcd operator works on: one Cluster object, its Member    *)
(* objects and the objects a member owns, as they are stored by the API    *)
(* server and as the informer caches of the operator show them, and the    *)
(* work queues and workers of the cluster controller and of the member     *)
(* controller.                                                             *)
(*                                                                         *)
(* Every read of a controller is served by a cache, every write goes to    *)
(* the store and is refused (conflict) when the object was changed since   *)
(* the version the controller read: "lag" says which cached objects are    *)
(* not the stored ones any more.                                           *)
(*                                                                         *)
(* Data abstracted away: names, labels, certificates' contents, ports and  *)
(* paths; the size of the cluster never changes (the webhook refuses it).  *)
(***************************************************************************)
EXTENDS Integers, FiniteSets

CONSTANTS
    Size,           \* Spec.Size of the cluster
    Versions,       \* the etcd versions a user may ask for
    FirstVersions,  \* those the cluster may be created with
    NoVersion,      \* the empty string in a version field
    FromBackup,     \* is Spec.Backup of the cluster set? a set of answers
    Deployed,       \* does the behaviour start with a running cluster, not with
                    \* a new one? a set of answers
    Lagging,        \* the kinds whose cache may be behind the store
    MaxTime,        \* bound: the clock stops here
    MaxFailures,    \* bound: pods that fail or are evicted
    MaxChanges,     \* bound: version changes by the user
    MaxRenewals,    \* bound: certificate renewals
    MaxEvents,      \* bound: failures, version changes and renewals together
    MaxFaults       \* bound: failed API calls, lost replies, crashes

\* ValidateCreate: only odd sizes are admitted; -1 passes Go's Size%2==0 too.
ASSUME SizeAssumption == Size \in Int /\ Size % 2 = 1
ASSUME VersionAssumption == NoVersion \notin Versions /\ FirstVersions \subseteq Versions
ASSUME FlagAssumption ==
    FromBackup \subseteq BOOLEAN /\ Deployed \subseteq BOOLEAN
    /\ Lagging \subseteq {"cluster", "members", "pods"}
ASSUME BoundAssumption ==
    /\ MaxTime \in Nat \ {0} /\ MaxFailures \in Nat /\ MaxChanges \in Nat
    /\ MaxRenewals \in Nat /\ MaxEvents \in Nat /\ MaxFaults \in Nat

VARIABLES
    cluster, ccache, clag,      \* the Cluster: stored, cached, cache is behind
    members, mcache, mlag,      \* the Members: stored, cached, those behind
    pods, pcache,               \* their pods: stored, cached
    pvcs,                       \* their persistent volume claims
    certs,                      \* their certificates (client and peer)
    etcd,                       \* the membership list of the etcd cluster
    infra,                      \* the other objects the cluster owns
    now,                        \* the clock, one tick is minorFailedTimeout
    cq, mq,                     \* the work queues
    cc, mc,                     \* the worker of each controller
    used                        \* how much of each bound is used up

vars == <<cluster, ccache, clag, members, mcache, mlag, pods, pcache, pvcs,
          certs, etcd, infra, now, cq, mq, cc, mc, used>>

-----------------------------------------------------------------------------
(* Types *)

Members == 0 .. Size - 1

ClusterPhases == {"None", "Creating", "Running", "Updating", "MinorFailure", "Failed"}
ClusterSpec   == [version : Versions, backup : BOOLEAN]
ClusterStatus == [phase : ClusterPhases, version : Versions \cup {NoVersion},
                  certificateExpires : BOOLEAN]
Cluster       == [spec : ClusterSpec, status : ClusterStatus]

\* "None" is the empty phase of a new object, "Absent" an object that does not
\* exist; the constant MemberCreating is never assigned by the code.
MemberPhases == {"Absent", "None", "Recreating", "Running", "Updating", "Failed"}
Times        == 0 .. MaxTime            \* 0 is the zero time
MemberSpec   == [version : Versions \cup {NoVersion}, broken : BOOLEAN,
                 certificateUpdate : BOOLEAN]
MemberStatus == [version : Versions \cup {NoVersion}, phase : MemberPhases,
                 failedTime : Times, certificateExpires : BOOLEAN]
Member       == [spec : MemberSpec, status : MemberStatus]

\* renewed: the certificates issued after the pod was created.
Suffixes == {"client", "peer"}
Pod      == [state : {"none", "starting", "ready", "unready"},
             version : Versions \cup {NoVersion}, mode : {"new", "existing"},
             restore : BOOLEAN, renewed : SUBSET Suffixes, terminating : BOOLEAN]

Infra == {"schedule", "service", "ca", "issuer"}

MemberSteps  == {"idle", "deletePod", "deletePVC", "memberRemove", "memberAdd",
                 "repairStatus", "repairSpec", "certificates", "pvc",
                 "updatePod", "pod", "status"}
ClusterSteps == {"idle", "infra", "members", "repair", "update", "status", "panicked"}
Results      == {"done", "requeue", "panic"}

-----------------------------------------------------------------------------
(* Objects *)

AbsentMember ==
    [spec   |-> [version |-> NoVersion, broken |-> FALSE, certificateUpdate |-> FALSE],
     status |-> [version |-> NoVersion, phase |-> "Absent", failedTime |-> 0,
                 certificateExpires |-> FALSE]]

\* Cluster.GetMember: the member as the cluster controller creates it
MemberTemplate(c) ==
    [AbsentMember EXCEPT !.spec.version = c.spec.version, !.status.phase = "None"]

NoPod == [state |-> "none", version |-> NoVersion, mode |-> "new",
          restore |-> FALSE, renewed |-> {}, terminating |-> FALSE]

IsCreating(m) == m.status.phase \in {"Recreating", "None"}

\* Mutants of GetState: every member being created joins, no member ever joins.
GetStateCreating(m) == IF IsCreating(m) THEN "existing" ELSE "new"
GetStateNew(m)      == "new"

\* Member.GetState, the --initial-cluster-state argument
GetState(m) == IF m.status.phase = "Recreating" THEN "existing" ELSE "new"

\* Member.GetInitContainers: whether the pod restores the backup first.  The
\* member has a copy of Spec.Backup, which ValidateUpdate never lets change.
Restores(m) == cluster.spec.backup /\ m.status.phase # "Recreating"

\* Member.GetPod, with GetContainers and GetImage
GetPod(m) ==
    [NoPod EXCEPT !.state = "starting", !.version = m.spec.version,
                  !.mode = GetState(m), !.restore = Restores(m)]

\* Mutant of MemberShouldUpdate: the versions are not compared.
MemberShouldUpdateCertificate(m) ==
    m.status.phase = "Running" /\ m.spec.certificateUpdate /\ m.status.certificateExpires

\* Member.ShouldUpdate
MemberShouldUpdate(m) ==
    /\ m.status.phase = "Running"
    /\ \/ m.status.version # m.spec.version
       \/ m.spec.certificateUpdate /\ m.status.certificateExpires

\* Mutant of ClusterShouldUpdate: the versions are not compared.
ClusterShouldUpdateCertificate(c) ==
    c.status.phase = "Running" /\ c.status.certificateExpires

\* Cluster.ShouldUpdate
ClusterShouldUpdate(c) ==
    /\ c.status.phase = "Running"
    /\ c.status.version # c.spec.version \/ c.status.certificateExpires

SetFailed(m) ==
    IF m.status.phase = "Failed" THEN m
    ELSE [m EXCEPT !.status.phase = "Failed", !.status.failedTime = now]

IdleMemberWorker ==
    [pc |-> "idle", m |-> 0, obj |-> AbsentMember, fresh |-> FALSE, result |-> "done"]

NoCluster ==
    [spec   |-> [version |-> NoVersion, backup |-> FALSE],
     status |-> [phase |-> "None", version |-> NoVersion, certificateExpires |-> FALSE]]

IdleClusterWorker ==
    [pc |-> "idle", obj |-> NoCluster, fresh |-> FALSE, i |-> 0, result |-> "done"]

-----------------------------------------------------------------------------
(* Writes.  A write that changes nothing produces no new resource version   *)
(* and no event.                                                            *)

StoreMember(m, value) ==
    /\ members' = [members EXCEPT ![m] = value]
    /\ mlag' = IF value = members[m] THEN mlag ELSE mlag \cup {m}

StoreCluster(value) ==
    /\ cluster' = value
    /\ clag' = (clag \/ value # cluster)

\* Something else may still happen to the cluster.
EventsLeft == used.failures + used.changes + used.renewals < MaxEvents

\* A fault uses up one unit of its bound.
Fault == used.faults < MaxFaults /\ used' = [used EXCEPT !.faults = @ + 1]
=============================================================================
