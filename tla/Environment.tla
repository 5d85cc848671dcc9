---------------------------- MODULE Environment ----------------------------
(***************************************************************************)
(* What happens around the two controllers: informers that bring the       *)
(* caches up to date and queue keys, the user and the admission webhook,   *)
(* the kubelet and etcd in a pod, cert-manager, the clock, and a crash of  *)
(* the manager.  Only the webhook is code of this repository; the others   *)
(* are modelled from what the controllers rely on.                         *)
(***************************************************************************)
EXTENDS OperatorState

workersUnchanged == UNCHANGED <<cc, mc>>

-----------------------------------------------------------------------------
(* Informers: the cache of one kind catches up, the owner is queued.       *)

SyncCluster ==
    /\ clag
    /\ ccache' = cluster /\ clag' = FALSE
    /\ cq' = TRUE
    /\ workersUnchanged
    /\ UNCHANGED <<cluster, members, mcache, mlag, pods, pcache, pvcs, certs,
                   etcd, infra, now, mq, used>>

\* Owns(&api.Member{}) queues the cluster, For(&api.Member{}) the member.
SyncMembers ==
    /\ mlag # {}
    /\ mcache' = members /\ mlag' = {}
    /\ cq' = TRUE /\ mq' = mq \cup mlag
    /\ workersUnchanged
    /\ UNCHANGED <<cluster, ccache, clag, members, pods, pcache, pvcs, certs,
                   etcd, infra, now, used>>

\* Owns(&corev1.Pod{}) queues the member.
SyncPods ==
    /\ pcache # pods
    /\ pcache' = pods
    /\ mq' = mq \cup {m \in Members : pcache[m] # pods[m]}
    /\ workersUnchanged
    /\ UNCHANGED <<cluster, ccache, clag, members, mcache, mlag, pods, pvcs,
                   certs, etcd, infra, now, cq, used>>

Sync == SyncCluster \/ SyncMembers \/ SyncPods

\* The caches that never lag in this instance are up to date.
Settled ==
    /\ "cluster" \in Lagging \/ ~clag
    /\ "members" \in Lagging \/ mlag = {}
    /\ "pods" \in Lagging \/ pcache = pods

-----------------------------------------------------------------------------
(* The user *)

\* ValidateUpdate, called by the API server with the stored object.
ValidateUpdate(version) ==
    ~(cluster.status.phase = "Updating" /\ version # cluster.spec.version)

\* A reconcile that read the cluster before is stale now.
ChangeVersion ==
    /\ used.changes < MaxChanges /\ EventsLeft
    /\ used' = [used EXCEPT !.changes = @ + 1]
    /\ \E v \in Versions \ {cluster.spec.version} :
          ValidateUpdate(v) /\ StoreCluster([cluster EXCEPT !.spec.version = v])
    /\ cc' = IF cc.pc \in {"idle", "panicked"} THEN cc ELSE [cc EXCEPT !.fresh = FALSE]
    /\ UNCHANGED <<ccache, members, mcache, mlag, pods, pcache, pvcs, certs,
                   etcd, infra, now, cq, mq, mc>>

-----------------------------------------------------------------------------
(* Pods, claims, etcd *)

podUnchanged == UNCHANGED <<cluster, ccache, clag, members, mcache, mlag,
                            pcache, certs, infra, now, cq, cc, mc>>

\* etcd starts when its data directory is the one its membership asks for: its
\* own data, or none when it bootstraps the cluster or was just added to it.
\* The restore container refuses a data directory that is not empty.
CanServe(m) ==
    /\ pvcs[m] \in {"empty", "data"}
    /\ pods[m].restore => pvcs[m] = "empty"
    /\ \/ pvcs[m] = "data" /\ etcd[m] = "started"
       \/ pvcs[m] = "empty" /\ pods[m].mode = "new" /\ etcd[m] = "none"
       \/ pvcs[m] = "empty" /\ pods[m].mode = "existing" /\ etcd[m] = "added"

Serve(m) ==
    /\ pods' = [pods EXCEPT ![m].state = "ready"]
    /\ pvcs' = [pvcs EXCEPT ![m] = "data"]
    /\ etcd' = [etcd EXCEPT ![m] = "started"]
    /\ podUnchanged /\ UNCHANGED <<mq, used>>

\* The readiness probe of a new pod succeeds ...
PodReady(m) == pods[m].state = "starting" /\ ~pods[m].terminating /\ CanServe(m) /\ Serve(m)

\* ... or that of a pod whose probe had failed: nothing says it ever will.
PodRecovers(m) == pods[m].state = "unready" /\ ~pods[m].terminating /\ CanServe(m) /\ Serve(m)

Failure ==
    /\ used.failures < MaxFailures /\ EventsLeft
    /\ used' = [used EXCEPT !.failures = @ + 1]

\* The readiness probe fails.
PodFails(m) ==
    /\ pods[m].state = "ready" /\ ~pods[m].terminating /\ Failure
    /\ pods' = [pods EXCEPT ![m].state = "unready"]
    /\ podUnchanged /\ UNCHANGED <<pvcs, etcd, mq>>

\* Somebody else deletes the pod: a drained node, an operator's hand.
PodEvicted(m) ==
    /\ pods[m].state # "none" /\ ~pods[m].terminating /\ Failure
    /\ pods' = [pods EXCEPT ![m].terminating = TRUE]
    /\ podUnchanged /\ UNCHANGED <<pvcs, etcd, mq>>

\* A deleted pod is stopped and its object goes away.
PodGone(m) ==
    /\ pods[m].terminating
    /\ pods' = [pods EXCEPT ![m] = NoPod]
    /\ podUnchanged /\ UNCHANGED <<pvcs, etcd, mq, used>>

\* A deleted claim goes away unless a pod runs with it.
\* Owns(&corev1.PersistentVolumeClaim{}) queues the member.
PvcGone(m) ==
    /\ pvcs[m] = "terminating" /\ pods[m].state \in {"none", "starting"}
    /\ pvcs' = [pvcs EXCEPT ![m] = "none"]
    /\ mq' = mq \cup {m}
    /\ podUnchanged /\ UNCHANGED <<pods, etcd, used>>

-----------------------------------------------------------------------------
(* cert-manager; Owns(&certv1.Certificate{}) queues the member.            *)

certUnchanged == UNCHANGED <<cluster, ccache, clag, members, mcache, mlag, pvcs,
                             etcd, infra, now, cq, cc, mc>>

IssueCertificates(m) ==
    /\ certs[m] = "pending" /\ {"ca", "issuer"} \subseteq infra
    /\ certs' = [certs EXCEPT ![m] = "issued"]
    /\ mq' = mq \cup {m}
    /\ certUnchanged /\ UNCHANGED <<pods, pcache, used>>

\* The pods that are there were created before the certificate was issued.
Outdated(pod, suffix) ==
    IF pod.state = "none" THEN pod ELSE [pod EXCEPT !.renewed = @ \cup {suffix}]

RenewCertificate(m, suffix) ==
    /\ certs[m] = "issued"
    /\ used.renewals < MaxRenewals /\ EventsLeft
    /\ used' = [used EXCEPT !.renewals = @ + 1]
    /\ pods'   = [pods EXCEPT ![m] = Outdated(@, suffix)]
    /\ pcache' = [pcache EXCEPT ![m] = Outdated(@, suffix)]
    /\ mq' = mq \cup {m}
    /\ certUnchanged /\ UNCHANGED certs

-----------------------------------------------------------------------------
(* The clock and the process *)

\* Only failures are timed: before the first one no tick makes a difference.
TimeMatters ==
    mc.obj.status.failedTime # 0 \/ \E m \in Members : members[m].status.failedTime # 0

Tick ==
    /\ now < MaxTime /\ TimeMatters
    /\ now' = now + 1
    /\ workersUnchanged
    /\ UNCHANGED <<cluster, ccache, clag, members, mcache, mlag, pods, pcache,
                   pvcs, certs, etcd, infra, cq, mq, used>>

\* The workers are gone with all they held in memory; the new process lists
\* every object and queues every key.
RestartManager ==
    /\ mc' = IdleMemberWorker
    /\ cc' = IdleClusterWorker
    /\ ccache' = cluster /\ clag' = FALSE
    /\ mcache' = members /\ mlag' = {}
    /\ pcache' = pods
    /\ mq' = {m \in Members : members[m].status.phase # "Absent"}
    /\ cq' = TRUE
    /\ UNCHANGED <<cluster, members, pods, pvcs, certs, etcd, infra, now>>

Crash          == cc.pc # "panicked" /\ Fault /\ RestartManager
RestartOnPanic == cc.pc = "panicked" /\ RestartManager /\ UNCHANGED used

KubeletStep(m) == PodReady(m) \/ PodGone(m) \/ PvcGone(m) \/ IssueCertificates(m)

Mishap(m) ==
    \/ PodRecovers(m) \/ PodFails(m) \/ PodEvicted(m)
    \/ \E suffix \in Suffixes : RenewCertificate(m, suffix)

EnvironmentStep ==
    \/ ChangeVersion \/ Tick \/ Crash \/ RestartOnPanic
    \/ \E m \in Members : KubeletStep(m) \/ Mishap(m)
=============================================================================
