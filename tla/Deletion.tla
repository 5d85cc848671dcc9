------------------------------ MODULE Deletion ------------------------------
(***************************************************************************)
(* The deletion of a cluster that `create' has made: the command deletes   *)
(* the Cluster, the garbage collector what the Cluster owns, and, when it  *)
(* has let its finalizer go, the cluster controller the secrets, which     *)
(* nobody owns.  cert-manager and both controllers may still be at work.   *)
(*                                                                         *)
(* Of the objects a member owns only the certificates are modelled, since  *)
(* secrets come of them; the CA's stands for all that the Cluster owns     *)
(* beside its Members.                                                     *)
(***************************************************************************)
EXTENDS Naturals, FiniteSets

CONSTANTS
    Members,
    Suffixes,    \* the certificates of a member: client and peer
    Lagging,     \* may the copy of the secrets lag? a set of answers
    MaxWrites,   \* bound: the secrets cert-manager writes during the deletion
    MaxFaults    \* bound: failed calls and crashes

ASSUME DeletionParameters ==
    Lagging \subseteq BOOLEAN /\ MaxWrites \in Nat /\ MaxFaults \in Nat

VARIABLES
    cluster,   \* the Cluster: is it being deleted, which finalizers has it
    members,   \* none, alive or deleting
    certs,     \* the Certificates
    secrets,   \* their secrets, all with the label of the cluster
    issuing,   \* the certificates cert-manager writes a secret for
    late,      \* Members and secrets written after the collector had finished
    scache,    \* the informer's copy of the secrets
    lagging,   \* whether it may be old in this behaviour
    cq, cw,    \* the cluster controller: is the key queued, the worker
    mq, mw,    \* the member controller
    cmd,       \* the delete command
    used       \* how much of each bound

store == <<cluster, members, certs, secrets, issuing, late>>
controllers == <<cq, cw, mq, mw>>
vars == <<store, scache, lagging, controllers, cmd, used>>

CA == <<"ca">>
CertificatesOf(m) == {<<m, suffix>> : suffix \in Suffixes}
Certificates == {CA} \cup UNION {CertificatesOf(m) : m \in Members}

Gone(c) == c.deleting /\ c.finalizers = {}

IdleClusterWorker == [pc |-> "idle", todo |-> {}]
IdleMemberWorker(m) == [pc |-> "idle", m |-> m, todo |-> {}]

Init ==
    /\ cluster = [deleting |-> FALSE, finalizers |-> {"foreground", "cleanup"}]
    /\ members = [m \in Members |-> "none"]
    /\ certs = {} /\ secrets = {} /\ issuing = {} /\ late = {}
    /\ scache = {} /\ lagging \in Lagging
    /\ cq = TRUE /\ cw = IdleClusterWorker
    /\ mq = {} /\ \E m \in Members : mw = IdleMemberWorker(m)
    /\ cmd = [pc |-> "delete", seen |-> FALSE]
    /\ used = [writes |-> 0, faults |-> 0]

Fault == used.faults < MaxFaults /\ used' = [used EXCEPT !.faults = @ + 1]

\* The collector has nothing more to wait for: what is written now is late.
Late(objects) ==
    late' = IF "foreground" \in cluster.finalizers THEN late ELSE late \cup objects

-----------------------------------------------------------------------------
(* Cluster controller *)

ClusterWorker(pc) ==
    /\ cw.pc = pc
    /\ UNCHANGED <<issuing, scache, lagging, mw>>

ClusterReturns(again) == cw' = IdleClusterWorker /\ cq' = again

\* Mutant: the members are not waited for.
GetClusterAtOnce ==
    /\ ClusterWorker("idle") /\ cq
    /\ IF Gone(cluster) THEN ClusterReturns(FALSE)
       ELSE /\ cq' = FALSE
            /\ cw' = IF cluster.deleting THEN [pc |-> "list", todo |-> {}]
                     ELSE [pc |-> "ensure", todo |-> {}]
    /\ UNCHANGED <<cluster, members, certs, secrets, late, mq, used>>

\* Reconcile, and the finalizer CleanupSecrets asks for first.
GetCluster ==
    /\ ClusterWorker("idle") /\ cq
    /\ \/ Gone(cluster) /\ ClusterReturns(FALSE)
       \/ /\ cluster.deleting /\ "foreground" \in cluster.finalizers
          /\ ClusterReturns(TRUE)
       \/ /\ cluster.deleting /\ cluster.finalizers = {"cleanup"}
          /\ cw' = [pc |-> "list", todo |-> {}] /\ cq' = FALSE
       \/ /\ ~cluster.deleting
          /\ cw' = [pc |-> "ensure", todo |-> {}] /\ cq' = FALSE
    /\ UNCHANGED <<cluster, members, certs, secrets, late, mq, used>>

\* EnsureCA: a new certificate ends the reconcile.
EnsureCA ==
    /\ ClusterWorker("ensure")
    /\ certs' = certs \cup {CA}
    /\ \/ CA \notin certs /\ ClusterReturns(TRUE)
       \/ CA \in certs /\ cw' = [pc |-> "members", todo |-> Members] /\ UNCHANGED cq
    /\ UNCHANGED <<cluster, members, secrets, late, mq, used>>

\* EnsureMembers: one after the other, whatever has become of the Cluster.
EnsureMember(m) ==
    /\ ClusterWorker("members") /\ m \in cw.todo
    /\ members' = [members EXCEPT ![m] = IF @ = "none" THEN "alive" ELSE @]
    /\ IF members[m] = "none"
       THEN Late({m}) /\ cq' = TRUE /\ mq' = mq \cup {m}
       ELSE UNCHANGED <<late, cq, mq>>
    /\ cw' = [cw EXCEPT !.todo = @ \ {m}]
    /\ UNCHANGED <<cluster, certs, secrets, used>>

MembersEnsured ==
    /\ ClusterWorker("members") /\ cw.todo = {}
    /\ cw' = IdleClusterWorker
    /\ UNCHANGED <<cluster, members, certs, secrets, late, cq, mq, used>>

ListSecrets ==
    /\ ClusterWorker("list")
    /\ cw' = [pc |-> "delete", todo |-> scache]
    /\ UNCHANGED <<cluster, members, certs, secrets, late, cq, mq, used>>

\* A secret that is gone already is an error as well, and the list is made again.
DeleteSecret(s) ==
    /\ ClusterWorker("delete") /\ s \in cw.todo
    /\ secrets' = secrets \ {s}
    /\ IF s \in secrets THEN cw' = [cw EXCEPT !.todo = @ \ {s}] /\ UNCHANGED cq
       ELSE ClusterReturns(TRUE)
    /\ UNCHANGED <<cluster, members, certs, late, mq, used>>

\* The Update may be refused because the Cluster was written since it was read.
RemoveFinalizer ==
    /\ ClusterWorker("delete") /\ cw.todo = {}
    /\ cluster' = [cluster EXCEPT !.finalizers = @ \ {"cleanup"}]
    /\ ClusterReturns(TRUE)
    /\ UNCHANGED <<members, certs, secrets, late, mq, used>>

\* Mutant of CleanupFails: the error is not returned.
CleanupFailsUnnoticed ==
    /\ ClusterWorker("delete") /\ Fault
    /\ ClusterReturns(FALSE)
    /\ UNCHANGED <<cluster, members, certs, secrets, late, mq>>

\* A call fails, with or without its effect; what was done is found next time.
CleanupFails ==
    /\ ClusterWorker("delete") /\ Fault
    /\ ClusterReturns(TRUE)
    /\ \/ UNCHANGED <<cluster, secrets>>
       \/ \E s \in cw.todo : secrets' = secrets \ {s} /\ UNCHANGED cluster
       \/ /\ cw.todo = {} /\ UNCHANGED secrets
          /\ cluster' = [cluster EXCEPT !.finalizers = @ \ {"cleanup"}]
    /\ UNCHANGED <<members, certs, late, mq>>

ClusterWorkerStep ==
    \/ GetCluster \/ EnsureCA \/ MembersEnsured \/ ListSecrets \/ RemoveFinalizer
    \/ \E m \in Members : EnsureMember(m)
    \/ \E s \in cw.todo : DeleteSecret(s)

-----------------------------------------------------------------------------
(* Member controller *)

MemberWorker(pc) ==
    /\ mw.pc = pc
    /\ UNCHANGED <<cluster, members, secrets, issuing, late, scache, lagging, cq, cw, used>>

GetMember(m) ==
    /\ MemberWorker("idle") /\ m \in mq
    /\ mq' = mq \ {m}
    /\ mw' = IF members[m] = "alive"
             THEN [pc |-> "certificates", m |-> m, todo |-> Suffixes] ELSE mw
    /\ UNCHANGED certs

\* One certificate after the other, whatever has become of the Member ...
EnsureCertificate(suffix) ==
    /\ MemberWorker("certificates") /\ suffix \in mw.todo
    /\ certs' = certs \cup {<<mw.m, suffix>>}
    /\ mw' = [mw EXCEPT !.todo = @ \ {suffix}]
    /\ UNCHANGED mq

\* ... which is queued again while one of them is not issued.
CertificatesEnsured ==
    /\ MemberWorker("certificates") /\ mw.todo = {}
    /\ mw' = IdleMemberWorker(mw.m)
    /\ mq' = IF CertificatesOf(mw.m) \subseteq secrets THEN mq ELSE mq \cup {mw.m}
    /\ UNCHANGED certs

MemberWorkerStep ==
    \/ CertificatesEnsured
    \/ \E m \in Members : GetMember(m)
    \/ \E suffix \in Suffixes : EnsureCertificate(suffix)

-----------------------------------------------------------------------------
(* Garbage collector: the foreground deletion of what the Cluster owns, and *)
(* that of what has lost its owner.                                         *)

Collects == UNCHANGED <<secrets, issuing, scache, lagging, cw, mw, used>>

ClusterGoes ==
    cluster.deleting /\ ("foreground" \in cluster.finalizers \/ cluster.finalizers = {})

CollectMember(m) ==
    /\ Collects
    /\ \/ members[m] = "alive" /\ ClusterGoes /\ members' = [members EXCEPT ![m] = "deleting"]
       \/ /\ members[m] = "deleting" /\ CertificatesOf(m) \cap certs = {}
          /\ members' = [members EXCEPT ![m] = "none"]
    /\ cq' = TRUE
    /\ UNCHANGED <<cluster, certs, late, mq>>

\* Owns(&certv1.Certificate{}) queues the member.
CollectCertificate(c) ==
    /\ Collects
    /\ c \in certs
    /\ \/ c = CA /\ ClusterGoes /\ UNCHANGED mq
       \/ \E m \in Members :
             c \in CertificatesOf(m) /\ members[m] # "alive" /\ mq' = mq \cup {m}
    /\ certs' = certs \ {c}
    /\ UNCHANGED <<cluster, members, late, cq>>

DependentsDeleted ==
    /\ Collects
    /\ cluster.deleting /\ "foreground" \in cluster.finalizers
    /\ \A m \in Members : members[m] = "none"
    /\ CA \notin certs
    /\ cluster' = [cluster EXCEPT !.finalizers = @ \ {"foreground"}]
    /\ cq' = TRUE
    /\ UNCHANGED <<members, certs, late, mq>>

Collect ==
    \/ DependentsDeleted
    \/ \E m \in Members : CollectMember(m)
    \/ \E c \in Certificates : CollectCertificate(c)

-----------------------------------------------------------------------------
(* cert-manager, informers, and the process *)

\* A certificate without a secret is seen ...
Issue(c) ==
    /\ c \in certs \ secrets /\ c \notin issuing
    /\ issuing' = issuing \cup {c}
    /\ UNCHANGED <<cluster, members, certs, secrets, late, scache, lagging, controllers, used>>

\* ... and its secret is written, be the certificate still there or not.
WriteSecret(c) ==
    /\ c \in issuing
    /\ IF cluster.deleting
       THEN used.writes < MaxWrites /\ used' = [used EXCEPT !.writes = @ + 1]
       ELSE UNCHANGED used
    /\ issuing' = issuing \ {c} /\ secrets' = secrets \cup {c}
    /\ Late({c})
    /\ UNCHANGED <<cluster, members, certs, scache, lagging, controllers>>

\* The copy lags in some behaviours.  It is read by nobody before the deletion.
Settled == scache = secrets \/ (lagging /\ cluster.deleting)

SyncSecrets ==
    /\ scache # secrets
    /\ scache' = secrets
    /\ UNCHANGED <<store, lagging, controllers, used>>

Crash ==
    /\ Fault
    /\ scache' = secrets
    /\ cq' = TRUE /\ cw' = IdleClusterWorker
    /\ mq' = {m \in Members : members[m] # "none"} /\ mw' = IdleMemberWorker(mw.m)
    /\ UNCHANGED <<store, lagging>>

-----------------------------------------------------------------------------
(* The delete command *)

Commands == UNCHANGED <<members, certs, secrets, issuing, late, scache, lagging, cw, mq, mw, used>>

SendDelete ==
    /\ cmd.pc = "delete" /\ Commands
    /\ cluster' = [cluster EXCEPT !.deleting = TRUE] /\ cq' = TRUE
    /\ cmd' = [cmd EXCEPT !.pc = "deleted"]

Goes(pc) == Commands /\ cmd' = [cmd EXCEPT !.pc = pc] /\ UNCHANGED <<cluster, cq>>

StartWait == cmd.pc = "deleted" /\ Goes("wait")
Report    == cmd.pc = "wait" /\ cmd.seen /\ Goes("done")

\* Watch fails or ends, or a Cluster of the same name is deleted elsewhere.
GoAstray == cmd.pc \in {"deleted", "wait"} /\ ~cmd.seen /\ Goes("astray")

CommandStep == SendDelete \/ StartWait \/ Report

\* Mutant of Watching: the watch begins with Wait.
WatchingLate == cmd.pc = "wait"
Watching == cmd.pc \in {"delete", "deleted", "wait"}

\* Only an event of type Deleted counts.
Observe ==
    cmd' = [cmd EXCEPT !.seen = @ \/ (cluster' # cluster /\ Watching /\ Gone(cluster'))]

-----------------------------------------------------------------------------

CertManagerStep == \E c \in Certificates : Issue(c) \/ WriteSecret(c)
Step == ClusterWorkerStep \/ CleanupFails \/ MemberWorkerStep \/ Collect \/ CertManagerStep \/ Crash

Next ==
    \/ (SyncSecrets \/ (Settled /\ Step)) /\ Observe
    \/ Settled /\ (CommandStep \/ GoAstray)

\* Workers go on, the collector collects, informers deliver; cert-manager need
\* not do anything.
Spec ==
    /\ Init /\ [][Next]_vars
    /\ WF_vars(SyncSecrets /\ Observe)
    /\ WF_vars(Settled /\ ClusterWorkerStep /\ Observe)
    /\ WF_vars(Settled /\ MemberWorkerStep /\ Observe)
    /\ WF_vars(Settled /\ Collect /\ Observe)
    /\ WF_vars(Settled /\ CommandStep)

-----------------------------------------------------------------------------

Command == [pc : {"delete", "deleted", "wait", "done", "astray"}, seen : BOOLEAN]

\* Every variable keeps its type, the cleanup waits for the collector, and so
\* does the finalizer (cluster_controller.go:334).
DeletionTypeOK ==
    /\ cluster \in [deleting : BOOLEAN, finalizers : SUBSET {"foreground", "cleanup"}]
    /\ members \in [Members -> {"none", "alive", "deleting"}]
    /\ certs \subseteq Certificates /\ issuing \subseteq Certificates
    /\ secrets \subseteq Certificates /\ scache \subseteq Certificates
    /\ late \subseteq Certificates \cup Members /\ lagging \in BOOLEAN
    /\ cq \in BOOLEAN /\ mq \subseteq Members
    /\ cw \in [pc : {"idle", "ensure", "members", "list", "delete"},
               todo : SUBSET (Certificates \cup Members)]
    /\ mw \in [pc : {"idle", "certificates"}, m : Members, todo : SUBSET Suffixes]
    /\ cmd \in Command
    /\ used \in [writes : 0 .. MaxWrites, faults : 0 .. MaxFaults]
    /\ cw.pc \in {"list", "delete"} \/ "cleanup" \notin cluster.finalizers
          => cluster.deleting /\ "foreground" \notin cluster.finalizers

Left == secrets \cup {m \in Members : members[m] # "none"}

\* When the Cluster is gone no secret and no Member is left, except those that
\* were written after the collector had let it go: by a worker that had read the
\* Cluster or the Member before, or by cert-manager (cluster_controller.go:334-352).
NothingLeft == Gone(cluster) /\ ~lagging => Left \subseteq late

\* A Cluster that is deleted goes, whatever cert-manager and the caches do, when
\* calls fail and when the process restarts (cluster_controller.go:334, 347-353).
DeletionEnds == cluster.deleting ~> Gone(cluster)

\* The command ends when it is so: the event of the deletion is not missed
\* (delete.go:57-74).
DeleteCommandEnds == (cmd.pc = "delete") ~> (cmd.pc = "astray" \/ (cmd.pc = "done" /\ Gone(cluster)))
=============================================================================
