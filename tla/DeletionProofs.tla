--------------------------- MODULE DeletionProofs ---------------------------
(***************************************************************************)
(* What a deletion leaves behind: DeletionTypeOK, which is inductive, and  *)
(* NothingLeft, for which LeftInv says of the time after the collector has *)
(* finished that what is there is late or on the list of the worker.       *)
(***************************************************************************)
EXTENDS Deletion, TLAPS

CollectorDone == "foreground" \notin cluster.finalizers

LeftInv ==
    ~lagging /\ CollectorDone =>
        /\ \A m \in Members : members[m] # "none" => m \in late
        /\ cw.pc = "delete" => secrets \subseteq late \cup cw.todo
        /\ "cleanup" \notin cluster.finalizers => secrets \subseteq late

DeletionInv == DeletionTypeOK /\ LeftInv

LEMMA CertificatesType ==
    /\ CA \in Certificates
    /\ \A m \in Members, suffix \in Suffixes : <<m, suffix>> \in Certificates
  BY DEF Certificates, CertificatesOf

\* An event of the Cluster reaches the command or it does not.
LEMMA ObserveType ==
    ASSUME cmd \in Command, Observe
    PROVE  cmd' \in Command
  <1> DEFINE event == cluster' # cluster /\ Watching /\ Gone(cluster')
  <1>1. CASE event
    <2>1. cmd' = [cmd EXCEPT !.seen = TRUE]
      BY <1>1, Zenon DEF Observe
    <2> QED BY <2>1 DEF Command
  <1>2. CASE ~event
    <2>1. cmd' = [cmd EXCEPT !.seen = cmd.seen \/ FALSE]
      BY <1>2, Zenon DEF Observe
    <2>2. CASE cmd.seen
      BY <2>1, <2>2 DEF Command
    <2>3. CASE ~cmd.seen
      BY <2>1, <2>3 DEF Command
    <2> QED BY <2>2, <2>3
  <1> QED BY <1>1, <1>2

LEMMA DeletionInit == Init => DeletionInv
  <1> SUFFICES ASSUME Init PROVE DeletionInv
    OBVIOUS
  <1>1. DeletionTypeOK
    BY DeletionParameters DEF Init, DeletionTypeOK, Command, IdleClusterWorker, IdleMemberWorker
  <1>2. LeftInv
    BY DEF Init, LeftInv, CollectorDone
  <1> QED BY <1>1, <1>2 DEF DeletionInv

\* The cluster controller: while it cleans up the list covers what is not late.
LEMMA ClusterWorkerPreserves ==
    ASSUME DeletionInv, Settled, ClusterWorkerStep \/ CleanupFails, Observe
    PROVE  DeletionInv'
  <1> USE DEF DeletionInv
  <1>1. CASE GetCluster
    <2>a. /\ ClusterWorker("idle") /\ UNCHANGED <<cluster, members, certs, secrets, late, mq, used>>
          /\ \/ cw' = [pc |-> "idle", todo |-> {}]
             \/ /\ cw' = [pc |-> "list", todo |-> {}]
                /\ cluster.deleting /\ cluster.finalizers = {"cleanup"}
             \/ cw' = [pc |-> "ensure", todo |-> {}]
      BY <1>1, Zenon DEF GetCluster, ClusterReturns, IdleClusterWorker
    <2>b. cq' \in BOOLEAN
      BY <1>1, Zenon DEF GetCluster, ClusterReturns
    <2>1. DeletionTypeOK'
      BY <2>a, <2>b, ObserveType DEF DeletionTypeOK, ClusterWorker
    <2>2. LeftInv'
      BY <1>1 DEF LeftInv, CollectorDone, GetCluster, ClusterWorker, ClusterReturns, IdleClusterWorker
    <2> QED BY <2>1, <2>2
  <1>2. CASE EnsureCA
    <2>a. cw' = [pc |-> "idle", todo |-> {}] \/ cw' = [pc |-> "members", todo |-> Members]
      BY <1>2, Zenon DEF EnsureCA, ClusterReturns, IdleClusterWorker
    <2>b. cq' = cq \/ cq' = TRUE
      BY <1>2, Zenon DEF EnsureCA, ClusterReturns
    <2>c. cq' \in BOOLEAN
      BY <2>b, Zenon DEF DeletionTypeOK
    <2>d. ClusterWorker("ensure") /\ certs' = certs \cup {CA}
          /\ UNCHANGED <<cluster, members, secrets, late, mq, used>>
      BY <1>2 DEF EnsureCA
    <2>1. DeletionTypeOK'
      BY <2>a, <2>c, <2>d, CertificatesType, ObserveType DEF DeletionTypeOK, ClusterWorker
    <2>2. LeftInv'
      BY <1>2 DEF LeftInv, CollectorDone, EnsureCA, ClusterWorker, ClusterReturns, IdleClusterWorker
    <2> QED BY <2>1, <2>2
  <1>3. ASSUME NEW m \in Members, EnsureMember(m) PROVE DeletionInv'
    <2>1. DeletionTypeOK'
      BY <1>3, ObserveType DEF DeletionTypeOK, EnsureMember, ClusterWorker, Late
    <2>2. LeftInv'
      BY <1>3 DEF DeletionTypeOK, LeftInv, CollectorDone, EnsureMember, ClusterWorker, Late
    <2> QED BY <2>1, <2>2
  <1>4. CASE MembersEnsured
    <2>1. DeletionTypeOK'
      BY <1>4, ObserveType DEF DeletionTypeOK, MembersEnsured, ClusterWorker, IdleClusterWorker
    <2>2. LeftInv'
      BY <1>4 DEF LeftInv, CollectorDone, MembersEnsured, ClusterWorker, IdleClusterWorker
    <2> QED BY <2>1, <2>2
  <1>5. CASE ListSecrets
    <2>1. DeletionTypeOK'
      BY <1>5, ObserveType DEF DeletionTypeOK, ListSecrets, ClusterWorker
    <2>2. LeftInv'
      BY <1>5 DEF LeftInv, CollectorDone, ListSecrets, ClusterWorker, Settled
    <2> QED BY <2>1, <2>2
  <1>6. ASSUME NEW s \in cw.todo, DeleteSecret(s) PROVE DeletionInv'
    <2>a. cw' = [cw EXCEPT !.todo = @ \ {s}] \/ cw' = [pc |-> "idle", todo |-> {}]
      BY <1>6, Zenon DEF DeleteSecret, ClusterReturns, IdleClusterWorker
    <2>b. cq' = cq \/ cq' = TRUE
      BY <1>6, Zenon DEF DeleteSecret, ClusterReturns
    <2>c. cq' \in BOOLEAN
      BY <2>b, Zenon DEF DeletionTypeOK
    <2>d. ClusterWorker("delete") /\ secrets' = secrets \ {s}
          /\ UNCHANGED <<cluster, members, certs, late, mq, used>>
      BY <1>6 DEF DeleteSecret
    <2>1. DeletionTypeOK'
      BY <2>a, <2>c, <2>d, ObserveType DEF DeletionTypeOK, ClusterWorker
    <2>2. LeftInv'
      BY <1>6 DEF DeletionTypeOK, LeftInv, CollectorDone, DeleteSecret, ClusterWorker, ClusterReturns, IdleClusterWorker
    <2> QED BY <2>1, <2>2
  <1>7. CASE RemoveFinalizer
    <2>1. DeletionTypeOK'
      BY <1>7, ObserveType DEF DeletionTypeOK, RemoveFinalizer, ClusterWorker, ClusterReturns, IdleClusterWorker
    <2>2. LeftInv'
      BY <1>7 DEF DeletionTypeOK, LeftInv, CollectorDone, RemoveFinalizer, ClusterWorker, ClusterReturns, IdleClusterWorker
    <2> QED BY <2>1, <2>2
  <1>8. CASE CleanupFails
    <2>1. DeletionTypeOK'
      BY <1>8, DeletionParameters, ObserveType DEF DeletionTypeOK, CleanupFails, Fault, ClusterWorker, ClusterReturns, IdleClusterWorker
    <2>2. LeftInv'
      BY <1>8 DEF DeletionTypeOK, LeftInv, CollectorDone, CleanupFails, ClusterWorker, ClusterReturns, IdleClusterWorker
    <2> QED BY <2>1, <2>2
  <1> QED BY <1>1, <1>2, <1>3, <1>4, <1>5, <1>6, <1>7, <1>8 DEF ClusterWorkerStep

LEMMA MemberWorkerPreserves ==
    ASSUME DeletionInv, MemberWorkerStep, Observe
    PROVE  DeletionInv'
  <1> USE DEF DeletionInv
  <1>1. ASSUME NEW m \in Members, GetMember(m) PROVE DeletionInv'
    <2>1. DeletionTypeOK'
      BY <1>1, ObserveType DEF DeletionTypeOK, GetMember, MemberWorker
    <2>2. LeftInv'
      BY <1>1 DEF LeftInv, CollectorDone, GetMember, MemberWorker
    <2> QED BY <2>1, <2>2
  <1>2. ASSUME NEW suffix \in Suffixes, EnsureCertificate(suffix) PROVE DeletionInv'
    <2>1. DeletionTypeOK'
      BY <1>2, CertificatesType, ObserveType DEF DeletionTypeOK, EnsureCertificate, MemberWorker
    <2>2. LeftInv'
      BY <1>2 DEF LeftInv, CollectorDone, EnsureCertificate, MemberWorker
    <2> QED BY <2>1, <2>2
  <1>3. CASE CertificatesEnsured
    <2>1. DeletionTypeOK'
      BY <1>3, ObserveType DEF DeletionTypeOK, CertificatesEnsured, MemberWorker, IdleMemberWorker
    <2>2. LeftInv'
      BY <1>3 DEF LeftInv, CollectorDone, CertificatesEnsured, MemberWorker
    <2> QED BY <2>1, <2>2
  <1> QED BY <1>1, <1>2, <1>3 DEF MemberWorkerStep

\* The collector: when it has finished no Member is left.
LEMMA CollectPreserves ==
    ASSUME DeletionInv, Collect, Observe
    PROVE  DeletionInv'
  <1> USE DEF DeletionInv
  <1>1. CASE DependentsDeleted
    <2>1. DeletionTypeOK'
      BY <1>1, ObserveType DEF DeletionTypeOK, DependentsDeleted, Collects
    <2>2. LeftInv'
      BY <1>1 DEF DeletionTypeOK, LeftInv, CollectorDone, DependentsDeleted, Collects
    <2> QED BY <2>1, <2>2
  <1>2. ASSUME NEW m \in Members, CollectMember(m) PROVE DeletionInv'
    <2>1. DeletionTypeOK'
      BY <1>2, ObserveType DEF DeletionTypeOK, CollectMember, Collects
    <2>2. LeftInv'
      BY <1>2 DEF DeletionTypeOK, LeftInv, CollectorDone, CollectMember, Collects
    <2> QED BY <2>1, <2>2
  <1>3. ASSUME NEW c \in Certificates, CollectCertificate(c) PROVE DeletionInv'
    <2>1. DeletionTypeOK'
      BY <1>3, ObserveType DEF DeletionTypeOK, CollectCertificate, Collects
    <2>2. LeftInv'
      BY <1>3 DEF LeftInv, CollectorDone, CollectCertificate, Collects
    <2> QED BY <2>1, <2>2
  <1> QED BY <1>1, <1>2, <1>3 DEF Collect

\* cert-manager, the informer, a crash and the command.
LEMMA OthersPreserve ==
    ASSUME DeletionInv,
           \/ (CertManagerStep \/ SyncSecrets \/ Crash) /\ Observe
           \/ CommandStep \/ GoAstray
    PROVE  DeletionInv'
  <1> USE DEF DeletionInv
  <1>1. ASSUME NEW c \in Certificates, Issue(c), Observe PROVE DeletionInv'
    <2>1. DeletionTypeOK'
      BY <1>1, ObserveType DEF DeletionTypeOK, Issue, controllers
    <2>2. LeftInv'
      BY <1>1 DEF LeftInv, CollectorDone, Issue, controllers
    <2> QED BY <2>1, <2>2
  <1>2. ASSUME NEW c \in Certificates, WriteSecret(c), Observe PROVE DeletionInv'
    <2>1. DeletionTypeOK'
      BY <1>2, DeletionParameters, ObserveType DEF DeletionTypeOK, WriteSecret, Late, controllers
    <2>2. LeftInv'
      BY <1>2 DEF LeftInv, CollectorDone, WriteSecret, Late, controllers
    <2> QED BY <2>1, <2>2
  <1>3. CASE SyncSecrets /\ Observe
    <2>1. DeletionTypeOK'
      BY <1>3, ObserveType DEF DeletionTypeOK, SyncSecrets, store, controllers
    <2>2. LeftInv'
      BY <1>3 DEF LeftInv, CollectorDone, SyncSecrets, store, controllers
    <2> QED BY <2>1, <2>2
  <1>4. CASE Crash /\ Observe
    <2>1. DeletionTypeOK'
      BY <1>4, DeletionParameters, ObserveType DEF DeletionTypeOK, Crash, Fault, store, IdleClusterWorker, IdleMemberWorker
    <2>2. LeftInv'
      BY <1>4 DEF LeftInv, CollectorDone, Crash, store, IdleClusterWorker
    <2> QED BY <2>1, <2>2
  <1>5. CASE CommandStep \/ GoAstray
    <2>1. DeletionTypeOK'
      BY <1>5 DEF DeletionTypeOK, Command, CommandStep, GoAstray, SendDelete, StartWait, Report, Goes, Commands
    <2>2. LeftInv'
      BY <1>5 DEF DeletionTypeOK, LeftInv, CollectorDone, CommandStep, GoAstray, SendDelete, StartWait, Report, Goes, Commands
    <2> QED BY <2>1, <2>2
  <1> QED BY <1>1, <1>2, <1>3, <1>4, <1>5 DEF CertManagerStep

LEMMA DeletionNext == DeletionInv /\ [Next]_vars => DeletionInv'
  <1> SUFFICES ASSUME DeletionInv, [Next]_vars PROVE DeletionInv'
    OBVIOUS
  <1>1. CASE UNCHANGED vars
    BY <1>1 DEF DeletionInv, DeletionTypeOK, LeftInv, CollectorDone, vars, store, controllers
  <1>2. CASE Next
    BY <1>2, ClusterWorkerPreserves, MemberWorkerPreserves, CollectPreserves, OthersPreserve
       DEF Next, Step
  <1> QED BY <1>1, <1>2

LEMMA DeletionInvariant == Spec => []DeletionInv
  BY DeletionInit, DeletionNext, PTL DEF Spec

\* Every variable keeps its type, and the cleanup waits for the collector.
THEOREM DeletionTypeCorrect == Spec => []DeletionTypeOK
  <1>1. DeletionInv => DeletionTypeOK
    BY DEF DeletionInv
  <1> QED BY <1>1, DeletionInvariant, PTL

\* With a copy of the secrets that keeps up, a deletion leaves no secret and no
\* Member behind, whatever fails and whoever restarts, but what is written after
\* the collector has finished.
THEOREM NothingIsLeft == Spec => []NothingLeft
  <1>1. DeletionInv => NothingLeft
    BY DEF DeletionInv, LeftInv, CollectorDone, NothingLeft, Left, Gone
  <1> QED BY <1>1, DeletionInvariant, PTL
=============================================================================
