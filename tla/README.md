# Verification of the etcd operator

TLA+ models of the operator in this repository, TLC configurations that check
them on small instances, and TLAPS proofs of theorems about them. Paths are
relative to the root of the repository, line numbers those of the commit the
models were written from.

## 1. The system

`main.go` runs one manager process with four controllers and an admission
webhook. Each controller has one worker and a queue of keys; informers keep a
cache of every kind it reads and queue the owner of an object that changed.

| component | source | state it keeps | operations |
|---|---|---|---|
| API objects | `api/v1alpha1/*_types.go` | `Cluster`, `Member`, `BackupSchedule`, `Backup`: spec and status, in the API server | `GetMember`, `GetPod`, `GetState`, `ShouldUpdate`, `SetFailed`, ... : pure functions of them |
| cluster controller | `controllers/cluster_controller.go` | none of its own; writes `Cluster.Status`, creates members, sets their version, broken mark and certificate flag | `Reconcile`: ensure service, CA, issuer, schedule; ensure members and derive the phase; repair one member; update one member; record the version; deletion |
| member controller | `controllers/member_controller.go` | none of its own; writes `Member.Status`, owns a pod, a claim and two certificates | `Reconcile`: repair (delete pod and claim, re-add to etcd, record), ensure certificates, check their age, ensure the claim, replace a pod that is out of date, ensure the pod and observe it |
| webhook | `api/v1alpha1/cluster_webhook.go` | none | admits odd sizes; refuses a change of version while `Updating`, of the size, of the backup |
| backup controller | `controllers/backup_controller.go` | `Backup.Status`, objects in the bucket | snapshot and upload, removal after the retention period |
| schedule controller | `controllers/backupschedule_controller.go` | creates `Backup`s | list, wait, create |
| deletion | `Cluster.Finalizers`, `CleanupSecrets` in the cluster controller | two finalizers, the secrets of the certificates | the collector deletes what is owned, `CleanupSecrets` the secrets, which nobody owns |
| command line | `cmd/etcdops`, `pkg/cli` | none | create, update and delete: read, write, watch, wait; get and list: one read |
| around it | Kubernetes, etcd, cert-manager, S3 | pods, claims, membership, certificates, secrets, objects | external |

**How they interact.** Only through objects. The cluster controller orders work
by writing `Member.Spec` (`Version`, `Broken`, `CertificateUpdate`); the member
controller answers in `Member.Status` (`Phase`, `Version`, `FailedTime`,
`CertificateExpires`). The schedule controller orders a backup by creating a
`Backup`; the backup controller answers in `Backup.Status.Finished`. Reads come
from caches, which may be old; a write goes to the API server and is refused
when the object changed since the version that was read. The commands write the
`Cluster` like any client and wait for an event that shows its status as they
want it.

**What is hard.** A reconcile is a sequence of calls, each of which may fail,
and its status is written by a deferred function whose error is swallowed. A
decision is made on cached objects and carried out by another controller later.
Pods fail, recover and are evicted in between, users change the version,
certificates are renewed, and the process may die, or panic, anywhere. While a
cluster is deleted, workers that read it before and cert-manager still write.

**What makes it correct**, by component:

- cluster controller: it marks for repair at most one member, one that failed
  and the one that failed first, only while a minority is failed; a rolling
  update keeps a majority up; what the user asks for is applied in the end;
- member controller: a pod is created in a mode it can start in; data is wiped
  only while the member is marked; a version recorded is the one that runs; a pod
  is replaced only when it is out of date; a repair ends;
- repair as a whole: members are taken apart one by one, the next one not before
  the data of the last one is back;
- deletion: the cluster goes, and nothing that was written in time is left;
- commands: what they report is so, and they end;
- webhook: no change reaches a cluster in the middle of an update;
- backups: what is recorded as finished can be restored from; nothing is left
  behind in the bucket; backups follow one another a period apart, and go on.

`PROJECT.json` lists each component with its status, each hazard with the
property that covers it, and the lines each definition models.

## 2. Modules

    OperatorState ---+--- MemberController  ---+             +--- MCEtcdOps
      (variables,    +--- ClusterController ---+--- EtcdOps -+--- Cli --- MCCli
      object methods)+--- Environment       ---+      :      +--- EtcdOpsProofs
                                                      :             |
                           SingleRepair (INSTANCE) ....       RepairProofs
                                                                    |
                                     MarkProofs --- DataProofs --- RestartProofs
    Backups  --- BackupsProofs
    Deletion --- DeletionProofs

- **OperatorState**: constants and their assumptions, the variables, the types
  and the methods of `Cluster` and `Member` the controllers decide with. `members`
  is what the API server stores, `mcache` what the controllers read, `mlag` the
  members whose cached object is old; likewise for the cluster and the pods. One
  tick of `now` is `minorFailedTimeout`.
- **MemberController**: `mc` is the worker: the object it read (`obj`), whether
  that was the stored version (`fresh`, what the API server checks on a write), and
  the next call (`pc`). One action per call to the API server or etcd, so that
  anything may happen between two calls; code between two calls belongs to the
  action of the call before or after. `MemberWorkerFault` holds the failures.
- **ClusterController**: the same for `cc`. `EnsureMembers` reads, creates and
  assesses the members; `RepairMember` and `UpdateMember...` are the two loops.
- **Environment**: informers (`Sync...`), the user behind `ValidateUpdate`, the
  kubelet, etcd as far as starting a member needs it (`CanServe`), cert-manager,
  clock, crash. External, and as permissive as the code allows, except where
  section 6 says otherwise.
- **EtcdOps**: the composition, fairness and the properties.
- **SingleRepair**: the abstract specification of repair and its theorem, two sets of
  members: those under repair and those without their data. `EtcdOps` maps its stored marks
  and claims to them; `RepairsOneByOne` says that it implements it.
- **Cli**: one `create` or `update` command beside the operator. `cli` holds the
  next request (`pc`), whether the object read is still the stored one, and whether
  an event that ends the wait is on its way. What the code leaves to chance (a
  watch that fails or ends, a namesake in another namespace) makes it go "astray".
- **Deletion**: the `delete` command, the garbage collector and `CleanupSecrets`
  against both workers, cert-manager, faults and an old copy of the secrets. It
  shares only the `Cluster` with the rest, and of the objects that are collected it
  keeps those that secrets come of, so it is a specification of its own. A worker
  goes on with what it read before, which stands for an old cached `Cluster` or
  `Member` as well. `late` records what was written after the collector was done.
- **Backups**: both backup controllers. They share nothing with the rest but the
  existence of the cluster (`owner`), so they are a specification of their own. A
  `Backup` is its name, the second it was created in, and the second it finished
  in; its upload is an element of `uploads`.

A definition marked as a mutant states a plausible mistake in the code; replacing
the definition after it by the mutant makes a property of a run fail, which is how
each property is known to bite.

## 3. Runs

`tlc -config X.cfg M.tla`, M being `MCCli`, `MCEtcdOps`, `Backups` or `Deletion`.

| run | module | instance | checks |
|---|---|---|---|
| `create` | `MCCli` | the create command, one new member, restored from a backup, every cache lags | `Converges`, `ReportTruth`, `CommandEnds` |
| `single3` | `MCCli` | three members, one event: an update command, a renewal or a failure | `QuorumKept`, `VersionTruth`, `Converges`, `ReportTruth`, `CommandEnds`, `PeerRenewalPickedUp`, `NoNeedlessRestart`, `RepairCompletes` |
| `faults` | `MCEtcdOps` | one new member; one fault, one version change, one renewal | `TypeOK`, `NewPodCanStart` |
| `repair3` | `MCEtcdOps` | three members, one failure, one fault, caches of clusters and members lag | `BrokenOnlyFailed`, `NewPodCanStart`, `NoHealthyWipe`, `RepairsOneByOne` |
| `repair3_minority` | `MCEtcdOps` | three members, two failures | `RepairOnlyMinority` |
| `repair5` | `MCEtcdOps` | five members, two failures | `RepairOneAtATime`, `DataKept`, `LongestFailedFirst`, `RepairsOneByOne` |
| `backups` | `Backups` | two Backups, cache up to date or lagging, one fault or overtaken timer, deletion of the cluster | `BackupTypeOK`, `FinishedHasUpload`, `NoOrphanUpload`, `OneInProgress`, `PeriodKept`, `ExpiredGoes`, `ScheduleGoesOn` |
| `deletion` | `Deletion` | one member, one certificate, one fault, copy of the secrets up to date or lagging | `DeletionTypeOK`, `NothingLeft`, `DeletionEnds`, `DeleteCommandEnds` |
| `version_lost`, `reply_lost`, `client_cert`, `update_waits` | | see section 4 | fail |

**Bounds.** `Size` is 1 where the question is about one member and its
controller, 3 where it is about a majority, 5 where two members may fail and a
majority must remain. `MaxTime = 2` is one timeout, enough for a failed member to
become overdue and for two to fail at different times; the clock moves only once
something has failed (`TimeMatters`), since only failures are timed. A member that
fails when the clock has stopped is never repaired, which `Converges` excepts.
`MaxFailures`, `MaxChanges`, `MaxRenewals` and `MaxFaults` are budgets, `MaxEvents`
one for the first three together: a run gives the ones its question needs, and
section 6 says what happens when they are combined. An update command is one more
event (`Undisturbed`). A pod that fails may recover and be evicted; a fault may hit
any call, with or without its effect where that matters, or be a crash. In
`backups` four seconds see a Backup created, finished, expired and removed, and the
next one created. In `deletion` the one certificate of the member and that of the
CA are deleted at different times, in different ways, and each may be written
again: `MaxWrites = 2` lets cert-manager do that for both, or twice for one; writes
before the deletion are not counted.

**Deadlock** is not checked: with nothing left to wait for, both controllers are
idle. That they do not stop too early is what the liveness properties say.

**Fairness.** A worker goes on and takes queued keys (the queue is first in,
first out, and a failed key is queued again); informers deliver; deleted objects go
away, a new pod that can start becomes ready and certificates are issued;
Kubernetes restarts a process that panicked; time passes; timers fire. Strong
fairness is used where a cache that does not lag is brought up to date first,
which disables the step for a moment. Nothing is assumed of failures, faults, the
user or an unready pod: `RepairCompletes` does not rely on the pod recovering. A
command goes on as any process does. In `Deletion` the workers, the collector and
the informer go on; cert-manager need not.

## 4. Where the code disagrees with what it says

- `version_lost`: a version asked for while the cluster is being created is
  recorded as `Status.Version` (`cluster_controller.go:109`) though the members
  were created with the old one; no member ever gets it.
- `reply_lost`: when the reply of `MemberAdd` is lost, or the process dies before
  the phase is recorded, the next repair does not find the entry by name (an added
  member that has not started has none), `MemberAdd` is refused for its peer URL,
  and the repair is retried for ever (`member_controller.go:278, 290`).
- `client_cert`: the loop over the two certificates assigns `CertificateExpires`
  twice, so the renewal of the client certificate alone is overlooked
  (`member_controller.go:198-214`).
- `update_waits`: an update that asks for a period and no version waits for the
  empty version, which is never recorded (`update.go:107`).

## 5. Proofs

TLAPS checks these for every value of the constants the assumptions admit:
`SizeAssumption` (any odd size, also the negative ones Go's `%` lets through),
`VersionAssumption`, `FlagAssumption`, `BoundAssumption`, `BackupParameters`,
`DeletionParameters`. Further assumptions are named with the theorem that needs
them, and why.

**The operator.** `RepairProofs`, `MarkProofs`, `DataProofs` and `RestartProofs` extend
one another. The first two say in one lemma each what the cluster controller (`ClusterEffect`),
the member controller (`WorkerEffect`) and everything else (`OutsideEffect`) may do
to the members; the invariants are proved of those effects.

- `EtcdOpsProofs!TypeCorrect`: `Spec => []TypeOK`. `TypeOK` is inductive as it
  stands, since it says of each worker that the object it holds is of this
  cluster and that the index of the update loop is in range. One lemma per action.
- `RepairProofs!RepairsOneAtATime`: `Spec => []RepairOneAtATime`. It is not
  inductive: `RepairMembers` may run again on a cache that does not show the mark it
  just made. The invariant `Repairing` adds `CacheAgrees` (a cached member not known
  to be old is the stored one) and `MarkedOldest` (a mark the cache does not show
  is on the member that `RepairMembers`, run on this cache, would pick): it picks
  the same member again and the API server refuses the write. Every other action
  satisfies `MarksNone`, which preserves the invariant by one lemma.
- `MarkProofs!RepairsOnlyMinority`: `Spec => RepairOnlyMinority`, from the same
  invariant, for a cache of members that does not lag (`"members" \notin Lagging`).
  The assumption is needed: the count is one of cached members, and TLC shows a mark
  while a majority is failed when the cache does not show the last failure yet.
- `MarkProofs!MarksLongestFailed`: `Spec => LongestFailedFirst`, whatever lags. The
  member picked failed first as far as the cache shows. The invariant `Dated` says
  that nothing failed in the future (`DatedInPast`), that a failure the cache does
  not show, or shows with another time, is not earlier than any it shows
  (`StoredLater`), and the same of what the member worker is about to record
  (`HeldLater`).
- `MarkProofs!MarksStandForFailures`: `Spec => []BrokenOnlyFailed`, and
  `NoDataDeletedUnmarked`: `Spec => NoHealthyWipe`, both whatever lags and fails, from
  the invariant `MarkMeans`. The danger is a worker that holds an old member: one read
  before the mark could record `Running` over it, one read with a mark that is gone
  could wipe the data that is back. `MarkMeans` says which members a worker may hold
  while it may still write (`FreshRead`, `FreshBroken`, `AfterRepair`), that a cached
  mark that is no longer stored is of a member that has been added to etcd and has no
  data, whose pod, if it has one, waits for a claim (`StaleMark`, `Wiped`), and that a repair of such a one stops at
  `MemberAdd` (`StaleRepair`).
- `DataProofs!NewPodsCanStart`: `Spec => []NewPodCanStart`, for clusters that are not
  made from a backup (`TRUE \notin FromBackup`) and pods that do not lag. Both are
  needed, see section 6. The invariant `DataFits` relates, for every member without
  data, what etcd knows of it to the phase that is stored (`StoredFits`), shown
  (`CachedFits`) and held by the worker (`HeldFits`, `StatusFits`), which is what the
  mode of its pod is derived from (`GetState`); and says that no pod of it has a claim
  until no trace of its repair is left in the store, the cache and the worker
  (`RepairHolds`).
- `SingleRepair!OneLost`: in the abstract repair at most one member is without its
  data; the invariant says that the member under repair and the one without data are
  the same. `RepairProofs!DataKeptByRepairs`: a cluster of three members or more that
  implements it keeps its data (`DataKept`).
- `DataProofs!RecordedRepairsOneByOne`: the refinement `RepairsOneByOne`, for clusters
  that run (`FALSE \notin Deployed`), pods that do not lag, any failures, faults and
  restarts, and every behaviour that satisfies `RepairIsRecorded`: the write of
  `Recreating` at the end of `Repair`, whose error is swallowed
  (`member_controller.go:232-236`), is never lost. Each step is mapped to one of
  `SingleRepair` or to a stutter. It needs that no member of a running cluster is
  new to etcd (`NoneNew`) and that one without data whose mark is gone is recorded as
  `Recreating` (`Rejoining`), which is how `RepairMembers` sees that it has to wait.
  The hypothesis is about the behaviour because TLC shows that the refinement fails
  without it: with that write lost and a second failure, two members are taken
  apart (section 6). With one failure, or without a fault, TLC finds nothing.
- `DataProofs!ImplementsSingleRepair`: the same without that hypothesis when no call
  fails (`MaxFaults = 0`). `RecordedRepairsKeepData`: hence `Spec /\ RepairIsRecorded
  => []DataKept` for three members or more.

- `RestartProofs!PodsRestartForCause`: `Spec /\ VersionStays => NoNeedlessRestart`, for
  pods and members that do not lag: while nobody asks for another version (`VersionStays`,
  a hypothesis about the behaviour and not a bound), any failures, renewals, faults and
  restarts, of a cluster of any size, new or running. The invariant `OneVersion` says that
  the store, the caches and the workers know one version only, so that a member is out
  of date for its certificate or not at all; `ReplaceDue` and `DeleteDue` say what the
  worker knows of the pod it is about to delete.
- `RestartProofs!RecordedRepairsRestartOnce`: the same with a cache of the members however
  old and with `RepairIsRecorded`. `RestartKnown` says that a repair begun again on an
  old member finds no pod: that of the member recreated waits for its claim, which is
  made in a later reconcile. TLC shows that each hypothesis is needed (section 6).
- `RestartProofs!MajorityServes`: `Spec /\ VersionStays => [](2 * Struck < Size =>
  QuorumKept)` for clusters that run, whatever lags, fails and restarts, where `Struck`
  counts failures, evictions and renewals. A member nothing happened to is `Steady`: its
  objects, its pod, its etcd and what the worker may hold of it are as deployed, and no
  step of either controller changes that; each strike makes one member unsteady
  (`FewUnsteady`). So no repair and no replacement ever takes down a member that is up.
- `RestartProofs!OneEventKeepsQuorum`: `Spec => []QuorumKept` for `MaxEvents = 1`, any size
  above one, faults, restarts and a lagging cluster, with caches of the members and pods that
  keep up. The event may be a change of the version. The invariant `Rolling` says that
  every member is `Up` with the old version or with the new one, or it is its `Turn`: it was
  told the new version and its pod is being replaced; that the lower ones of one that was
  told are up with the new version (`InOrder`), which is what the update loop has seen
  of those before its index; and that the cluster controller, having told one member,
  knows the new version however old its cache is (`VersionsKnown`).
- `RestartProofs!SameVersionReported`: `Spec /\ VersionStays => []VersionTruth`, for any
  cluster and whatever lags, fails and restarts, from `OneVersion` and `PodsAgree`.
  `RecordedChangeReported`: `Spec /\ StatusIsRecorded => []VersionTruth` for one event, a
  change of the version included, under the hypotheses of `OneEventKeepsQuorum`;
  `RecordedChangeRestartsOnce`: `NoNeedlessRestart` likewise. `TurnRecorded` says that a
  member that is still recorded as out of date has its old pod, or the worker that
  replaced it is about to say so. `StatusIsRecorded` is about the behaviour: no status
  write of the member controller fails for another reason than a conflict
  (`member_controller.go:70-74`) and no manager dies; every other call may fail. TLC shows
  that both properties fail when that write is lost (section 6).

**Backups.** `BackupsProofs!BackupTypeCorrect`, `FinishedCanBeRestored`,
`BackupsOneAtATime` and `PeriodIsKept`, from one invariant. `WorkerInv` says that a
worker which read a Backup as finished writes it as nothing else. `UploadInv` says of
the store, of the cache however old, and of the worker that what is finished there
has its upload or is past its retention period (`Restorable`). `ScheduleInv` says that
nothing is in progress, and a period is over, between the list and the creation
(`MayCreate`); the steps of the backup controller keep it since they only finish
or remove Backups (`Shrinks`).

`BackupsProofs!UploadsBelong`: `Spec => []NoOrphanUpload`. With a cache that keeps up the
worker's Backup is stored (`KeptUp`) and its object goes first (`ObjectFirst`). With one
that lags a worker may upload for a Backup that is gone; `OrphanInv` therefore says,
for behaviours without faults, that the retention period of such a one is over
(`GoneInv`, `QueueInv`, `HeldInv`), so that the same reconcile goes on to remove what
it uploaded. That holds because a Backup that is finished is queued again only by
the informer, which brings the cache up to date, or by its timer, which fires when
the period is over.

**Deletion.** `DeletionProofs!DeletionTypeCorrect`: `Spec => []DeletionTypeOK`, which also
says that neither the cleanup nor the removal of its finalizer comes before the
collector has finished. `DeletionProofs!NothingIsLeft`: `Spec => []NothingLeft`.
The invariant adds, from the moment the collector has finished, that every member
left is late; that every secret left is late or in the copy, while the secrets
are listed; and that it is late or still to be deleted, while they are deleted.

Every invariant was an invariant of a TLC run on small instances, lagging caches and
a fault included, before it was proved.

**Only model-checked**: liveness under fairness, which is out of the prover's reach as
`ENABLED` is; `ReportTruth`, which holds within the one event of its runs only (section 6);
`RepairsOneByOne` in `repair3`, where the write may be lost but only one member fails.

## 6. Limits

What holds only within a run's budget, or is left out of it. The properties named as
failing were seen to fail with TLC on the instance described; the items without one
(a deletion with `kubectl`, a creation without a version, a lost watch or a namesake,
the periods in an update) are read from the code:

- `QuorumKept` fails with a lagging member or pod cache, two renewals, a renewal
  and a version change, or two changes: `UpdateMembers` waits for lower indexes only.
- `VersionTruth` fails when a failed member is given a version and its old pod
  recovers: the version is recorded from the spec (`member_controller.go:180`) and
  the pod never replaced. It fails as well with one change and one renewal, with one
  change and one fault (a status write that is lost), with two changes and a lagging
  cache, and with two changes to a third version.
- `NoNeedlessRestart` fails with one change and one renewal, one change and one fault,
  one change and lagging clusters and members, and with a lagging pod cache even when
  nothing happens; without a change, with a lagging member cache, one failure and a lost
  status write at the end of a repair. Without faults and lag, TLC finds nothing with two
  changes of one member.
- `NewPodCanStart` and `RepairEnds` fail when the pod cache lags behind a repair:
  `EnsurePod` takes the old pod for the new one (`member_controller.go:171-181`),
  records `Running`, and the next pod is made in the mode `new`.
- `Converges` fails for two changes: a version that is taken back while the members are
  on their way to it is the one recorded already, so nothing looks out of date
  (`ClusterShouldUpdate`, `cluster_controller.go:103`) and the members stay on the other.
- `Converges` fails with a fault when it hits the deferred status update of a
  member (`member_controller.go:70-74`): the error is swallowed, the key not queued.
- `Converges` fails for an update of a cluster made from a backup: a pod made again
  restores the backup over the data there is (`member_types.go:190`), which the
  restore refuses, although `cluster_webhook.go:60` says a working cluster cannot be
  restored. The init container also expects a snapshot nothing in the repository
  puts there; the model assumes it is there.
- `RepairsOneByOne` and `DataKept` fail with a fault and two failures together: a
  lost status write at the end of `Repair` leaves a member that has no data looking
  as it did, and another one that failed may be marked. No other fault does it: see
  `RecordedRepairsOneByOne`.
- `RepairOnlyMinority` fails with a lagging cache of members.
- `ReportTruth` fails for an update of a cluster with a failed member: the version
  is recorded in the phase `MinorFailure` too (`cluster_controller.go:97-109`).
- `NothingLeft` excepts what is written after the collector has finished, by a
  worker that had read the cluster before or by cert-manager: nobody deletes it.
  It fails when the copy of the secrets lags behind cert-manager. A deletion that
  does not ask for dependents first (`kubectl delete`) drops the finalizer
  `CleanupSecrets` waits for, and the secrets may be written again; the model has the
  deletion of the `delete` command, which leaves the finalizers of `create` alone.
- A cluster created from a backup without a version (`create.go:58`) has the empty
  version in the name of its image (`member_types.go:305`) and never runs; the
  models give it a version. A command whose watch ends, or that sees a namesake in
  another namespace, is only counted as astray: the first never ends
  (`client.go:99`), the second reports what is not so (`client.go:81`).
- The creation period asked for in an update is not stored (`update.go:86-87`), and
  the schedule is not updated after its creation (`cluster_controller.go:122`).
- A version change is admitted in the middle of an update (`cluster_webhook.go:56`)
  when `EnsureMembers` has just set the phase back (`cluster_controller.go:215-216`).
- `OneInProgress` and `PeriodKept` hold for a cache that keeps up; `NoOrphanUpload`
  unless the cache lags and a call fails as well. A failed status update after an
  upload leaves the Backup unfinished until its retention period is over, and the
  schedule waits. A deadline between the two looks at the clock is dropped
  (`Overtaken`); only the resync of the informers, after hours, picks it up.

Simplifications: the cache of a kind catches up at once and not object by object;
caches of certificates, claims and the other objects do not lag; both certificates
of a member are issued together; a readiness probe does not fail because others
lost their majority; a lost reply with its effect is modelled for `MemberAdd` and
for the calls of the backup controller; the resync is left out; a retention
period is at least a second (zero, which is admitted, would let a name be used
twice within one); the webhook is assumed to be installed, though no manifest in
`config/` does so.

**Not modelled**

- Two managers at once. Leader election is off by default, but `config/deploy.yaml`
  asks for no second replica, and two pairs of workers with caches of their own are
  beyond TLC on any instance with a repair.
- `get`, `list`, `list-backups`, the printer and the `Prettify` methods: one read
  and its layout, no state.
- `main.go` but for the start and restart of the controllers: flags, health checks,
  the S3 session.
- Generated deep copies, scheme registration, CRDs, RBAC: no behaviour of their own.
- What a pod's container arguments, labels and names are made of: a constant
  function of the object, of which the models keep the mode, the version, the
  restore and the certificates.

## 7. Plan

Done: the core with its proofs; `Backups` and `Deletion` with theirs; `Cli`;
`SingleRepair` and the proof that the operator implements it.

Left: `ReportTruth` for one event and any size; an abstract specification of a backup
(begun, finished, removed, in this order and never back) that `Backups` implements.
