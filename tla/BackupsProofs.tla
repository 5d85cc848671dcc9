--------------------------- MODULE BackupsProofs ---------------------------
(***************************************************************************)
(* Backups: types, what is finished has its upload, and with a cache that  *)
(* keeps up one Backup follows another, a period apart.                    *)
(***************************************************************************)
EXTENDS Backups, TLAPS

\* A Backup a worker read as finished it does not write as anything else.
WorkerInv ==
    /\ bw.pc = "upload" => bw.read = 0 /\ bw.finished = 0
    /\ bw.read # 0 => bw.finished = bw.read

Restorable(n) == n \in uploads \/ RetentionTime(n) <= now

\* What says of a Backup that it is finished: the store, the cache, the worker.
UploadInv ==
    /\ \A n \in DOMAIN backups : backups[n] # 0 => Restorable(n)
    /\ \A n \in DOMAIN bcache : bcache[n] # 0 => Restorable(n)
    /\ bw.finished # 0 => Restorable(bw.n)

\* The schedule may create a Backup now.
MayCreate == \A n \in DOMAIN backups : backups[n] # 0 /\ backups[n] + CreationPeriod <= now

\* Between the list and the creation nothing becomes unfinished or finishes.
ScheduleInv ==
    ~lagging =>
        /\ OneInProgress
        /\ sw = "create" => MayCreate

BackupsInv == BackupTypeOK /\ WorkerInv /\ UploadInv /\ ScheduleInv

-----------------------------------------------------------------------------
(* Lemmas about steps *)

\* Uploads go when their retention period is over.
UploadsKept ==
    /\ now \in Nat /\ now' \in Nat /\ now <= now'
    /\ \A n \in uploads : n \in uploads' \/ RetentionTime(n) <= now

LEMMA RestorableStays ==
    ASSUME UploadsKept, NEW n \in Nat, Restorable(n)
    PROVE  Restorable(n)'
  <1>1. RetentionTime(n) \in Nat /\ RetentionTime(n)' = RetentionTime(n)
    BY BackupParameters DEF RetentionTime
  <1> QED BY <1>1 DEF UploadsKept, Restorable

\* What is in progress was in progress before, and what has finished had.
Shrinks ==
    \A n \in DOMAIN backups' : n \in DOMAIN backups
        /\ (backups'[n] # backups[n] => backups[n] = 0 /\ backups'[n] # 0)

LEMMA ShrinksKeeps ==
    ASSUME ScheduleInv, Shrinks, UNCHANGED <<lagging, now>>, sw' = sw
    PROVE  ScheduleInv'
  BY DEF ScheduleInv, OneInProgress, MayCreate, Shrinks

LEMMA TypeFacts ==
    ASSUME BackupTypeOK
    PROVE  /\ Names \subseteq Nat /\ Names \subseteq 0 .. MaxTime /\ 0 \in 0 .. MaxTime
           /\ 0 \notin Names /\ now \in Nat /\ bw.n \in Nat
           /\ \A n \in DOMAIN backups : n \in Nat
           /\ \A n \in DOMAIN bcache : n \in Nat
  BY BackupParameters DEF BackupTypeOK, Names

LEMMA IdleWorker ==
    /\ IdleBackupWorker.pc = "idle" /\ IdleBackupWorker.n = 0
    /\ IdleBackupWorker.read = 0 /\ IdleBackupWorker.finished = 0
    /\ IdleBackupWorker \in [pc : BackupSteps, n : 0 .. MaxTime, read : 0 .. MaxTime,
                             finished : 0 .. MaxTime, result : {"done", "requeue", "requeueAfter"}]
  BY BackupParameters DEF IdleBackupWorker, BackupSteps

LEMMA FaultType ==
    ASSUME BackupTypeOK, Fault \/ (\E d \in Nat : Overtaken(d))
    PROVE  used' \in [due : 0 .. MaxBackups, faults : 0 .. MaxFaults, overtaken : 0 .. MaxFaults]
  BY BackupParameters DEF BackupTypeOK, Fault, Overtaken, CanFault

-----------------------------------------------------------------------------
(* The initial state and each step *)

LEMMA InitInv == Init => BackupsInv
  <1> SUFFICES ASSUME Init PROVE BackupsInv
    OBVIOUS
  <1>1. DOMAIN backups = {} /\ DOMAIN bcache = {}
    BY DEF Init
  <1>2. BackupTypeOK
    BY <1>1, IdleWorker, BackupParameters DEF Init, BackupTypeOK, Names
  <1>3. WorkerInv /\ UploadInv
    BY <1>1, IdleWorker DEF Init, WorkerInv, UploadInv
  <1>4. ScheduleInv
    BY <1>1 DEF Init, ScheduleInv, OneInProgress, MayCreate
  <1> QED BY <1>2, <1>3, <1>4 DEF BackupsInv

LEMMA GetBackupInv ==
    ASSUME BackupsInv, NEW n \in Names, GetBackup(n)
    PROVE  BackupsInv'
  <1> USE DEF BackupsInv
  <1>1. /\ UNCHANGED <<backups, bcache, lagging, uploads, owner, now, btimers, sq, stimer, sw, used>>
        /\ bq' \subseteq bq
    BY DEF GetBackup, stored, scheduleSide
  <1>2. CASE n \in DOMAIN bcache
    <2>1. bw' = [pc |-> IF bcache[n] = 0 THEN "upload" ELSE "retain", n |-> n,
                 read |-> bcache[n], finished |-> bcache[n], result |-> "done"]
      BY <1>2, Zenon DEF GetBackup
    <2>2. BackupTypeOK'
      BY <1>1, <1>2, <2>1, TypeFacts DEF BackupTypeOK, BackupSteps
    <2>3. WorkerInv' /\ UploadInv'
      BY <1>1, <1>2, <2>1 DEF WorkerInv, UploadInv, Restorable, RetentionTime
    <2> QED BY <1>1, <2>2, <2>3 DEF ScheduleInv, OneInProgress, MayCreate
  <1>3. CASE n \notin DOMAIN bcache
    <2>1. bw' = bw
      BY <1>3 DEF GetBackup
    <2> QED BY <1>1, <2>1 DEF BackupTypeOK, WorkerInv, UploadInv, ScheduleInv, OneInProgress,
                              MayCreate, Restorable, RetentionTime
  <1> QED BY <1>2, <1>3

\* The calls that leave the Backups alone.
LEMMA UploadInvariant ==
    ASSUME BackupsInv, UploadBackup \/ NoSnapshot \/ UploadFails \/ Keep \/ DeleteObject
    PROVE  BackupsInv'
  <1> USE DEF BackupsInv
  <1>1. UNCHANGED <<backups, bcache, lagging, owner, now, bq, btimers, sq, stimer, sw>>
    BY DEF UploadBackup, NoSnapshot, UploadFails, Keep, DeleteObject, BackupCall, scheduleSide
  <1>2. used' \in [due : 0 .. MaxBackups, faults : 0 .. MaxFaults, overtaken : 0 .. MaxFaults]
    <2>1. RetentionTime(bw.n) \in Nat
      BY TypeFacts, BackupParameters DEF RetentionTime
    <2>2. used' = used \/ Fault \/ Overtaken(RetentionTime(bw.n))
      BY DEF UploadBackup, NoSnapshot, UploadFails, Keep, DeleteObject
    <2> QED BY <2>1, <2>2, FaultType DEF BackupTypeOK
  <1>3. bw.n \in Names
    BY DEF BackupTypeOK, UploadBackup, NoSnapshot, UploadFails, Keep, DeleteObject, BackupCall
  <1>4. uploads' \subseteq Names
    BY <1>3 DEF BackupTypeOK, UploadBackup, NoSnapshot, UploadFails, Keep, DeleteObject
  <1>5. /\ bw'.n = bw.n /\ bw'.read = bw.read
        /\ bw' \in [pc : BackupSteps \ {"idle", "upload"}, n : 0 .. MaxTime, read : 0 .. MaxTime,
                    finished : 0 .. MaxTime, result : {"done", "requeue", "requeueAfter"}]
        /\ bw'.finished = bw.finished \/ (bw.read = 0 /\ bw.n \in uploads')
    BY TypeFacts DEF BackupTypeOK, WorkerInv, UploadBackup, NoSnapshot, UploadFails, Keep,
                     DeleteObject, BackupReturns, BackupCall, BackupSteps
  <1>6. UploadsKept
    BY <1>1, TypeFacts DEF UploadBackup, NoSnapshot, UploadFails, Keep, DeleteObject, UploadsKept
  <1>7. BackupTypeOK'
    BY <1>1, <1>2, <1>3, <1>4, <1>5 DEF BackupTypeOK
  <1>8. WorkerInv'
    BY <1>5 DEF WorkerInv
  <1>9. UploadInv'
    <2>1. \A n \in Nat : Restorable(n) => Restorable(n)'
      BY <1>6, RestorableStays
    <2>2. bw'.finished # 0 => Restorable(bw.n)'
      BY <1>5, <2>1, TypeFacts DEF UploadInv, Restorable
    <2> QED BY <1>1, <1>5, <2>1, <2>2, TypeFacts DEF UploadInv, Restorable, RetentionTime
  <1>10. ScheduleInv'
    BY <1>1 DEF ScheduleInv, OneInProgress, MayCreate
  <1> QED BY <1>7, <1>8, <1>9, <1>10

LEMMA RemoveInvariant ==
    ASSUME BackupsInv, DeleteBackup \/ RemoveFails
    PROVE  BackupsInv'
  <1> USE DEF BackupsInv
  <1>1. UNCHANGED <<bcache, lagging, owner, now, bq, btimers, sq, stimer, sw>>
    BY DEF DeleteBackup, RemoveFails, BackupCall, scheduleSide
  <1>2. used' \in [due : 0 .. MaxBackups, faults : 0 .. MaxFaults, overtaken : 0 .. MaxFaults]
    BY FaultType DEF BackupTypeOK, DeleteBackup, RemoveFails
  <1>3. /\ bw'.n = bw.n /\ bw'.read = bw.read /\ bw'.finished = bw.finished
        /\ bw'.pc = "status" /\ bw'.result \in {"done", "requeue"}
        /\ bw' \in [pc : BackupSteps, n : 0 .. MaxTime, read : 0 .. MaxTime,
                    finished : 0 .. MaxTime, result : {"done", "requeue", "requeueAfter"}]
    BY DEF BackupTypeOK, DeleteBackup, RemoveFails, BackupReturns, BackupSteps
  <1>4. bw.n \in Names
    BY DEF BackupTypeOK, DeleteBackup, RemoveFails, BackupCall
  <1>5. backups' = backups \/ backups' = Restrict(backups, DOMAIN backups \ {bw.n})
    BY DEF DeleteBackup, RemoveFails
  <1>6. /\ DOMAIN backups' \subseteq DOMAIN backups
        /\ \A n \in DOMAIN backups' : backups'[n] = backups[n]
    BY <1>5 DEF Restrict
  <1>7. uploads' = uploads \/ (uploads' = uploads \ {bw.n} /\ RetentionTime(bw.n) <= now)
    BY DEF DeleteBackup, RemoveFails
  <1>8. BackupTypeOK'
    <2>1. DOMAIN backups' \subseteq Names /\ \A n \in DOMAIN backups' : backups'[n] \in 0 .. MaxTime
      BY <1>6 DEF BackupTypeOK
    <2> QED BY <1>1, <1>2, <1>3, <1>4, <1>7, <2>1 DEF BackupTypeOK
  <1>9. WorkerInv'
    BY <1>3 DEF WorkerInv
  <1>10. UploadInv'
    <2>1. \A n \in Nat : Restorable(n) => Restorable(n)'
      BY <1>1, <1>7, TypeFacts, RestorableStays DEF UploadsKept
    <2> QED BY <1>1, <1>3, <1>6, <2>1, TypeFacts DEF UploadInv, Restorable, RetentionTime
  <1>11. ScheduleInv'
    BY <1>1, <1>6, ShrinksKeeps DEF Shrinks
  <1> QED BY <1>8, <1>9, <1>10, <1>11

LEMMA StatusInvariant ==
    ASSUME BackupsInv, BackupStatusUpdate \/ BackupStatusUpdateFails
    PROVE  BackupsInv'
  <1> USE DEF BackupsInv
  <1>1. /\ UNCHANGED <<bcache, lagging, uploads, owner, now, sq, stimer, sw>>
        /\ bw.pc = "status" /\ bw' = IdleBackupWorker
        /\ bq' \subseteq bq \cup {bw.n} /\ btimers' \subseteq btimers \cup {bw.n}
    BY DEF BackupStatusUpdate, BackupStatusUpdateFails, FinishBackup, scheduleSide
  <1>2. used' \in [due : 0 .. MaxBackups, faults : 0 .. MaxFaults, overtaken : 0 .. MaxFaults]
    BY FaultType DEF BackupTypeOK, BackupStatusUpdate, BackupStatusUpdateFails
  <1>3. \/ backups' = backups
        \/ /\ bw.n \in DOMAIN backups /\ backups[bw.n] = bw.read
           /\ backups' = [backups EXCEPT ![bw.n] = bw.finished]
    BY DEF BackupStatusUpdate, BackupStatusUpdateFails
  <1>4. /\ DOMAIN backups' = DOMAIN backups
        /\ \A n \in DOMAIN backups :
              \/ backups'[n] = backups[n]
              \/ n = bw.n /\ backups[n] = bw.read /\ backups'[n] = bw.finished
    BY <1>3
  <1>5. BackupTypeOK'
    <2>1. bw.n \in Names
      BY <1>1 DEF BackupTypeOK
    <2>2. \A n \in DOMAIN backups : backups'[n] \in 0 .. MaxTime
      BY <1>4 DEF BackupTypeOK
    <2> QED BY <1>1, <1>2, <1>4, <2>1, <2>2, IdleWorker DEF BackupTypeOK
  <1>6. WorkerInv'
    BY <1>1, IdleWorker DEF WorkerInv
  <1>7. UploadInv'
    BY <1>1, <1>4, IdleWorker DEF UploadInv, Restorable, RetentionTime
  <1>8. ScheduleInv'
    <2>1. \A n \in DOMAIN backups : backups'[n] # backups[n] => backups[n] = 0 /\ backups'[n] # 0
      BY <1>4 DEF WorkerInv
    <2> QED BY <1>1, <1>4, <2>1, ShrinksKeeps DEF Shrinks
  <1> QED BY <1>5, <1>6, <1>7, <1>8

\* The schedule looks at an up-to-date list and creates at most one Backup.
LEMMA FindInvariant ==
    ASSUME BackupsInv, Settled, ScheduleGone \/ FindDue \/ FindNotDue \/ CreateBackupFails
    PROVE  BackupsInv'
  <1> USE DEF BackupsInv
  <1>1. /\ UNCHANGED <<backups, bcache, lagging, uploads, owner, now, bq, btimers, bw>>
        /\ sq' \in BOOLEAN
    BY DEF ScheduleGone, FindDue, FindNotDue, CreateBackupFails, scheduleOnly, stored, backupSide
  <1>2. \A latest \in LatestBackupTime : latest \in 0 .. MaxTime
    BY BackupParameters DEF LatestBackupTime, BackupTypeOK
  <1>3. \A latest \in LatestBackupTime : NextRunTime(latest) \in Nat
    BY <1>2, BackupParameters DEF NextRunTime
  <1>4. used' \in [due : 0 .. MaxBackups, faults : 0 .. MaxFaults, overtaken : 0 .. MaxFaults]
    <2>1. CASE FindDue
      BY <2>1, BackupParameters DEF FindDue, BackupTypeOK
    <2>2. CASE ScheduleGone \/ FindNotDue \/ CreateBackupFails
      <3>1. used' = used \/ Fault \/ \E latest \in LatestBackupTime : Overtaken(NextRunTime(latest))
        BY <2>2 DEF ScheduleGone, FindNotDue, CreateBackupFails
      <3> QED BY <1>3, <3>1, FaultType DEF BackupTypeOK
    <2> QED BY <2>1, <2>2
  <1>5. stimer' \in Nat /\ sw' \in {"idle", "create"}
    BY <1>3 DEF BackupTypeOK, ScheduleGone, FindDue, FindNotDue, CreateBackupFails
  <1>6. BackupTypeOK'
    BY <1>1, <1>4, <1>5 DEF BackupTypeOK
  <1>7. WorkerInv' /\ UploadInv'
    BY <1>1 DEF WorkerInv, UploadInv, Restorable, RetentionTime
  <1>8. ScheduleInv'
    <2>1. CASE FindDue
      <3> SUFFICES ASSUME ~lagging PROVE MayCreate
        BY <1>1 DEF ScheduleInv, OneInProgress, MayCreate
      <3>1. bcache = backups
        BY DEF Settled
      <3>2. \A n \in DOMAIN backups : backups[n] # 0 /\ backups[n] \in Nat
        BY <2>1, <3>1, BackupParameters DEF FindDue, InProgress, BackupTypeOK
      <3>3. PICK latest \in LatestBackupTime : latest = 0 \/ NextRunTime(latest) <= now
        BY <2>1 DEF FindDue
      <3>4. latest \in Nat /\ \A n \in DOMAIN backups : backups[n] <= latest
        BY <1>2, <3>1 DEF LatestBackupTime
      <3>5. DOMAIN backups # {} => latest + CreationPeriod <= now
        BY <3>2, <3>3, <3>4 DEF NextRunTime
      <3> QED BY <3>2, <3>4, <3>5, TypeFacts, BackupParameters DEF MayCreate
    <2>2. CASE ScheduleGone \/ FindNotDue \/ CreateBackupFails
      <3>1. sw' = sw \/ sw' = "idle"
        BY <2>2 DEF ScheduleGone, FindNotDue, CreateBackupFails
      <3> QED BY <1>1, <3>1 DEF ScheduleInv, OneInProgress, MayCreate
    <2> QED BY <2>1, <2>2
  <1> QED BY <1>6, <1>7, <1>8

LEMMA CreateInvariant ==
    ASSUME BackupsInv, CreateBackup
    PROVE  BackupsInv'
  <1> USE DEF BackupsInv
  <1>1. /\ UNCHANGED <<bcache, lagging, uploads, owner, now, bq, btimers, bw, stimer, used>>
        /\ sw = "create" /\ sw' = "idle" /\ sq' \in BOOLEAN
    BY DEF CreateBackup, backupSide
  <1>2. /\ DOMAIN backups' = DOMAIN backups \cup {now}
        /\ \A n \in DOMAIN backups' :
              backups'[n] = IF n \in DOMAIN backups THEN backups[n] ELSE 0
    BY DEF CreateBackup
  <1>3. BackupTypeOK'
    BY <1>1, <1>2, TypeFacts DEF BackupTypeOK
  <1>4. WorkerInv' /\ UploadInv'
    BY <1>1, <1>2 DEF WorkerInv, UploadInv, Restorable, RetentionTime
  <1>5. ScheduleInv'
    BY <1>1, <1>2 DEF ScheduleInv, OneInProgress, MayCreate
  <1> QED BY <1>3, <1>4, <1>5

LEMMA EnvironmentInvariant ==
    ASSUME BackupsInv, NEW n \in Names,
           \/ SyncBackups \/ ScheduleTimer \/ BackupTimer(n) \/ DeleteCluster
           \/ ClusterGone \/ BackupClockTick \/ Restart
    PROVE  BackupsInv'
  <1> USE DEF BackupsInv
  <1>1. /\ UNCHANGED <<backups, lagging, uploads>>
        /\ bcache' = bcache \/ bcache' = backups
        /\ sw' = sw \/ sw' = "idle"
        /\ bw' = bw \/ bw' = IdleBackupWorker
        /\ now' = now \/ (now' = now + 1 /\ now < MaxTime)
        /\ owner' \in {"present", "deleting", "gone"}
        /\ stimer' = stimer \/ stimer' = 0
    BY DEF BackupTypeOK, SyncBackups, ScheduleTimer, BackupTimer, DeleteCluster, ClusterGone,
           BackupClockTick, Restart, scheduleOnly, stored, backupSide, scheduleSide
  <1>2. bq' \subseteq Names /\ btimers' \subseteq Names
    BY DEF BackupTypeOK, SyncBackups, ScheduleTimer, BackupTimer, DeleteCluster, ClusterGone,
           BackupClockTick, Restart, scheduleOnly, stored, backupSide, scheduleSide
  <1>q. sq' \in BOOLEAN
    <2>1. sq' = sq \/ sq' = TRUE \/ sq' = (owner # "gone")
      BY Zenon DEF SyncBackups, ScheduleTimer, BackupTimer, DeleteCluster, ClusterGone,
                   BackupClockTick, Restart, scheduleOnly, scheduleSide
    <2> QED BY <2>1, Zenon DEF BackupTypeOK
  <1>3. used' \in [due : 0 .. MaxBackups, faults : 0 .. MaxFaults, overtaken : 0 .. MaxFaults]
    BY FaultType DEF BackupTypeOK, SyncBackups, ScheduleTimer, BackupTimer, DeleteCluster,
                     ClusterGone, BackupClockTick, Restart
  <1>4. now' \in Names /\ now <= now' /\ now' \in Nat
    BY <1>1, TypeFacts, BackupParameters DEF BackupTypeOK, Names
  <1>5. BackupTypeOK'
    BY <1>1, <1>2, <1>q, <1>3, <1>4, IdleWorker DEF BackupTypeOK
  <1>6. WorkerInv'
    BY <1>1, IdleWorker DEF WorkerInv
  <1>7. UploadInv'
    <2>1. \A k \in Nat : Restorable(k) => Restorable(k)'
      BY <1>1, <1>4, TypeFacts, RestorableStays DEF UploadsKept
    <2> QED BY <1>1, <2>1, TypeFacts, IdleWorker DEF UploadInv
  <1>8. ScheduleInv'
    <2>1. MayCreate => MayCreate'
      BY <1>1, <1>4, TypeFacts, BackupParameters DEF MayCreate, BackupTypeOK
    <2> QED BY <1>1, <2>1 DEF ScheduleInv, OneInProgress
  <1> QED BY <1>5, <1>6, <1>7, <1>8

LEMMA StepInv == BackupsInv /\ [Next]_vars => BackupsInv'
  <1> SUFFICES ASSUME BackupsInv, [Next]_vars PROVE BackupsInv'
    OBVIOUS
  <1>1. CASE SyncBackups \/ ScheduleTimer \/ DeleteCluster \/ ClusterGone
             \/ BackupClockTick \/ Restart
    <2>1. 1 \in Names
      BY BackupParameters DEF Names
    <2> QED BY <1>1, <2>1, EnvironmentInvariant
  <1>2. ASSUME NEW n \in Names, GetBackup(n) PROVE BackupsInv'
    BY <1>2, GetBackupInv
  <1>3. ASSUME NEW n \in Names, BackupTimer(n) PROVE BackupsInv'
    BY <1>3, EnvironmentInvariant
  <1>4. CASE BackupWorkerStep \/ BackupWorkerFault
    BY <1>4, UploadInvariant, RemoveInvariant, StatusInvariant DEF BackupWorkerStep, BackupWorkerFault
  <1>5. CASE Settled /\ (ScheduleWorkerStep \/ CreateBackupFails)
    BY <1>5, FindInvariant, CreateInvariant DEF ScheduleWorkerStep
  <1>6. CASE UNCHANGED vars
    BY <1>6 DEF vars, stored, backupSide, scheduleSide, BackupsInv, BackupTypeOK, WorkerInv,
                UploadInv, Restorable, RetentionTime, ScheduleInv, OneInProgress, MayCreate
  <1> QED BY <1>1, <1>2, <1>3, <1>4, <1>5, <1>6 DEF Next, Step

LEMMA Invariant == Spec => []BackupsInv
  BY InitInv, StepInv, PTL DEF Spec

-----------------------------------------------------------------------------
(* Theorems *)

\* Every variable keeps its type, and a worker that is busy holds a Backup.
THEOREM BackupTypeCorrect == Spec => []BackupTypeOK
  <1>1. BackupsInv => BackupTypeOK
    BY DEF BackupsInv
  <1> QED BY <1>1, Invariant, PTL

\* Whatever the cache shows, and whatever calls fail or lose their reply: what is
\* recorded as finished can be restored from until its retention period is over
\* (backup_controller.go:97-106, 147).
THEOREM FinishedCanBeRestored == Spec => []FinishedHasUpload
  <1>1. BackupsInv => FinishedHasUpload
    <2> SUFFICES ASSUME BackupsInv, NEW n \in DOMAIN backups, backups[n] # 0,
                        now < RetentionTime(n)
                 PROVE  n \in uploads
      BY DEF FinishedHasUpload
    <2>1. Restorable(n)
      BY DEF BackupsInv, UploadInv
    <2>2. now \in Nat /\ RetentionTime(n) \in Nat
      BY TypeFacts, BackupParameters DEF BackupsInv, RetentionTime
    <2> QED BY <2>1, <2>2 DEF Restorable
  <1> QED BY <1>1, Invariant, PTL

\* Whatever the periods, the faults and the restarts, with a cache that does not
\* lag at most one Backup is in progress: nothing is created between a list that
\* shows none and the creation (backupschedule_controller.go:80-97), and no
\* status update takes a finished Backup back (backup_controller.go:74-86).
THEOREM BackupsOneAtATime == Spec => []OneInProgress
  <1>1. BackupsInv => OneInProgress
    BY DEF BackupsInv, ScheduleInv, OneInProgress
  <1> QED BY <1>1, Invariant, PTL

\* ... and it is created a whole period after every other one finished: no Backup
\* finishes between the list and the creation (backupschedule_controller.go:95-97).
THEOREM PeriodIsKept == Spec => PeriodKept
  <1> DEFINE Apart ==
        \A n \in DOMAIN backups' \ DOMAIN backups :
            ~lagging => \A j \in DOMAIN backups : backups[j] + CreationPeriod <= n
  <1>1. BackupsInv /\ [Next]_vars => [Apart]_vars
    <2> SUFFICES ASSUME BackupsInv, Next PROVE Apart
      BY DEF Apart
    <2>1. CASE CreateBackup
      <3>1. DOMAIN backups' = DOMAIN backups \cup {now} /\ sw = "create"
        BY <2>1 DEF CreateBackup
      <3> QED BY <3>1 DEF BackupsInv, ScheduleInv, MayCreate
    <2>2. CASE ~CreateBackup
      <3>1. DOMAIN backups' \subseteq DOMAIN backups
        BY <2>2 DEF Next, Step, BackupWorkerStep, BackupWorkerFault, ScheduleWorkerStep,
             SyncBackups, GetBackup, UploadBackup, NoSnapshot, Keep, DeleteObject, DeleteBackup,
             BackupStatusUpdate, UploadFails, RemoveFails, BackupStatusUpdateFails, ScheduleGone,
             FindDue, FindNotDue, CreateBackupFails, ScheduleTimer, BackupTimer, DeleteCluster,
             ClusterGone, BackupClockTick, Restart, scheduleOnly, stored, Restrict
      <3> QED BY <3>1
    <2> QED BY <2>1, <2>2
  <1>2. Spec => [][BackupsInv /\ BackupsInv' /\ [Next]_vars]_vars
    BY Invariant, PTL DEF Spec
  <1> QED BY <1>1, <1>2, Invariant, PTL DEF Spec, PeriodKept

-----------------------------------------------------------------------------
(* No upload without its Backup.  A worker that read the Backup from an old *)
(* copy may upload for one that is gone: the invariant has to say that its  *)
(* retention period is over by then, so that the worker goes on to remove   *)
(* what it has uploaded.                                                    *)

Busy == bw.pc # "idle"
Over(n) == RetentionTime(n) < now

\* The object goes before the Backup does, and neither within the period.
ObjectFirst == bw.pc = "delete" => bw.n \notin uploads /\ RetentionTime(bw.n) <= now

\* With a cache that does not lag a worker holds a Backup that is there.
KeptUp ==
    ~lagging =>
        /\ uploads \subseteq DOMAIN backups
        /\ bw.pc \in {"upload", "retain", "delete"} => bw.n \in DOMAIN backups

\* The cache still shows a Backup as begun that is finished or gone.
Outrun(n) ==
    n \in DOMAIN bcache /\ bcache[n] = 0 /\ ~(n \in DOMAIN backups /\ backups[n] = 0)

\* A Backup that is gone was not removed too early, and none is begun again.
GoneInv ==
    used.faults = 0 =>
        /\ \A n \in DOMAIN bcache : n \notin DOMAIN backups => RetentionTime(n) <= now
        /\ Busy /\ bw.n \notin DOMAIN backups => RetentionTime(bw.n) <= now
        /\ \A n \in DOMAIN bcache : bcache[n] # 0 /\ n \in DOMAIN backups => backups[n] # 0
        /\ Busy /\ bw.n \in DOMAIN backups => bw.n \in DOMAIN bcache

\* Only its timer queues a Backup that has outrun the cache.
QueueInv ==
    used.faults = 0 =>
        /\ \A n \in bq : Outrun(n) => Over(n)
        /\ Busy /\ bw.n \in bq /\ bw.n \in DOMAIN bcache /\ bcache[bw.n] = 0 => Over(bw.n)

\* So no upload is made for one that is gone within its retention period.
HeldInv ==
    used.faults = 0 =>
        /\ bw.pc = "upload" \/ (bw.pc = "status" /\ bw.result = "requeue") =>
              bw.read = 0 /\ bw.finished = 0 /\ (Outrun(bw.n) => Over(bw.n))
        /\ bw.pc = "upload" /\ bw.n \notin DOMAIN backups => Over(bw.n)
        /\ \A n \in uploads \ DOMAIN backups : bw.pc = "retain" /\ bw.n = n /\ Over(n)

OrphanInv == ObjectFirst /\ KeptUp /\ GoneInv /\ QueueInv /\ HeldInv

\* Faults are counted up only.
LEMMA FaultsGrow ==
    ASSUME BackupTypeOK, Next
    PROVE  used'.faults = 0 => used.faults = 0 /\ ~Fault
  <1>1. used \in [due : 0 .. MaxBackups, faults : 0 .. MaxFaults, overtaken : 0 .. MaxFaults]
    BY DEF BackupTypeOK
  <1>2. /\ Fault => used'.faults = used.faults + 1
        /\ \A d : Overtaken(d) => used'.faults = used.faults
        /\ FindDue => used'.faults = used.faults
    BY <1>1 DEF Fault, Overtaken, FindDue
  <1>3. used' = used \/ Fault \/ (\E d : Overtaken(d)) \/ FindDue
    BY DEF Next, Step, BackupWorkerStep, BackupWorkerFault, ScheduleWorkerStep, SyncBackups,
           GetBackup, UploadBackup, NoSnapshot, UploadFails, Keep, DeleteObject, DeleteBackup,
           RemoveFails, BackupStatusUpdate, BackupStatusUpdateFails, ScheduleGone, FindNotDue,
           CreateBackup, CreateBackupFails, ScheduleTimer, BackupTimer, DeleteCluster,
           ClusterGone, BackupClockTick, Restart
  <1>4. used.faults \in Nat
    BY <1>1, BackupParameters
  <1> QED BY <1>1, <1>2, <1>3, <1>4

LEMMA InitOrphan == Init => OrphanInv
  <1> SUFFICES ASSUME Init PROVE OrphanInv
    OBVIOUS
  <1>1. DOMAIN backups = {} /\ DOMAIN bcache = {} /\ bq = {} /\ uploads = {} /\ bw.pc = "idle"
    BY IdleWorker DEF Init
  <1> QED BY <1>1 DEF OrphanInv, ObjectFirst, KeptUp, GoneInv, QueueInv, HeldInv, Busy, Outrun

LEMMA GetBackupOrphan ==
    ASSUME BackupsInv, OrphanInv, Settled, NEW n \in Names, GetBackup(n)
    PROVE  OrphanInv'
  <1>1. /\ UNCHANGED <<backups, bcache, lagging, uploads, now, used>>
        /\ bq' = bq \ {n} /\ n \in bq /\ bw.pc = "idle"
    BY DEF GetBackup, stored
  <1>2. CASE n \in DOMAIN bcache
    <2>1. bw' = [pc |-> IF bcache[n] = 0 THEN "upload" ELSE "retain", n |-> n,
                 read |-> bcache[n], finished |-> bcache[n], result |-> "done"]
      BY <1>2, Zenon DEF GetBackup
    <2>2. ObjectFirst' /\ KeptUp'
      BY <1>1, <1>2, <2>1 DEF OrphanInv, ObjectFirst, KeptUp, Settled
    <2>3. GoneInv'
      BY <1>1, <1>2, <2>1 DEF OrphanInv, GoneInv, RetentionTime
    <2>4. QueueInv'
      BY <1>1, <1>2, <2>1 DEF OrphanInv, QueueInv, Outrun, Over, RetentionTime
    <2>5. HeldInv'
      BY <1>1, <1>2, <2>1 DEF OrphanInv, QueueInv, HeldInv, Outrun, Over, RetentionTime
    <2> QED BY <2>2, <2>3, <2>4, <2>5 DEF OrphanInv
  <1>3. CASE n \notin DOMAIN bcache
    <2>1. bw' = bw
      BY <1>3 DEF GetBackup
    <2> QED BY <1>1, <2>1 DEF OrphanInv, ObjectFirst, KeptUp, GoneInv, QueueInv, HeldInv, Busy,
                              Outrun, Over, RetentionTime
  <1> QED BY <1>2, <1>3

LEMMA UploadOrphan ==
    ASSUME BackupsInv, OrphanInv, Next,
           UploadBackup \/ NoSnapshot \/ UploadFails \/ Keep \/ DeleteObject
    PROVE  OrphanInv'
  <1>1. /\ UNCHANGED <<backups, bcache, lagging, now, bq>>
        /\ bw.pc \in {"upload", "retain"} /\ bw'.n = bw.n /\ bw'.pc \in {"retain", "delete", "status"}
    BY DEF UploadBackup, NoSnapshot, UploadFails, Keep, DeleteObject, BackupCall, BackupsInv,
           BackupTypeOK, BackupReturns
  <1>2. bw.n \in Nat /\ now \in Nat /\ RetentionTime(bw.n) \in Nat
    BY TypeFacts, BackupParameters DEF BackupsInv, RetentionTime
  <1>3. \/ /\ bw.pc = "upload" /\ bw'.pc = "retain"
           /\ uploads' = uploads \cup {bw.n} \/ uploads' = uploads
        \/ /\ bw.pc = "upload" /\ bw'.pc = "status"
           /\ bw'.read = bw.read /\ bw'.finished = bw.finished
           /\ uploads' = uploads \/ (Fault /\ uploads' = uploads \cup {bw.n})
        \/ /\ bw.pc = "retain" /\ bw'.pc = "status" /\ bw'.result # "requeue"
           /\ ~Over(bw.n) /\ uploads' = uploads
        \/ /\ bw.pc = "retain" /\ bw'.pc = "delete" /\ uploads' = uploads \ {bw.n}
           /\ RetentionTime(bw.n) <= now
    <2>1. bw = [bw EXCEPT !.pc = bw.pc] /\ bw \in [pc : BackupSteps, n : 0 .. MaxTime,
               read : 0 .. MaxTime, finished : 0 .. MaxTime,
               result : {"done", "requeue", "requeueAfter"}]
      BY DEF BackupsInv, BackupTypeOK
    <2>2. CASE UploadBackup \/ NoSnapshot
      BY <2>1, <2>2 DEF UploadBackup, NoSnapshot, BackupCall
    <2>3. CASE UploadFails
      BY <2>1, <2>3 DEF UploadFails, BackupCall, BackupReturns
    <2>4. CASE Keep
      <3>1. bw.pc = "retain" /\ now <= RetentionTime(bw.n) /\ uploads' = uploads
            /\ (BackupReturns("requeueAfter") \/ BackupReturns("done"))
        BY <2>4 DEF Keep, BackupCall
      <3>2. bw'.pc = "status" /\ bw'.result # "requeue"
        BY <2>1, <3>1 DEF BackupReturns
      <3>3. ~Over(bw.n)
        BY <1>2, <3>1 DEF Over
      <3> QED BY <3>1, <3>2, <3>3
    <2>5. CASE DeleteObject
      BY <2>1, <2>5 DEF DeleteObject, BackupCall
    <2> QED BY <2>2, <2>3, <2>4, <2>5
  <1>4. ObjectFirst' /\ KeptUp'
    BY <1>1, <1>3 DEF OrphanInv, ObjectFirst, KeptUp, RetentionTime
  <1>5. PICK n : n = bw.n /\ n = bw'.n
    BY <1>1
  <1>6. used'.faults = 0 => used.faults = 0 /\ ~Fault
    BY FaultsGrow DEF BackupsInv
  <1>7. GoneInv' /\ QueueInv'
    BY <1>1, <1>5, <1>6 DEF OrphanInv, GoneInv, QueueInv, Busy, Outrun, Over, RetentionTime
  <1>8. HeldInv'
    BY <1>1, <1>3, <1>5, <1>6 DEF OrphanInv, HeldInv, Outrun, Over, RetentionTime
  <1> QED BY <1>4, <1>7, <1>8 DEF OrphanInv

LEMMA RemoveOrphan ==
    ASSUME BackupsInv, OrphanInv, Next, DeleteBackup \/ RemoveFails
    PROVE  OrphanInv'
  <1>1. /\ UNCHANGED <<bcache, lagging, now, bq>>
        /\ bw.pc \in {"retain", "delete"} /\ bw'.n = bw.n /\ bw'.pc = "status"
        /\ bw'.result = "requeue" => Fault
    BY DEF DeleteBackup, RemoveFails, BackupCall, BackupsInv, BackupTypeOK, BackupReturns
  <1>2. uploads' \subseteq uploads /\ (bw.pc = "delete" => uploads' = uploads)
    BY DEF DeleteBackup, RemoveFails, BackupCall
  <1>3. \/ backups' = backups
        \/ bw.pc = "delete" /\ backups' = Restrict(backups, DOMAIN backups \ {bw.n})
    BY DEF DeleteBackup, RemoveFails, BackupCall
  <1>4. /\ \A n \in DOMAIN backups' : n \in DOMAIN backups /\ backups'[n] = backups[n]
        /\ \A n \in DOMAIN backups : n # bw.n \/ bw.pc # "delete" => n \in DOMAIN backups'
    BY <1>3 DEF Restrict
  <1>5. PICK n : n = bw.n /\ n = bw'.n
    BY <1>1
  <1>6. used'.faults = 0 => used.faults = 0 /\ ~Fault /\ bw.pc = "delete"
    BY FaultsGrow DEF BackupsInv, DeleteBackup, RemoveFails, BackupCall
  <1>7. ObjectFirst' /\ KeptUp'
    BY <1>1, <1>2, <1>4 DEF OrphanInv, ObjectFirst, KeptUp
  <1>8. GoneInv'
    BY <1>1, <1>4, <1>5, <1>6 DEF OrphanInv, ObjectFirst, GoneInv, Busy, RetentionTime
  <1>9. QueueInv'
    BY <1>1, <1>4, <1>5, <1>6 DEF OrphanInv, QueueInv, Busy, Outrun, Over, RetentionTime
  <1>10. HeldInv'
    BY <1>1, <1>2, <1>4, <1>5, <1>6 DEF OrphanInv, ObjectFirst, HeldInv, Over, RetentionTime
  <1> QED BY <1>7, <1>8, <1>9, <1>10 DEF OrphanInv

LEMMA StatusOrphan ==
    ASSUME BackupsInv, OrphanInv, Next, BackupStatusUpdate \/ BackupStatusUpdateFails
    PROVE  OrphanInv'
  <1>1. /\ UNCHANGED <<bcache, lagging, uploads, now>>
        /\ bw.pc = "status" /\ bw'.pc = "idle"
        /\ bq' = IF bw.result = "requeue" THEN bq \cup {bw.n} ELSE bq
    BY IdleWorker DEF BackupStatusUpdate, BackupStatusUpdateFails, FinishBackup
  <1>2. /\ DOMAIN backups' = DOMAIN backups
        /\ \A n \in DOMAIN backups :
              \/ backups'[n] = backups[n]
              \/ n = bw.n /\ backups[n] = bw.read /\ backups'[n] = bw.finished
    BY DEF BackupStatusUpdate, BackupStatusUpdateFails
  <1>3. used'.faults = 0 => used.faults = 0
    BY FaultsGrow DEF BackupsInv
  <1>4. ObjectFirst' /\ KeptUp'
    BY <1>1, <1>2 DEF OrphanInv, ObjectFirst, KeptUp
  <1>5. \A n \in DOMAIN backups : backups[n] # 0 => backups'[n] # 0
    BY <1>2 DEF BackupsInv, WorkerInv
  <1>6. GoneInv'
    BY <1>1, <1>2, <1>3, <1>5 DEF OrphanInv, GoneInv, Busy, RetentionTime
  <1>7. ASSUME used'.faults = 0, NEW n \in bq', Outrun(n)' PROVE Over(n)'
    <2>1. Over(n)' <=> Over(n)
      BY <1>1 DEF Over, RetentionTime
    <2>2. CASE Outrun(n)
      BY <1>1, <1>3, <1>7, <2>1, <2>2 DEF OrphanInv, QueueInv, HeldInv
    <2>3. CASE ~Outrun(n)
      <3>1. /\ n \in DOMAIN bcache /\ bcache[n] = 0 /\ n = bw.n
            /\ bw.finished # bw.read
        BY <1>1, <1>2, <1>7, <2>3 DEF Outrun
      <3>2. n \in bq
        BY <1>1, <1>3, <1>7, <3>1 DEF OrphanInv, HeldInv
      <3> QED BY <1>1, <1>3, <1>7, <2>1, <3>1, <3>2 DEF OrphanInv, QueueInv, Busy
    <2> QED BY <2>2, <2>3
  <1>8. QueueInv'
    BY <1>1, <1>7 DEF QueueInv, Busy
  <1>9. HeldInv'
    BY <1>1, <1>2, <1>3 DEF OrphanInv, HeldInv
  <1> QED BY <1>4, <1>6, <1>8, <1>9 DEF OrphanInv

\* A Backup is created for this second: none of that name was ever there.
LEMMA CreateOrphan ==
    ASSUME BackupsInv, OrphanInv, Next, CreateBackup
    PROVE  OrphanInv'
  <1>1. UNCHANGED <<bcache, lagging, uploads, now, bq, bw, used>>
    BY DEF CreateBackup, backupSide
  <1>2. /\ DOMAIN backups' = DOMAIN backups \cup {now}
        /\ \A n \in DOMAIN backups : backups'[n] = backups[n]
        /\ now \notin DOMAIN backups => backups'[now] = 0
    BY DEF CreateBackup
  <1>3. now \in Nat /\ ~(RetentionTime(now) <= now)
    BY TypeFacts, BackupParameters DEF BackupsInv, RetentionTime
  <1>4. ObjectFirst' /\ KeptUp'
    BY <1>1, <1>2 DEF OrphanInv, ObjectFirst, KeptUp
  <1>5. GoneInv'
    BY <1>1, <1>2, <1>3 DEF OrphanInv, GoneInv, Busy, RetentionTime
  <1>6. QueueInv' /\ HeldInv'
    BY <1>1, <1>2 DEF OrphanInv, QueueInv, HeldInv, Busy, Outrun, Over, RetentionTime
  <1> QED BY <1>4, <1>5, <1>6 DEF OrphanInv

LEMMA SyncOrphan ==
    ASSUME BackupsInv, OrphanInv, SyncBackups
    PROVE  OrphanInv'
  <1>1. /\ UNCHANGED <<backups, lagging, uploads, now, bw, used>> /\ bcache' = backups
        /\ bq' = bq \cup {n \in DOMAIN backups \cup DOMAIN bcache :
                        n \in DOMAIN backups /\ n \in DOMAIN bcache => backups[n] # bcache[n]}
    BY DEF SyncBackups
  <1>2. ObjectFirst' /\ KeptUp'
    BY <1>1 DEF OrphanInv, ObjectFirst, KeptUp
  <1>3. GoneInv'
    BY <1>1 DEF OrphanInv, GoneInv, Busy, RetentionTime
  <1>4. QueueInv'
    BY <1>1 DEF OrphanInv, GoneInv, QueueInv, Busy, Outrun, Over, RetentionTime
  <1>5. HeldInv'
    BY <1>1 DEF OrphanInv, HeldInv, Outrun, Over, RetentionTime
  <1> QED BY <1>2, <1>3, <1>4, <1>5 DEF OrphanInv

\* The clock, the timers, the schedule, the cluster and a restart.
LEMMA OtherOrphan ==
    ASSUME BackupsInv, OrphanInv, [Next]_vars, NEW k \in Names,
           \/ ScheduleGone \/ FindDue \/ FindNotDue \/ CreateBackupFails
           \/ ScheduleTimer \/ BackupTimer(k) \/ DeleteCluster
           \/ ClusterGone \/ BackupClockTick \/ Restart \/ UNCHANGED vars
    PROVE  OrphanInv'
  <1>1. UNCHANGED <<backups, lagging, uploads>>
    BY DEF ScheduleGone, FindDue, FindNotDue, CreateBackupFails, ScheduleTimer, BackupTimer,
           DeleteCluster, ClusterGone, BackupClockTick, Restart, scheduleOnly, stored, vars
  <1>2. \/ Restart
        \/ /\ UNCHANGED <<bcache, bw>> /\ (bq' = bq \/ (bq' = bq \cup {k} /\ Over(k)))
           /\ now' = now \/ now' = now + 1
    BY DEF ScheduleGone, FindDue, FindNotDue, CreateBackupFails, ScheduleTimer, BackupTimer,
           DeleteCluster, ClusterGone, BackupClockTick, scheduleOnly, stored, backupSide, vars, Over
  <1>3. used'.faults = 0 => used.faults = 0 /\ ~Restart
    <2>1. CASE Next
      BY <2>1, FaultsGrow DEF BackupsInv, Restart
    <2>2. CASE UNCHANGED vars
      <3>1. ~Restart
        <4>1. Fault => used'.faults # used.faults
          BY BackupParameters DEF BackupsInv, BackupTypeOK, Fault
        <4> QED BY <2>2, <4>1 DEF Restart, vars
      <3> QED BY <2>2, <3>1 DEF vars
    <2> QED BY <2>1, <2>2
  <1>4. bw' = bw \/ bw'.pc = "idle"
    BY <1>2, IdleWorker DEF Restart
  <1>5. KeptUp'
    BY <1>1, <1>4 DEF OrphanInv, KeptUp
  <1>6. ASSUME NEW n \in Nat
        PROVE  (Over(n) => Over(n)' \/ Restart) /\ (RetentionTime(n) <= now => RetentionTime(n)' <= now' \/ Restart)
    BY <1>2, TypeFacts, BackupParameters DEF BackupsInv, Over, RetentionTime
  <1>7. /\ bw.n \in Nat /\ \A n \in DOMAIN bcache : n \in Nat
        /\ \A n \in bq \cup uploads \cup {k} : n \in Nat
    BY TypeFacts DEF BackupsInv, BackupTypeOK
  <1>8. ObjectFirst'
    <2>1. Restart => bw'.pc = "idle"
      BY IdleWorker DEF Restart
    <2>2. CASE bw' = bw /\ ~Restart
      BY <1>1, <1>6, <1>7, <2>2 DEF OrphanInv, ObjectFirst, RetentionTime
    <2> QED BY <1>4, <2>1, <2>2 DEF ObjectFirst
  <1>9. GoneInv'
    BY <1>1, <1>2, <1>3, <1>6, <1>7 DEF OrphanInv, GoneInv, Busy, RetentionTime
  <1>10. QueueInv' /\ HeldInv'
    BY <1>1, <1>2, <1>3, <1>6, <1>7 DEF OrphanInv, QueueInv, HeldInv, Busy, Outrun
  <1> QED BY <1>5, <1>8, <1>9, <1>10 DEF OrphanInv

LEMMA OrphanStep == BackupsInv /\ OrphanInv /\ [Next]_vars => OrphanInv'
  <1> SUFFICES ASSUME BackupsInv, OrphanInv, [Next]_vars PROVE OrphanInv'
    OBVIOUS
  <1>1. CASE UNCHANGED vars
    <2>1. 1 \in Names
      BY BackupParameters DEF Names
    <2> QED BY <1>1, <2>1, OtherOrphan
  <1>2. CASE Next
    <2>1. 1 \in Names
      BY BackupParameters DEF Names
    <2>2. CASE SyncBackups
      BY <2>2, SyncOrphan
    <2>3. CASE Settled /\ \E n \in Names : GetBackup(n)
      BY <2>3, GetBackupOrphan
    <2>4. CASE BackupWorkerStep \/ BackupWorkerFault
      BY <1>2, <2>4, UploadOrphan, RemoveOrphan, StatusOrphan DEF BackupWorkerStep, BackupWorkerFault
    <2>5. CASE \/ ScheduleWorkerStep \/ CreateBackupFails
               \/ ScheduleTimer \/ DeleteCluster \/ ClusterGone \/ BackupClockTick \/ Restart
      BY <1>2, <2>1, <2>5, CreateOrphan, OtherOrphan DEF ScheduleWorkerStep
    <2>6. CASE \E n \in Names : BackupTimer(n)
      BY <2>6, OtherOrphan
    <2> QED BY <1>2, <2>2, <2>3, <2>4, <2>5, <2>6 DEF Next, Step
  <1> QED BY <1>1, <1>2

\* Without faults, and with any faults when the cache does not lag, every object in
\* the bucket belongs to a Backup that is stored or in the worker's hands: the
\* object is removed first, and an upload made for a Backup that is gone meanwhile
\* is removed by the same reconcile (backup_controller.go:97-106, 143-161).
THEOREM UploadsBelong == Spec => []NoOrphanUpload
  <1>1. BackupsInv /\ OrphanInv => NoOrphanUpload
    <2> SUFFICES ASSUME BackupsInv, OrphanInv, ~lagging \/ ~(used.faults > 0),
                        NEW n \in uploads, n \notin DOMAIN backups
                 PROVE  bw.pc # "idle" /\ n = bw.n
      BY DEF NoOrphanUpload, BackupsInv, BackupTypeOK
    <2>1. CASE ~lagging
      BY <2>1 DEF OrphanInv, KeptUp
    <2>2. CASE ~(used.faults > 0)
      <3>1. used.faults = 0
        BY <2>2, BackupParameters DEF BackupsInv, BackupTypeOK
      <3> QED BY <3>1 DEF OrphanInv, HeldInv
    <2> QED BY <2>1, <2>2
  <1>2. Spec => []OrphanInv
    BY InitOrphan, OrphanStep, Invariant, PTL DEF Spec
  <1> QED BY <1>1, <1>2, Invariant, PTL
=============================================================================
