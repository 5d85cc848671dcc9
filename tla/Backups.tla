------------------------------ MODULE Backups ------------------------------
(***************************************************************************)
(* Scheduled backups of one cluster: the schedule controller creates       *)
(* Backups, the backup controller uploads a snapshot for each of them and  *)
(* removes upload and object when their retention period is over.  The two *)
(* meet only in the Backups they read and write.                           *)
(*                                                                         *)
(* A Backup is named by the second it was created in; its state is the     *)
(* second it finished in, 0 while it has not.                              *)
(***************************************************************************)
EXTENDS Naturals, FiniteSetsExt, Functions

CONSTANTS
    CreationPeriod,   \* of the schedule
    RetentionPeriod,  \* of the schedule, copied into every Backup
    Lagging,          \* may the cache lag in a behaviour? a set of answers
    MaxTime,          \* bound: the clock
    MaxBackups,       \* bound: how often the schedule finds a Backup due
    MaxFaults         \* bound: failed calls, crashes and timers that are overtaken

ASSUME BackupParameters ==
    /\ CreationPeriod \in Nat /\ RetentionPeriod \in Nat \ {0}
    /\ Lagging \subseteq BOOLEAN
    /\ MaxTime \in Nat \ {0} /\ MaxBackups \in Nat /\ MaxFaults \in Nat

VARIABLES
    backups,   \* the Backups stored: name -> finished
    bcache,    \* the informer's copy
    lagging,   \* whether the copy may be old in this behaviour
    uploads,   \* names of the snapshots in the bucket
    owner,     \* the cluster, which owns the schedule: present, deleting, gone
    now,
    bq,        \* queued Backups
    btimers,   \* Backups to be queued when their retention period is over
    bw,        \* the worker of the backup controller
    sq,        \* whether the schedule is queued
    stimer,    \* when it will be queued, 0: not at all
    sw,        \* the worker of the schedule controller
    used       \* how much of each bound

stored == <<backups, bcache, lagging, uploads>>
backupSide == <<bq, btimers, bw>>
scheduleSide == <<sq, stimer, sw>>
vars == <<stored, owner, now, backupSide, scheduleSide, used>>

Names == 1 .. MaxTime
IdleBackupWorker == [pc |-> "idle", n |-> 0, read |-> 0, finished |-> 0, result |-> "done"]

Init ==
    /\ backups = <<>> /\ bcache = <<>> /\ uploads = {}
    /\ lagging \in Lagging
    /\ owner = "present" /\ now = 1
    /\ bq = {} /\ btimers = {} /\ bw = IdleBackupWorker
    /\ sq = TRUE /\ stimer = 0 /\ sw = "idle"
    /\ used = [due |-> 0, faults |-> 0, overtaken |-> 0]

CanFault == used.faults + used.overtaken < MaxFaults
Fault == CanFault /\ used' = [used EXCEPT !.faults = @ + 1]

\* A deadline lies in the second `now': the first look at the clock was before
\* it and the second one after it, and a RequeueAfter that is not positive is
\* dropped.
Overtaken(deadline) ==
    /\ now = deadline
    /\ CanFault /\ used' = [used EXCEPT !.overtaken = @ + 1]

-----------------------------------------------------------------------------
(* Backup controller *)

RetentionTime(n) == n + RetentionPeriod

GetBackup(n) ==
    /\ bw.pc = "idle" /\ n \in bq
    /\ bq' = bq \ {n}
    /\ bw' = IF n \in DOMAIN bcache
             THEN [pc |-> IF bcache[n] = 0 THEN "upload" ELSE "retain", n |-> n,
                   read |-> bcache[n], finished |-> bcache[n], result |-> "done"]
             ELSE bw
    /\ UNCHANGED <<stored, owner, now, btimers, scheduleSide, used>>

BackupReturns(result) == bw' = [bw EXCEPT !.pc = "status", !.result = result]

\* The worker is between its first and its last call.
BackupCall(pc) ==
    /\ bw.pc = pc
    /\ UNCHANGED <<bcache, lagging, owner, now, bq, btimers, scheduleSide>>

UploadBackup ==
    /\ BackupCall("upload") /\ owner # "gone"
    /\ uploads' = uploads \cup {bw.n}
    /\ bw' = [bw EXCEPT !.pc = "retain", !.finished = now]
    /\ UNCHANGED <<backups, used>>

\* The cluster is not found: no snapshot, no error, and the Backup stays
\* unfinished.
NoSnapshot ==
    /\ BackupCall("upload") /\ owner = "gone"
    /\ bw' = [bw EXCEPT !.pc = "retain"]
    /\ UNCHANGED <<backups, uploads, used>>

\* Mutant: the error of the upload is not looked at.
UploadFailsUnnoticed ==
    /\ BackupCall("upload") /\ owner # "gone" /\ Fault
    /\ bw' = [bw EXCEPT !.pc = "retain", !.finished = now]
    /\ UNCHANGED <<backups, uploads>>

\* The snapshot fails, as that of a cluster on its way out may, or the upload:
\* then the reply may have been lost and the object may be there.
UploadFails ==
    /\ BackupCall("upload") /\ owner # "gone"
    /\ BackupReturns("requeue")
    /\ \/ owner = "deleting" /\ UNCHANGED <<uploads, used>>
       \/ Fault /\ uploads' \in {uploads, uploads \cup {bw.n}}
    /\ UNCHANGED backups

\* Mutant: the deadline is left to a later event.
KeepForgets ==
    /\ BackupCall("retain") /\ now <= RetentionTime(bw.n)
    /\ BackupReturns("done")
    /\ UNCHANGED <<backups, uploads, used>>

\* RemoveStale finds the Backup within its retention period.
Keep ==
    /\ BackupCall("retain") /\ now <= RetentionTime(bw.n)
    /\ \/ BackupReturns("requeueAfter") /\ UNCHANGED used
       \/ BackupReturns("done") /\ Overtaken(RetentionTime(bw.n))
    /\ UNCHANGED <<backups, uploads>>

\* Mutant: a Backup that was not recorded as finished has no object.
DeleteObjectFinished ==
    /\ BackupCall("retain") /\ RetentionTime(bw.n) <= now
    /\ uploads' = IF bw.read = 0 THEN uploads ELSE uploads \ {bw.n}
    /\ bw' = [bw EXCEPT !.pc = "delete"]
    /\ UNCHANGED <<backups, used>>

DeleteObject ==
    /\ BackupCall("retain") /\ RetentionTime(bw.n) <= now
    /\ uploads' = uploads \ {bw.n}
    /\ bw' = [bw EXCEPT !.pc = "delete"]
    /\ UNCHANGED <<backups, used>>

\* The time left is negative now, so the Backup is not queued again.
DeleteBackup ==
    /\ BackupCall("delete")
    /\ backups' = Restrict(backups, DOMAIN backups \ {bw.n})
    /\ BackupReturns("done")
    /\ UNCHANGED <<uploads, used>>

\* Either of the two calls fails, with or without its effect.
RemoveFails ==
    /\ Fault
    /\ BackupReturns("requeue")
    /\ \/ /\ BackupCall("retain") /\ RetentionTime(bw.n) <= now
          /\ uploads' \in {uploads, uploads \ {bw.n}} /\ UNCHANGED backups
       \/ /\ BackupCall("delete")
          /\ backups' \in {backups, Restrict(backups, DOMAIN backups \ {bw.n})}
          /\ UNCHANGED uploads

\* Mutant: the key is read after the worker has let it go.
FinishBackupLate ==
    /\ bw.pc = "status"
    /\ bw' = IdleBackupWorker
    /\ bq' = IF bw.result = "requeue" THEN bq \cup {IdleBackupWorker.n} ELSE bq
    /\ btimers' = IF bw.result = "requeueAfter" THEN btimers \cup {bw.n} ELSE btimers
    /\ UNCHANGED <<bcache, lagging, uploads, owner, now, scheduleSide>>

\* What the deferred function leaves to the queue, whatever became of the write.
FinishBackup ==
    /\ bw.pc = "status"
    /\ bw' = IdleBackupWorker
    /\ bq' = IF bw.result = "requeue" THEN bq \cup {bw.n} ELSE bq
    /\ btimers' = IF bw.result = "requeueAfter" THEN btimers \cup {bw.n} ELSE btimers
    /\ UNCHANGED <<bcache, lagging, uploads, owner, now, scheduleSide>>

\* The write succeeds on the version that was read; a conflict or an object that
\* is gone is ignored.
BackupStatusUpdate ==
    /\ FinishBackup
    /\ backups' = IF bw.n \in DOMAIN backups /\ backups[bw.n] = bw.read
                  THEN [backups EXCEPT ![bw.n] = bw.finished]
                  ELSE backups
    /\ UNCHANGED used

\* The error is logged; an upload made by this reconcile is forgotten.
BackupStatusUpdateFails == FinishBackup /\ Fault /\ UNCHANGED backups

BackupWorkerStep ==
    \/ UploadBackup \/ NoSnapshot
    \/ Keep \/ DeleteObject \/ DeleteBackup
    \/ BackupStatusUpdate

BackupWorkerFault == UploadFails \/ RemoveFails \/ BackupStatusUpdateFails

-----------------------------------------------------------------------------
(* Schedule controller *)

\* Mutant: a Backup in progress is not waited for.
InProgressIgnored == FALSE

InProgress == \E n \in DOMAIN bcache : bcache[n] = 0

\* The set of the latest time, which is 0 while nothing has finished
LatestBackupTime ==
    {latest \in {0} \cup {bcache[n] : n \in DOMAIN bcache} :
        \A n \in DOMAIN bcache : bcache[n] <= latest}

\* Mutant: the period is not added.
NextRunTimeAtOnce(latest) == latest

NextRunTime(latest) == latest + CreationPeriod

scheduleOnly == UNCHANGED <<stored, owner, now, backupSide>>

ScheduleGone ==
    /\ sw = "idle" /\ sq /\ owner # "present"
    /\ sq' = FALSE
    /\ scheduleOnly /\ UNCHANGED <<stimer, sw, used>>

\* A Backup in progress leaves the schedule queued: the worker polls.  The
\* deadline of a schedule without a finished Backup is long past.
FindDue ==
    /\ sw = "idle" /\ sq /\ owner = "present"
    /\ ~InProgress
    /\ \E latest \in LatestBackupTime : latest = 0 \/ NextRunTime(latest) <= now
    /\ used.due < MaxBackups /\ used' = [used EXCEPT !.due = @ + 1]
    /\ sq' = FALSE /\ sw' = "create"
    /\ scheduleOnly /\ UNCHANGED stimer

FindNotDue ==
    /\ sw = "idle" /\ sq /\ owner = "present"
    /\ ~InProgress
    /\ \E latest \in LatestBackupTime \ {0} :
          /\ now <= NextRunTime(latest)
          /\ \/ stimer' = NextRunTime(latest) /\ UNCHANGED used
             \/ UNCHANGED stimer /\ Overtaken(NextRunTime(latest))
    /\ sq' = FALSE
    /\ scheduleOnly /\ UNCHANGED sw

\* Mutant: the next reconcile is left to an event of the Backup.
CreateBackupWaits ==
    /\ sw = "create"
    /\ backups' = [n \in DOMAIN backups \cup {now} |->
                      IF n \in DOMAIN backups THEN backups[n] ELSE 0]
    /\ sw' = "idle" /\ sq' = FALSE
    /\ UNCHANGED <<bcache, lagging, uploads, owner, now, backupSide, stimer, used>>

\* The name is made of the second: if it is taken the error queues the schedule
\* again, as Requeue does after a success.  No owner reference is set, so the
\* Backup never queues the schedule.
CreateBackup ==
    /\ sw = "create"
    /\ backups' = [n \in DOMAIN backups \cup {now} |->
                      IF n \in DOMAIN backups THEN backups[n] ELSE 0]
    /\ sw' = "idle" /\ sq' = TRUE
    /\ UNCHANGED <<bcache, lagging, uploads, owner, now, backupSide, stimer, used>>

CreateBackupFails ==
    /\ sw = "create" /\ Fault
    /\ sw' = "idle" /\ sq' = TRUE
    /\ scheduleOnly /\ UNCHANGED stimer

ScheduleWorkerStep == ScheduleGone \/ FindDue \/ FindNotDue \/ CreateBackup

-----------------------------------------------------------------------------
(* Environment *)

SyncBackups ==
    /\ bcache # backups
    /\ bcache' = backups
    /\ bq' = bq \cup {n \in DOMAIN backups \cup DOMAIN bcache :
                        n \in DOMAIN backups /\ n \in DOMAIN bcache => backups[n] # bcache[n]}
    /\ UNCHANGED <<backups, lagging, uploads, owner, now, btimers, bw, scheduleSide, used>>

\* A deadline lies within its second: it is over for sure in the next one.
BackupTimer(n) ==
    /\ n \in btimers /\ RetentionTime(n) < now
    /\ btimers' = btimers \ {n} /\ bq' = bq \cup {n}
    /\ UNCHANGED <<stored, owner, now, bw, scheduleSide, used>>

ScheduleTimer ==
    /\ stimer # 0 /\ stimer < now
    /\ stimer' = 0 /\ sq' = TRUE
    /\ scheduleOnly /\ UNCHANGED <<sw, used>>

\* The schedule is deleted with the cluster, and before it is gone.
DeleteCluster ==
    /\ owner = "present"
    /\ owner' = "deleting" /\ sq' = TRUE
    /\ UNCHANGED <<stored, now, backupSide, stimer, sw, used>>

ClusterGone ==
    /\ owner = "deleting"
    /\ owner' = "gone"
    /\ UNCHANGED <<stored, now, backupSide, scheduleSide, used>>

BackupClockTick ==
    /\ now < MaxTime
    /\ now' = now + 1
    /\ UNCHANGED <<stored, owner, backupSide, scheduleSide, used>>

\* The process dies and starts again with everything in its queues.
Restart ==
    /\ Fault
    /\ bcache' = backups
    /\ bq' = DOMAIN backups /\ btimers' = {} /\ bw' = IdleBackupWorker
    /\ sq' = (owner # "gone") /\ stimer' = 0 /\ sw' = "idle"
    /\ UNCHANGED <<backups, lagging, uploads, owner, now>>

-----------------------------------------------------------------------------
Settled == lagging \/ bcache = backups

Step ==
    \/ \E n \in Names : GetBackup(n)
    \/ BackupWorkerStep \/ BackupWorkerFault
    \/ ScheduleWorkerStep \/ CreateBackupFails
    \/ ScheduleTimer \/ \E n \in Names : BackupTimer(n)
    \/ DeleteCluster \/ ClusterGone \/ BackupClockTick \/ Restart

Next == SyncBackups \/ (Settled /\ Step)

Spec == Init /\ [][Next]_vars

\* Informers deliver, timers fire, a worker with a key in its queue goes on, time
\* passes, and a deleted cluster is gone in the end.
BackupFair == BackupWorkerStep \/ \E n \in Names : GetBackup(n) \/ BackupTimer(n)
ScheduleFair == ScheduleWorkerStep \/ ScheduleTimer

FairNext ==
    /\ WF_vars(SyncBackups)
    /\ SF_vars(Settled /\ BackupFair)
    /\ SF_vars(Settled /\ ScheduleFair)
    /\ SF_vars(Settled /\ (BackupClockTick \/ ClusterGone))

FairSpec == Spec /\ FairNext

-----------------------------------------------------------------------------
(* Types *)

BackupSteps == {"idle", "upload", "retain", "delete", "status"}

\* Every variable keeps its type, and a worker that is busy holds a Backup.
BackupTypeOK ==
    /\ DOMAIN backups \subseteq Names /\ \A n \in DOMAIN backups : backups[n] \in 0 .. MaxTime
    /\ DOMAIN bcache \subseteq Names /\ \A n \in DOMAIN bcache : bcache[n] \in 0 .. MaxTime
    /\ uploads \subseteq Names /\ lagging \in BOOLEAN
    /\ owner \in {"present", "deleting", "gone"} /\ now \in Names
    /\ bq \subseteq Names /\ btimers \subseteq Names
    /\ bw \in [pc : BackupSteps, n : 0 .. MaxTime, read : 0 .. MaxTime,
               finished : 0 .. MaxTime, result : {"done", "requeue", "requeueAfter"}]
    /\ bw.pc # "idle" => bw.n \in Names
    /\ sq \in BOOLEAN /\ stimer \in Nat /\ sw \in {"idle", "create"}
    /\ used \in [due : 0 .. MaxBackups, faults : 0 .. MaxFaults, overtaken : 0 .. MaxFaults]

-----------------------------------------------------------------------------
(* Uploads *)

\* A Backup that says it is finished can be restored from until its retention
\* period is over: upload, status and removal are three requests that fail one
\* by one and may work from an old copy (backup_controller.go:97-106, 147).
FinishedHasUpload ==
    \A n \in DOMAIN backups : backups[n] # 0 /\ now < RetentionTime(n) => n \in uploads

\* Every object in the bucket belongs to a Backup that is stored or being worked
\* on, so RemoveStale will find it: the object goes before the Backup does
\* (backup_controller.go:147-154).  With an old copy and a fault together an
\* upload made for a Backup that is gone already can stay behind.
NoOrphanUpload ==
    ~(lagging /\ used.faults > 0) =>
        uploads \subseteq DOMAIN backups \cup (IF bw.pc = "idle" THEN bq ELSE bq \cup {bw.n})

\* What should be gone: Backups and objects past their retention time.
Expired == {n \in DOMAIN backups \cup uploads : RetentionTime(n) < now}

\* While nothing overtakes its timer, a Backup whose retention period is over
\* goes, with its object, also when its cluster is gone, when calls fail and
\* when the process restarts (backup_controller.go:143-161).
ExpiredGoes ==
    (Expired # {}) ~> (Expired = {} \/ used.overtaken > 0 \/ (lagging /\ used.faults > 0))

-----------------------------------------------------------------------------
(* Schedule *)

\* With a cache that does not lag a Backup is begun only when the last one has
\* finished (backupschedule_controller.go:80-93).
OneInProgress ==
    ~lagging => \A j, n \in DOMAIN backups : backups[j] = 0 /\ backups[n] = 0 => j = n

\* ... and a whole period after it finished: between the list and the creation
\* nothing finishes (backupschedule_controller.go:95-97).
PeriodKept ==
    [][\A n \in DOMAIN backups' \ DOMAIN backups :
          ~lagging => \A j \in DOMAIN backups : backups[j] + CreationPeriod <= n]_vars

\* The last Backup finished more than a period ago and no timer is set.
LastFinished == Max({backups[n] : n \in DOMAIN backups} \cup {0})
Overdue ==
    owner = "present" /\ stimer < now /\ LastFinished + CreationPeriod < now

\* Whatever the cache shows, in a behaviour without faults an overdue Backup is
\* taken in the end (backupschedule_controller.go:67-104): the schedule neither
\* stops nor waits for ever for a Backup nobody works on.
ScheduleGoesOn ==
    Overdue ~> (~Overdue \/ used.faults + used.overtaken > 0 \/ used.due = MaxBackups)
=============================================================================
