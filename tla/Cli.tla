-------------------------------- MODULE Cli --------------------------------
(***************************************************************************)
(* One command of the command line, create or update, beside the operator: *)
(* it writes the Cluster, starts to watch, and waits for an event that     *)
(* shows a Cluster as it wants it.  The command ends with what it reports: *)
(* "done", unless it was "refused" or has gone "astray".                   *)
(* Flags, output and the way to the API server are left out.               *)
(*                                                                         *)
(* A watch begins with the objects that exist and goes on with every       *)
(* write; cli.seen says whether an event that satisfies the condition is   *)
(* on its way.                                                             *)
(***************************************************************************)
EXTENDS EtcdOps

CONSTANT Asked   \* the --version of update; NoVersion: only periods are asked for

ASSUME AskedAssumption == Asked \subseteq Versions \cup {NoVersion}

VARIABLE cli

cliVars == <<vars, cli>>

Command(command, version, pc) ==
    [command |-> command, version |-> version, pc |-> pc, fresh |-> FALSE, seen |-> FALSE]

\* create has stored the new Cluster; update may be run on one that runs.  (One
\* restored from a backup is never updated: see the README.)
CliInit ==
    /\ Init
    /\ \/ /\ cluster.status.phase = "None"
          /\ cli = Command("create", cluster.spec.version, "watch")
       \/ /\ cluster.status.phase = "Running" /\ ~cluster.spec.backup
          /\ \E v \in Asked : cli = Command("update", v, "get")

Moves(pc) == cli' = [cli EXCEPT !.pc = pc]

\* The command is over; what it was is forgotten.
Ends(how) == cli' = Command("none", NoVersion, how)

\* Bound: a failure, a change or a renewal is not followed by an update, nor an
\* update by one of them.
Undisturbed == used' # used => cli.pc = "get"

\* update: the Cluster is read ...
GetForUpdate ==
    /\ cli.pc = "get" /\ EventsLeft
    /\ cli' = [cli EXCEPT !.pc = "update", !.fresh = TRUE]
    /\ UNCHANGED vars

AskedSpec ==
    IF cli.version = NoVersion THEN cluster.spec
    ELSE [cluster.spec EXCEPT !.version = cli.version]

\* ... and written with the version asked for, unless it was changed in between
\* or the webhook refuses.
UpdateAccepted == cli.fresh /\ ValidateUpdate(AskedSpec.version)

\* The Cluster has a new version, though no field here may have changed: new
\* periods, or what somebody else writes.
Rewritten(spec) ==
    /\ cluster' = [cluster EXCEPT !.spec = spec]
    /\ clag' = TRUE
    /\ cc' = IF cc.pc \in {"idle", "panicked"} THEN cc ELSE [cc EXCEPT !.fresh = FALSE]
    /\ UNCHANGED <<ccache, members, mcache, mlag, pods, pcache, pvcs, certs,
                   etcd, infra, now, cq, mq, mc, used>>

UpdateCluster ==
    /\ cli.pc = "update" /\ UpdateAccepted
    /\ IF cli.version = NoVersion \/ AskedSpec # cluster.spec
       THEN Rewritten(AskedSpec) ELSE UNCHANGED vars
    /\ Moves("watch")

SomebodyWrites ==
    /\ cli.pc = "update" /\ cli.fresh
    /\ Rewritten(cluster.spec)
    /\ cli' = [cli EXCEPT !.fresh = FALSE]

UpdateRefused ==
    /\ cli.pc = "update" /\ ~UpdateAccepted
    /\ Ends("refused")
    /\ UNCHANGED vars

\* The condition of Wait
Satisfies(c) ==
    IF cli.command = "create" THEN c.status.phase = "Running" ELSE c.status.version = cli.version

\* Mutant of StartWatch: what is there when the watch begins makes no event.
StartWatchLate ==
    /\ cli.pc = "watch"
    /\ Moves("watching")
    /\ UNCHANGED vars

StartWatch ==
    /\ cli.pc = "watch"
    /\ cli' = [cli EXCEPT !.pc = "watching", !.seen = Satisfies(cluster)]
    /\ UNCHANGED vars

Report ==
    /\ cli.pc = "watching" /\ cli.seen
    /\ Ends("done")
    /\ UNCHANGED vars

\* The error of Watch is not looked at and Wait is called on nil; or the API
\* server ends the watch: the loop over the channel ends, and nobody tells the
\* select of Wait.
LoseWatch ==
    /\ cli.pc \in {"watch", "watching"} /\ ~cli.seen
    /\ Ends("astray")
    /\ UNCHANGED vars

\* The watch is on all namespaces: a Cluster of the same name elsewhere that is
\* as the condition wants it will do.
SeeNamesake ==
    /\ cli.pc = "watching" /\ ~cli.seen
    /\ Ends("astray")
    /\ UNCHANGED vars

CliStep == GetForUpdate \/ UpdateCluster \/ UpdateRefused \/ StartWatch \/ Report
CliMishap == SomebodyWrites \/ LoseWatch \/ SeeNamesake

\* A write of the Cluster makes an event, and what update has read is old.
Observe ==
    cli' = IF cluster' = cluster THEN cli
           ELSE [cli EXCEPT !.fresh = FALSE,
                            !.seen  = @ \/ (cli.pc = "watching" /\ Satisfies(cluster'))]

CliNext ==
    \/ Next /\ Observe /\ Undisturbed
    \/ Settled /\ (CliStep \/ CliMishap)

\* The operator's fairness, and the command goes on.
CliSpec ==
    /\ CliInit /\ [][CliNext]_cliVars
    /\ FairNext
    /\ SF_cliVars(Settled /\ CliStep)

-----------------------------------------------------------------------------

\* What a command reports is so: after create every member's pod is ready, after
\* update every member has recorded the version (create.go:106-110,
\* update.go:104-108).
ReportTruth ==
    [][cli'.pc = "done" /\ cli.pc # "done" =>
          IF cli.command = "create"
          THEN \A m \in Members : pods[m].state = "ready"
          ELSE \A m \in Members : members[m].status.version = cli.version]_cliVars

\* A command that goes on ends: the event it waits for is never in the gap
\* between its write and its watch (client.go:79-119, update.go:90-108).
CommandEnds == (cli.pc \in {"update", "watch"}) ~> (cli.command = "none")
=============================================================================
