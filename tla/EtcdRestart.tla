---------------------------- MODULE EtcdRestart ----------------------------
(***************************************************************************)
(* Upgrading a running etcd cluster: install_host.yml or                   *)
(* install_docker.yml with clean_v2_store.yml, the part of configure.yml   *)
(* that looks at a running cluster, and the handlers that listen to        *)
(* `Restart etcd': a backup, the restart of the members under a throttle,  *)
(* the wait for them and the removal of old backups.                       *)
(*                                                                         *)
(* A notification lives as long as the ansible run.  A member is synced    *)
(* when it serves; its process needs a majority of processes for that.     *)
(***************************************************************************)
EXTENDS Integers, FiniteSets

CONSTANTS
    Hosts,      \* the group etcd
    Settings,   \* sets of [deployment : "host" or "docker", crosses : BOOLEAN];
                \* crosses: the upgrade goes from below 3.6 to 3.6 or later
    Retention,  \* etcd_backup_retention_count
    Faults,     \* what may go wrong in a behaviour
    MaxRuns     \* bound: how often the playbook is started

ASSUME HostsAssumption == IsFiniteSet(Hosts) /\ Hosts # {}
ASSUME SettingsAssumption ==
    /\ Settings \subseteq [deployment : {"host", "docker"}, crosses : BOOLEAN]
    /\ Retention \in Int /\ MaxRuns \in Nat
    /\ Faults \subseteq {"interrupt", "backup", "start"}

VARIABLES
    setting,
    \* the hosts
    installed,  \* the binary (or launch script) is the new one
    current,    \* the process was last started from the new one
    up, synced, \* the process runs; the member serves
    stopped,    \* the unit was stopped, systemd leaves it alone
    v2store,    \* the data directory still has a v2 store
    \* /etc/etcd.env (templates/etcd.env.j2)
    limited,    \* it has the temporary settings of the cleanup
    versioned,  \* its first line names the new version
    existing,   \* ETCD_INITIAL_CLUSTER_STATE is `existing', not `new'
    \* backups
    backups,    \* backup directories, named by the run that made them
    snapshots,  \* those of them whose snapshot is complete
    \* the ansible run
    runs, task, pending, failed,
    inflight,   \* hosts on which `Restart etcd' is at work
    notified,   \* hosts with a pending notification of `Restart etcd'
    older,      \* etcd_current_version is known and below 3.6
    healthy     \* register etcd_cluster_is_healthy: rc = 0

process == <<installed, current, up, synced, stopped, v2store>>
env == <<limited, versioned, existing>>
disk == <<backups, snapshots>>
engine == <<runs, task, pending, failed, inflight>>
registers == <<notified, older, healthy>>
vars == <<setting, process, env, disk, engine, registers>>

Docker == setting.deployment = "docker"
Majority(S) == 2 * Cardinality(S) > Cardinality(Hosts)

CleanupTasks == {"v2_config", "v2_stop", "v2_start"}
RoleTasks == CleanupTasks \cup {"version", "install", "config", "ensure", "refresh"}
Handlers == {"backup", "snapshot", "restart", "serve", "cleanup"}
Tasks == RoleTasks \cup Handlers \cup {"none", "health", "wait", "done"}

-----------------------------------------------------------------------------
(* The engine *)

\* Hosts that run a task; the handlers run on the notified hosts.
RunsOn(t) ==
    CASE t \in CleanupTasks -> IF setting.crosses THEN older ELSE {}
      [] t \in Handlers -> notified
      [] t \in RoleTasks \ CleanupTasks -> Hosts
      [] OTHER -> {}

Begin(t) ==
    /\ task' = t /\ pending' = RunsOn(t) /\ failed' = {}
    /\ UNCHANGED <<runs, inflight>>

AtTask(t, h) == task = t /\ h \in pending

Ran(h, ok) ==
    /\ pending' = pending \ {h}
    /\ failed' = IF ok THEN failed ELSE failed \cup {h}
    /\ inflight' = inflight \ {h}
    /\ UNCHANGED <<runs, task>>

-----------------------------------------------------------------------------
(* etcd and systemd *)

\* A new etcd exits on a v2 store (clean_v2_store.yml 3-4).
CanStart(h) == h \notin up /\ ~(h \in installed /\ h \in v2store)

\* Type=notify returns when the member serves, the docker unit at once.
StartDone(h) == IF Docker THEN h \in up ELSE h \in synced

Launch(h) ==
    /\ CanStart(h)
    /\ up' = up \cup {h}
    /\ stopped' = stopped \ {h}
    /\ current' = IF h \in installed THEN current \cup {h} ELSE current \ {h}
    /\ v2store' = IF h \in limited THEN v2store \ {h} ELSE v2store
    /\ UNCHANGED <<setting, env, installed, synced, disk, engine, registers>>

\* The process exits, or is killed because it was not ready in time.
StartFails(h) ==
    /\ \/ h \notin up /\ ("start" \in Faults \/ ~CanStart(h))
       \/ h \in up \ synced /\ ~Majority(up) /\ ~Docker
    /\ up' = up \ {h}
    /\ stopped' = stopped \ {h}
    /\ UNCHANGED <<setting, env, installed, synced, current, v2store, disk, registers>>

Halt(h) ==
    /\ up' = up \ {h} /\ synced' = synced \ {h}
    /\ UNCHANGED <<setting, env, installed, current, v2store, disk, registers>>

Ready(h) ==
    /\ h \in up \ synced /\ Majority(up)
    /\ synced' = synced \cup {h}
    /\ UNCHANGED <<setting, env, installed, current, up, stopped, v2store,
                   disk, engine, registers>>

AutoRestart(h) ==
    /\ h \notin stopped \cup inflight
    /\ Launch(h)

Systemd == \E h \in Hosts : Ready(h) \/ AutoRestart(h)

-----------------------------------------------------------------------------
(* Installing the new version *)

\* The host variant asks the installed binary, the docker variant the
\* container that runs.
\* (faulty variants: both ask the binary; both ask the process)
ReadsNewInstalled(h) == h \in installed
ReadsOldRunning(h) == h \in up \ current
ReadsNew(h) == IF Docker THEN h \in up \cap current ELSE h \in installed
ReadsOld(h) == IF Docker THEN h \in up \ current ELSE h \notin installed

\* Get currently-deployed etcd version; Restart etcd if necessary
ReadVersion(h) ==
    /\ AtTask("version", h)
    /\ notified' = IF ReadsNew(h) THEN notified ELSE notified \cup {h}
    /\ older' = IF ReadsOld(h) THEN older \cup {h} ELSE older
    /\ Ran(h, TRUE)
    /\ UNCHANGED <<setting, process, env, disk, healthy>>

LimitStore(h) ==
    /\ AtTask("v2_config", h)
    /\ limited' = limited \cup {h}
    /\ Ran(h, TRUE)
    /\ UNCHANGED <<setting, process, versioned, existing, disk, registers>>

StopForCleanup(h) ==
    /\ AtTask("v2_stop", h)
    /\ Halt(h)
    /\ stopped' = stopped \cup {h}
    /\ Ran(h, TRUE)

\* (faulty variant: the binary before the cleanup's restart)
InstallEarly(h) ==
    /\ task \in {"v2_stop", "install"} /\ h \in pending
    /\ installed' = installed \cup {h}
    /\ IF task = "install" THEN Ran(h, TRUE) ELSE UNCHANGED engine
    /\ UNCHANGED <<setting, env, current, up, synced, stopped, v2store, disk, registers>>

Install(h) ==
    /\ AtTask("install", h)
    /\ installed' = installed \cup {h}
    /\ Ran(h, TRUE)
    /\ UNCHANGED <<setting, env, current, up, synced, stopped, v2store, disk, registers>>

-----------------------------------------------------------------------------
(* Configuring a cluster that runs *)

CheckHealthy ==
    /\ task = "health"
    /\ healthy' = (synced = Hosts)
    /\ Begin("config")
    /\ UNCHANGED <<setting, process, env, disk, notified, older>>

\* The file as it would be written now.
UpToDate(h) == h \notin limited /\ h \in versioned /\ (h \in existing <=> healthy)

\* refresh_config.yml, in configure.yml and again after the wait: the template
\* notifies when it changes the file.
RefreshConfig(h) ==
    /\ AtTask("config", h) \/ AtTask("refresh", h)
    /\ limited' = limited \ {h}
    /\ versioned' = versioned \cup {h}
    /\ existing' = IF healthy THEN existing \cup {h} ELSE existing \ {h}
    /\ notified' = IF UpToDate(h) THEN notified ELSE notified \cup {h}
    /\ Ran(h, TRUE)
    /\ UNCHANGED <<setting, process, disk, older, healthy>>

\* Start etcd of the cleanup; Ensure etcd is running (ignore_errors)
LaunchByTask(h) ==
    /\ AtTask("v2_start", h) \/ AtTask("ensure", h)
    /\ Launch(h)

StartReturns(h) ==
    /\ AtTask("v2_start", h) \/ AtTask("ensure", h)
    /\ StartDone(h) /\ Ran(h, TRUE)
    /\ UNCHANGED <<setting, process, env, disk, registers>>

StartTaskFails(h) ==
    /\ AtTask("v2_start", h) \/ AtTask("ensure", h)
    /\ StartFails(h)
    /\ Ran(h, Docker \/ (task = "ensure" /\ healthy))

\* Wait for etcd cluster to be healthy
WaitHealthy ==
    /\ task = "wait" /\ synced = Hosts
    /\ healthy' = TRUE
    /\ Begin("refresh")
    /\ UNCHANGED <<setting, process, env, disk, notified, older>>

-----------------------------------------------------------------------------
(* The handlers *)

CreateBackupDirectory(h) ==
    /\ AtTask("backup", h)
    /\ backups' = IF healthy THEN [backups EXCEPT ![h] = @ \cup {runs}] ELSE backups
    /\ Ran(h, TRUE)
    /\ UNCHANGED <<setting, process, env, snapshots, registers>>

\* (faulty variant: ignore_errors)
BackupDataIgnored(h) ==
    /\ AtTask("snapshot", h)
    /\ snapshots' \in {snapshots, [snapshots EXCEPT ![h] = @ \cup {runs}]}
    /\ Ran(h, TRUE)
    /\ UNCHANGED <<setting, process, env, backups, registers>>

\* Backup etcd v3 data: fails when its retries run out
BackupData(h) ==
    /\ AtTask("snapshot", h)
    /\ \/ /\ snapshots' = IF healthy THEN [snapshots EXCEPT ![h] = @ \cup {runs}]
                                     ELSE snapshots
          /\ Ran(h, TRUE)
       \/ "backup" \in Faults /\ healthy /\ Ran(h, FALSE) /\ UNCHANGED snapshots
    /\ UNCHANGED <<setting, process, env, backups, registers>>

\* (faulty variant: a majority at a time)
ThrottleMajority == Cardinality(Hosts) \div 2 + 1
Throttle == Cardinality(Hosts) \div 2

\* (faulty variant: a host that is done is restarted again)
RestartStopAgain(h) ==
    /\ task = "restart" /\ h \in notified \ inflight
    /\ Throttle = 0 \/ Cardinality(inflight) < Throttle
    /\ inflight' = inflight \cup {h}
    /\ Halt(h)
    /\ UNCHANGED <<stopped, runs, task, pending, failed>>

\* Restart etcd; no throttle when it is zero
RestartStop(h) ==
    /\ AtTask("restart", h) /\ h \notin inflight
    /\ Throttle = 0 \/ Cardinality(inflight) < Throttle
    /\ inflight' = inflight \cup {h}
    /\ Halt(h)
    /\ UNCHANGED <<stopped, runs, task, pending, failed>>

RestartLaunch(h) == h \in inflight /\ Launch(h)

RestartReturns(h) ==
    /\ h \in inflight /\ StartDone(h)
    /\ Ran(h, TRUE)
    /\ UNCHANGED <<setting, process, env, disk, registers>>

RestartFails(h) ==
    /\ h \in inflight /\ StartFails(h)
    /\ Ran(h, Docker)

\* Wait for etcd up, with retries
WaitUp(h) ==
    /\ AtTask("serve", h)
    /\ Ran(h, h \in synced)
    /\ UNCHANGED <<setting, process, env, disk, registers>>

\* (faulty variant: sorted the other way)
KeptOldest(S) == {r \in S : Cardinality({q \in S : q < r}) < Retention}
Kept(S) == {r \in S : Cardinality({q \in S : q > r}) < Retention}

\* backup_cleanup.yml
CleanupBackups(h) ==
    /\ AtTask("cleanup", h)
    /\ LET kept == IF Retention >= 0 THEN Kept(backups[h]) ELSE backups[h]
       IN  /\ backups' = [backups EXCEPT ![h] = kept]
           /\ snapshots' = [snapshots EXCEPT ![h] = @ \cap kept]
    /\ Ran(h, TRUE)
    /\ UNCHANGED <<setting, process, env, registers>>

-----------------------------------------------------------------------------
(* The run *)

NextTask(t) ==
    CASE t = "version" -> "v2_config" [] t = "v2_config" -> "v2_stop"
      [] t = "v2_stop" -> "v2_start" [] t = "v2_start" -> "install"
      [] t = "install" -> "health" [] t = "config" -> "ensure"
      [] t = "ensure" -> "wait" [] t = "refresh" -> "backup"
      [] t = "backup" -> "snapshot"
      [] t = "snapshot" -> "restart" [] t = "restart" -> "serve"
      [] t = "serve" -> "cleanup" [] t = "cleanup" -> "done"

HostTask(h) ==
    \/ ReadVersion(h) \/ LimitStore(h) \/ StopForCleanup(h) \/ Install(h)
    \/ RefreshConfig(h) \/ LaunchByTask(h) \/ StartReturns(h) \/ StartTaskFails(h)
    \/ CreateBackupDirectory(h) \/ BackupData(h)
    \/ RestartStop(h) \/ RestartLaunch(h) \/ RestartReturns(h) \/ RestartFails(h)
    \/ WaitUp(h) \/ CleanupBackups(h)

TaskDone ==
    /\ task \in RoleTasks \cup Handlers
    /\ pending = {} /\ failed = {}
    /\ Begin(NextTask(task))
    /\ UNCHANGED <<setting, process, env, disk, registers>>

\* Handlers that have not run are lost with the run.
EndRun ==
    /\ task' = "none" /\ pending' = {} /\ failed' = {} /\ inflight' = {}
    /\ notified' = {} /\ older' = {} /\ healthy' = FALSE
    /\ UNCHANGED <<setting, process, env, disk, runs>>

Abort ==
    /\ \/ pending = {} /\ failed # {}
       \/ task = "wait" /\ synced # Hosts
    /\ EndRun

Finish == task = "done" /\ EndRun

Playbook ==
    \/ \E h \in Hosts : HostTask(h)
    \/ CheckHealthy \/ WaitHealthy \/ TaskDone \/ Abort \/ Finish

StartRun ==
    /\ task = "none" /\ runs < MaxRuns
    /\ runs' = runs + 1
    /\ task' = "version" /\ pending' = Hosts
    /\ UNCHANGED <<setting, process, env, disk, failed, inflight, registers>>

\* Bound: the last run is let finish.
Interrupt ==
    /\ "interrupt" \in Faults /\ runs < MaxRuns
    /\ task # "none"
    /\ EndRun

Init ==
    /\ setting \in Settings
    /\ installed = {} /\ current = {}
    /\ up = Hosts /\ synced = Hosts /\ stopped = {}
    /\ v2store = IF setting.crosses THEN Hosts ELSE {}
    /\ limited = {} /\ versioned = {} /\ existing = Hosts
    /\ backups = [h \in Hosts |-> {}] /\ snapshots = [h \in Hosts |-> {}]
    /\ runs = 0 /\ task = "none"
    /\ pending = {} /\ failed = {} /\ inflight = {}
    /\ notified = {} /\ older = {} /\ healthy = FALSE

Next == Playbook \/ Systemd \/ StartRun \/ Interrupt

Spec == Init /\ [][Next]_vars /\ WF_vars(Playbook) /\ WF_vars(Systemd)

-----------------------------------------------------------------------------
(* Properties *)

TypeOK ==
    /\ setting \in Settings
    /\ installed \subseteq Hosts /\ current \subseteq Hosts
    /\ synced \subseteq up /\ up \subseteq Hosts /\ stopped \subseteq Hosts
    /\ v2store \subseteq Hosts
    /\ limited \subseteq Hosts /\ versioned \subseteq Hosts /\ existing \subseteq Hosts
    /\ backups \in [Hosts -> SUBSET (1..MaxRuns)]
    /\ snapshots \in [Hosts -> SUBSET (1..MaxRuns)]
    /\ runs \in 0..MaxRuns /\ task \in Tasks
    /\ pending \subseteq Hosts /\ failed \subseteq Hosts
    /\ inflight \subseteq pending
    /\ notified \subseteq Hosts /\ older \subseteq Hosts /\ healthy \in BOOLEAN

\* "the cluster will keep quorum and stay available" (handlers/main.yml 12-14)
\* while the members are restarted, as long as none of them fails to start.
StaysAvailable == task = "restart" /\ failed = {} => Majority(synced)

\* It does so for the members that run under a unit of Type=notify.
HostStaysAvailable == ~Docker => StaysAvailable

\* No member is restarted before every member that will be has a snapshot of
\* this run: a backup that fails on one host keeps all of them running.
BackupBeforeRestart ==
    [][\A h \in Hosts : h \in inflight' \ inflight =>
           \A g \in notified : runs \in snapshots[g]]_vars

\* The cleanup never removes the last snapshot of a host, and removes none
\* before the restarted members serve again.
LastBackupKept ==
    [][\A h \in Hosts : ~(snapshots[h] \subseteq snapshots'[h]) =>
           snapshots'[h] # {} /\ notified \subseteq synced]_vars

\* "Restart etcd if necessary" (install_host.yml 10): after a run that
\* succeeded every member runs the installed version.
DoneMeansCurrent == task = "done" => current = Hosts

\* It holds for the first run, and for every run of the docker variant, which
\* asks the running container for its version.  (A later run of the host variant
\* is notified of what it still has to change in /etc/etcd.env, and of nothing
\* once an earlier run has refreshed the file.)
RerunCompletes == Docker \/ runs = 1 => DoneMeansCurrent

\* "need to clean up v2 store before upgrading" (clean_v2_store.yml 1-4): the
\* new binary never meets a v2 store, wherever earlier runs stopped.
CleanBeforeUpgrade == installed \cap v2store = {}
HostCleansBeforeUpgrade == ~Docker => CleanBeforeUpgrade

\* After the last run, failed or not, all members serve again, those that an
\* interrupted run had stopped included.
EventuallyServing ==
    (Docker => ~setting.crosses) /\ runs = MaxRuns ~> task = "none" /\ synced = Hosts

=============================================================================
