------------------------- MODULE EtcdRestart_proofs -------------------------
(***************************************************************************)
(* Theorems about EtcdRestart, for every group of hosts and every setting. *)
(***************************************************************************)
EXTENDS EtcdRestart, FiniteSetTheorems, TLAPS

\* Outside the tasks of hosts nothing is pending, and a task belongs to a run.
Idle ==
    /\ task \notin RoleTasks \cup Handlers => pending = {}
    /\ task # "none" => runs > 0

TypeInv == TypeOK /\ Idle

\* A task runs on hosts of the group, and only host tasks have any.
LEMMA RunsOnHosts ==
    ASSUME TypeOK, NEW t
    PROVE  /\ RunsOn(t) \subseteq Hosts
           /\ t \notin RoleTasks \cup Handlers => RunsOn(t) = {}
<1>1. CASE t \in CleanupTasks
  BY <1>1 DEF RunsOn, TypeOK, RoleTasks, CleanupTasks, Handlers
<1>2. CASE t \notin CleanupTasks /\ t \in Handlers
  BY <1>2 DEF RunsOn, TypeOK, RoleTasks, CleanupTasks, Handlers
<1>3. CASE t \notin CleanupTasks /\ t \notin Handlers /\ t \in RoleTasks
  BY <1>3 DEF RunsOn, TypeOK, RoleTasks, CleanupTasks, Handlers
<1>4. CASE t \notin CleanupTasks /\ t \notin Handlers /\ t \notin RoleTasks
  BY <1>4 DEF RunsOn, TypeOK, RoleTasks, CleanupTasks, Handlers
<1> QED BY <1>1, <1>2, <1>3, <1>4

\* The task after a task of hosts is a task.
LEMMA NextTaskIsTask ==
    ASSUME NEW t \in RoleTasks \cup Handlers
    PROVE  NextTask(t) \in Tasks \ {"none"}
BY DEF NextTask, Tasks, RoleTasks, CleanupTasks, Handlers

\* What a task of one host may do preserves the types.
LEMMA TypeHostTask ==
    ASSUME TypeInv, NEW h \in Hosts, HostTask(h)
    PROVE  TypeInv'
<1> USE DEF TypeInv, TypeOK, Idle, AtTask, Ran, RoleTasks, CleanupTasks, Handlers, env
<1>1. CASE ReadVersion(h)
  BY <1>1 DEF ReadVersion, process, disk
<1>2. CASE LimitStore(h)
  BY <1>2 DEF LimitStore, process, disk, registers
<1>3. CASE StopForCleanup(h)
  BY <1>3 DEF StopForCleanup, Halt, disk, registers
<1>4. CASE Install(h)
  BY <1>4 DEF Install, disk, registers
<1>5. CASE RefreshConfig(h)
  BY <1>5 DEF RefreshConfig, process, disk
<1>6. CASE LaunchByTask(h) \/ RestartLaunch(h)
  BY <1>6 DEF LaunchByTask, RestartLaunch, Launch, CanStart, disk, engine, registers
<1>7. CASE StartReturns(h) \/ RestartReturns(h) \/ WaitUp(h)
  BY <1>7 DEF StartReturns, RestartReturns, WaitUp, process, disk, registers
<1>8. CASE StartTaskFails(h) \/ RestartFails(h)
  <2>1. synced' \subseteq up'
    BY <1>8 DEF StartTaskFails, RestartFails, StartFails
  <2> QED
    BY <1>8, <2>1 DEF StartTaskFails, RestartFails, StartFails, disk, registers
<1>9. CASE CreateBackupDirectory(h)
  <2>1. runs \in 1..MaxRuns
    BY <1>9, SettingsAssumption DEF CreateBackupDirectory
  <2>2. backups' \in [Hosts -> SUBSET (1..MaxRuns)]
    BY <1>9, <2>1 DEF CreateBackupDirectory
  <2> QED
    BY <1>9, <2>2 DEF CreateBackupDirectory, process, registers
<1>10. CASE BackupData(h)
  <2>1. runs \in 1..MaxRuns
    BY <1>10, SettingsAssumption DEF BackupData
  <2>2. snapshots' \in [Hosts -> SUBSET (1..MaxRuns)]
    BY <1>10, <2>1 DEF BackupData
  <2> QED
    BY <1>10, <2>2 DEF BackupData, process, registers
<1>11. CASE RestartStop(h)
  BY <1>11 DEF RestartStop, Halt, disk, registers
<1>12. CASE CleanupBackups(h)
  <2> DEFINE kept == IF Retention >= 0 THEN Kept(backups[h]) ELSE backups[h]
  <2>1. kept \subseteq backups[h]
    BY DEF Kept
  <2>2. /\ backups' = [backups EXCEPT ![h] = kept]
        /\ snapshots' = [snapshots EXCEPT ![h] = @ \cap kept]
    BY <1>12 DEF CleanupBackups
  <2> HIDE DEF kept
  <2>3. /\ backups' \in [Hosts -> SUBSET (1..MaxRuns)]
        /\ snapshots' \in [Hosts -> SUBSET (1..MaxRuns)]
    BY <2>1, <2>2
  <2> QED
    BY <1>12, <2>3 DEF CleanupBackups, process, registers
<1> QED
  BY <1>1, <1>2, <1>3, <1>4, <1>5, <1>6, <1>7, <1>8, <1>9, <1>10, <1>11, <1>12
  DEF HostTask

\* Every step preserves the types.
LEMMA TypeStep == TypeInv /\ [Next]_vars => TypeInv'
<1> SUFFICES ASSUME TypeInv, [Next]_vars PROVE TypeInv'
  OBVIOUS
<1> USE DEF env
<1>1. CASE \E h \in Hosts : HostTask(h)
  BY <1>1, TypeHostTask
<1>2. CASE CheckHealthy
  <2>1. pending' \subseteq Hosts
    BY <1>2, RunsOnHosts DEF CheckHealthy, Begin, TypeInv
  <2>2. pending' = Hosts
    BY <1>2 DEF CheckHealthy, Begin, RunsOn, RoleTasks, CleanupTasks, Handlers
  <2> QED
    BY <1>2, <2>1, <2>2 DEF CheckHealthy, Begin, TypeInv, TypeOK, Idle, Tasks, RoleTasks, CleanupTasks,
       Handlers, process, disk
<1>3. CASE WaitHealthy
  <2>1. pending' \subseteq Hosts /\ pending = {}
    BY <1>3, RunsOnHosts DEF WaitHealthy, Begin, TypeInv, Idle, RoleTasks, CleanupTasks, Handlers
  <2> QED
    BY <1>3, <2>1 DEF WaitHealthy, Begin, TypeInv, TypeOK, Idle, Tasks, RoleTasks, CleanupTasks,
       Handlers, process, disk
<1>4. CASE TaskDone
  <2>1. /\ pending' \subseteq Hosts
        /\ task' \notin RoleTasks \cup Handlers => pending' = {}
    BY <1>4, RunsOnHosts DEF TaskDone, Begin, TypeInv
  <2>2. task' \in Tasks \ {"none"} /\ task # "none"
    BY <1>4, NextTaskIsTask DEF TaskDone, Begin, RoleTasks, CleanupTasks, Handlers
  <2> QED
    BY <1>4, <2>1, <2>2 DEF TaskDone, Begin, TypeInv, TypeOK, Idle, process, disk, registers
<1>5. CASE Abort \/ Finish \/ Interrupt
  BY <1>5 DEF Abort, Finish, Interrupt, EndRun, TypeInv, TypeOK, Idle, Tasks, process, disk
<1>6. CASE Systemd
  <2>1. PICK h \in Hosts : Ready(h) \/ AutoRestart(h)
    BY <1>6 DEF Systemd
  <2>2. CASE Ready(h)
    BY <2>2 DEF Ready, TypeInv, TypeOK, Idle, disk, engine, registers
  <2>3. CASE AutoRestart(h)
    BY <2>3 DEF AutoRestart, Launch, TypeInv, TypeOK, Idle, disk, engine, registers
  <2> QED BY <2>1, <2>2, <2>3
<1>7. CASE StartRun
  BY <1>7, SettingsAssumption
  DEF StartRun, TypeInv, TypeOK, Idle, Tasks, RoleTasks, CleanupTasks, process, disk, registers
<1>8. CASE UNCHANGED vars
  BY <1>8 DEF vars, process, disk, engine, registers, TypeInv, TypeOK, Idle
<1> QED
  BY <1>1, <1>2, <1>3, <1>4, <1>5, <1>6, <1>7, <1>8 DEF Next, Playbook

LEMMA TypeInit == Init => TypeInv
<1> SUFFICES ASSUME Init PROVE TypeInv
  OBVIOUS
<1>1. /\ backups \in [Hosts -> SUBSET (1..MaxRuns)]
      /\ snapshots \in [Hosts -> SUBSET (1..MaxRuns)]
  BY DEF Init
<1>2. v2store \subseteq Hosts
  BY DEF Init
<1>3. runs \in 0..MaxRuns
  BY SettingsAssumption DEF Init
<1>4. setting \in Settings /\ task \in Tasks /\ Idle
  BY DEF Init, Idle, Tasks
<1>5. /\ installed = {} /\ current = {} /\ up = Hosts /\ synced = Hosts
      /\ stopped = {} /\ limited = {} /\ versioned = {} /\ existing = Hosts /\ pending = {} /\ failed = {}
      /\ inflight = {} /\ notified = {} /\ older = {} /\ healthy = FALSE
  BY DEF Init
<1> QED
  BY <1>1, <1>2, <1>3, <1>4, <1>5 DEF TypeInv, TypeOK

\* The types of the variables (the state the role and etcd keep).
THEOREM TypeCorrect == Spec => []TypeOK
<1>1. TypeInv => TypeOK
  BY DEF TypeInv
<1> QED
  BY <1>1, TypeInit, TypeStep, PTL DEF Spec

-----------------------------------------------------------------------------
(* The throttle keeps the quorum *)

\* Until a start fails, only members under the handler's hands do not serve,
\* and they are at most as many as the throttle allows.
OnlyInflightDown ==
    ~Docker /\ task \in {"refresh", "backup", "snapshot", "restart"} /\ failed = {} =>
        Hosts \ synced \subseteq inflight
Throttled ==
    /\ inflight # {} => task = "restart"
    /\ Throttle > 0 => Cardinality(inflight) <= Throttle
RestartInv == TypeInv /\ OnlyInflightDown /\ Throttled

LEMMA InflightFinite ==
    ASSUME TypeOK
    PROVE  IsFiniteSet(inflight) /\ Cardinality(inflight) \in Nat /\ Throttle \in Nat
<1>1. IsFiniteSet(inflight)
  BY HostsAssumption, FS_Subset DEF TypeOK
<1> QED
  BY <1>1, HostsAssumption, FS_CardinalityType DEF Throttle

\* A host that leaves the set leaves the bound intact.
LEMMA FewerInflight ==
    ASSUME TypeOK, Throttled, NEW h, inflight' = inflight \ {h},
           inflight' # {} => task' = "restart"
    PROVE  Throttled'
<1>1. Cardinality(inflight \ {h}) <= Cardinality(inflight)
  BY InflightFinite, FS_Subset
<1>2. Cardinality(inflight \ {h}) \in Nat
  BY InflightFinite, FS_RemoveElement, FS_CardinalityType
<1> QED
  BY <1>1, <1>2, InflightFinite DEF Throttled, Throttle

LEMMA HostTaskKeepsRestartInv ==
    ASSUME RestartInv, NEW h \in Hosts, HostTask(h)
    PROVE  OnlyInflightDown' /\ Throttled'
<1>0. TypeOK /\ inflight \subseteq pending
  BY DEF RestartInv, TypeInv, TypeOK
<1>1. CASE \/ ReadVersion(h) \/ LimitStore(h) \/ StopForCleanup(h) \/ Install(h)
           \/ RefreshConfig(h) \/ StartReturns(h) \/ StartTaskFails(h) \/ CreateBackupDirectory(h)
           \/ BackupData(h) \/ RestartReturns(h) \/ RestartFails(h)
           \/ WaitUp(h) \/ CleanupBackups(h)
  <2>1. /\ inflight' = inflight \ {h} /\ task' = task /\ setting' = setting
    BY <1>1 DEF ReadVersion, LimitStore, StopForCleanup, Install, RefreshConfig,
       StartReturns, StartTaskFails, CreateBackupDirectory, BackupData, RestartReturns,
       RestartFails, WaitUp, CleanupBackups, Ran, Halt, StartFails
  <2>2. Throttled'
    BY <1>0, <2>1, FewerInflight DEF RestartInv, Throttled
  <2>3. OnlyInflightDown'
    <3> SUFFICES ASSUME ~Docker, task \in {"refresh", "backup", "snapshot", "restart"},
                        failed' = {}
                 PROVE  Hosts \ synced' \subseteq inflight'
      BY <2>1 DEF OnlyInflightDown, Docker
    <3>1. \/ RefreshConfig(h) \/ CreateBackupDirectory(h) \/ BackupData(h)
          \/ RestartReturns(h) \/ RestartFails(h)
      BY <1>1, <1>0 DEF ReadVersion, LimitStore, StopForCleanup, Install,
         StartReturns, StartTaskFails, WaitUp, CleanupBackups, AtTask
    <3>2. ~RestartFails(h)
      BY DEF RestartFails, Ran
    <3>3. failed = {} /\ synced' = synced
      BY <3>1, <3>2 DEF RefreshConfig, CreateBackupDirectory, BackupData, RestartReturns, Ran,
         process
    <3>4. CASE RestartReturns(h)
      BY <3>3, <3>4, <2>1 DEF RestartReturns, StartDone, RestartInv, OnlyInflightDown
    <3>5. CASE RefreshConfig(h) \/ CreateBackupDirectory(h) \/ BackupData(h)
      <4>1. inflight = {}
        BY <3>5 DEF RefreshConfig, CreateBackupDirectory, BackupData, AtTask, RestartInv, Throttled
      <4> QED
        BY <4>1, <3>3, <2>1 DEF RestartInv, OnlyInflightDown
    <3> QED BY <3>1, <3>2, <3>4, <3>5
  <2> QED BY <2>2, <2>3
<1>2. CASE LaunchByTask(h) \/ RestartLaunch(h)
  BY <1>2 DEF LaunchByTask, RestartLaunch, Launch, engine, RestartInv,
     OnlyInflightDown, Throttled, Docker, Throttle
<1>3. CASE RestartStop(h)
  <2>1. /\ inflight' = inflight \cup {h} /\ h \notin inflight
        /\ task = "restart" /\ task' = task /\ failed' = failed /\ setting' = setting
        /\ synced' = synced \ {h}
        /\ Throttle = 0 \/ Cardinality(inflight) < Throttle
    BY <1>3 DEF RestartStop, Halt, AtTask
  <2>2. Cardinality(inflight') = Cardinality(inflight) + 1
    BY <1>0, <2>1, InflightFinite, FS_AddElement
  <2>3. Throttled'
    BY <1>0, <2>1, <2>2, InflightFinite DEF Throttled, Throttle
  <2> QED
    BY <2>1, <2>3 DEF RestartInv, OnlyInflightDown, Docker
<1> QED
  BY <1>1, <1>2, <1>3 DEF HostTask

LEMMA RestartInvStep == RestartInv /\ [Next]_vars => RestartInv'
<1> SUFFICES ASSUME RestartInv, [Next]_vars PROVE OnlyInflightDown' /\ Throttled'
  BY TypeStep DEF RestartInv
<1>0. TypeOK /\ inflight \subseteq pending /\ TypeInv
  BY DEF RestartInv, TypeInv, TypeOK
<1>1. CASE \E h \in Hosts : HostTask(h)
  BY <1>1, HostTaskKeepsRestartInv
<1>2. CASE CheckHealthy
  BY <1>2, <1>0 DEF CheckHealthy, Begin, RestartInv, OnlyInflightDown, Throttled, Throttle
<1>3. CASE WaitHealthy
  BY <1>3, <1>0 DEF WaitHealthy, Begin, RestartInv, OnlyInflightDown, Throttled, Throttle,
     Docker, process
<1>4. CASE TaskDone
  <2>1. /\ pending = {} /\ failed = {} /\ task' = NextTask(task)
        /\ inflight' = inflight /\ synced' = synced /\ setting' = setting
    BY <1>4 DEF TaskDone, Begin, process
  <2>2. inflight = {}
    BY <1>0, <2>1
  <2>3. task' \in {"refresh", "backup", "snapshot", "restart"} =>
          task \in {"refresh", "backup", "snapshot"}
    BY <1>4, <2>1 DEF TaskDone, NextTask, RoleTasks, CleanupTasks, Handlers
  <2> QED
    BY <2>1, <2>2, <2>3 DEF RestartInv, OnlyInflightDown, Throttled, Throttle, Docker
<1>5. CASE Abort \/ Finish \/ Interrupt
  <2>1. inflight' = {} /\ task' = "none"
    BY <1>5 DEF Abort, Finish, Interrupt, EndRun
  <2> QED
    BY <2>1, FS_EmptySet, <1>0, InflightFinite DEF OnlyInflightDown, Throttled, Throttle
<1>6. CASE Systemd
  <2>1. PICK h \in Hosts : Ready(h) \/ AutoRestart(h)
    BY <1>6 DEF Systemd
  <2> QED
    BY <2>1 DEF Ready, AutoRestart, Launch, engine, RestartInv, OnlyInflightDown,
       Throttled, Throttle, Docker
<1>7. CASE StartRun
  BY <1>7 DEF StartRun, RestartInv, OnlyInflightDown, Throttled, Throttle
<1>8. CASE UNCHANGED vars
  BY <1>8 DEF vars, process, engine, RestartInv, OnlyInflightDown, Throttled, Throttle, Docker
<1> QED
  BY <1>1, <1>2, <1>3, <1>4, <1>5, <1>6, <1>7, <1>8 DEF Next, Playbook

\* "Truncated integer division by 2 will always return (majority - 1)": what
\* the throttle leaves is a majority of an odd number of members.
LEMMA ThrottleLeavesMajority ==
    ASSUME TypeOK, Cardinality(Hosts) % 2 = 1, Cardinality(inflight) <= Throttle,
           Hosts \ synced \subseteq inflight
    PROVE  Majority(synced)
<1> DEFINE n == Cardinality(Hosts)
           d == Cardinality(Hosts \ synced)
<1>1. /\ synced \subseteq Hosts /\ IsFiniteSet(synced) /\ IsFiniteSet(Hosts \ synced)
  BY HostsAssumption, FS_Subset DEF TypeOK
<1>2. d <= Cardinality(inflight)
  BY InflightFinite, FS_Subset
<1>3. Cardinality(synced) = n - d
  <2>1. synced = Hosts \ (Hosts \ synced) /\ Hosts \cap (Hosts \ synced) = Hosts \ synced
    BY <1>1
  <2> QED
    BY <2>1, <1>1, HostsAssumption, FS_Difference
<1>4. n \in Nat /\ d \in Nat /\ Cardinality(inflight) \in Nat
  BY <1>1, HostsAssumption, InflightFinite, FS_CardinalityType
<1>5. d <= n \div 2
  BY <1>2, <1>4 DEF Throttle
<1> HIDE DEF n, d
<1>6. 2 * (n - d) > n
  <2>1. n % 2 = 1
    BY DEF n
  <2> QED BY <1>4, <1>5, <2>1
<1> QED
  BY <1>3, <1>6 DEF Majority, n

\* Members under a Type=notify unit keep their quorum during the restarts, for
\* every odd group of at least three hosts (comment of handlers/main.yml).
THEOREM OddClusterStaysAvailable ==
    ASSUME Cardinality(Hosts) % 2 = 1, Cardinality(Hosts) > 1
    PROVE  Spec => []HostStaysAvailable
<1>1. Init => RestartInv
  <2> SUFFICES ASSUME Init PROVE OnlyInflightDown /\ Throttled
    BY TypeInit DEF RestartInv
  <2>1. inflight = {} /\ task = "none" /\ TypeOK
    BY TypeInit DEF Init, TypeInv
  <2> QED
    BY <2>1, FS_EmptySet, InflightFinite DEF OnlyInflightDown, Throttled
<1>2. RestartInv => HostStaysAvailable
  <2> SUFFICES ASSUME RestartInv, ~Docker, task = "restart", failed = {}
               PROVE  Majority(synced)
    BY DEF HostStaysAvailable, StaysAvailable
  <2>1. Throttle > 0
    BY HostsAssumption, FS_CardinalityType DEF Throttle
  <2> QED
    BY <2>1, ThrottleLeavesMajority DEF RestartInv, TypeInv, OnlyInflightDown, Throttled
<1> QED
  BY <1>1, <1>2, RestartInvStep, PTL DEF Spec

-----------------------------------------------------------------------------
(* The backups come before the restarts *)

\* The snapshot task leaves a host with a snapshot of this run or failed, and a
\* failed host ends the run before the next task.
BackedUp ==
    /\ task \in Handlers \cup {"refresh"} => healthy
    /\ task = "snapshot" =>
           \A g \in notified : g \in pending \cup failed \/ runs \in snapshots[g]
    /\ task = "restart" => \A g \in notified : runs \in snapshots[g]
BackupInv == RestartInv /\ BackedUp

LEMMA HostTaskKeepsBackedUp ==
    ASSUME BackupInv, NEW h \in Hosts, HostTask(h)
    PROVE  BackedUp'
<1> USE DEF BackupInv, BackedUp, Handlers
<1>0. TypeOK /\ (inflight # {} => task = "restart")
  BY DEF RestartInv, TypeInv, Throttled
<1>1. CASE ReadVersion(h) \/ RefreshConfig(h)
  BY <1>1 DEF ReadVersion, RefreshConfig, AtTask, Ran
<1>2. CASE \/ LimitStore(h) \/ StopForCleanup(h) \/ Install(h) \/ StartReturns(h)
           \/ StartTaskFails(h) \/ CreateBackupDirectory(h) \/ RestartReturns(h)
           \/ RestartFails(h) \/ WaitUp(h) \/ RestartStop(h)
           \/ LaunchByTask(h) \/ RestartLaunch(h)
  <2>1. /\ task' = task /\ notified' = notified /\ healthy' = healthy
        /\ runs' = runs /\ snapshots' = snapshots
    BY <1>2 DEF LimitStore, StopForCleanup, Install, StartReturns, StartTaskFails,
       CreateBackupDirectory, RestartReturns, RestartFails, WaitUp, RestartStop,
       LaunchByTask, RestartLaunch, Launch, Ran, Halt, StartFails, registers, disk, engine
  <2>2. task # "snapshot" \/ (pending' = pending /\ failed' = failed)
    BY <1>2, <1>0 DEF LimitStore, StopForCleanup, Install, StartReturns, StartTaskFails,
       CreateBackupDirectory, RestartReturns, RestartFails, WaitUp, RestartStop,
       LaunchByTask, RestartLaunch, Launch, AtTask, engine
  <2> QED BY <2>1, <2>2
<1>3. CASE BackupData(h)
  <2>1. /\ task = "snapshot" /\ task' = task /\ healthy' = healthy /\ notified' = notified
        /\ runs' = runs /\ healthy /\ pending' = pending \ {h}
    BY <1>3 DEF BackupData, AtTask, Ran, registers
  <2>2. CASE failed' = failed \cup {h} /\ snapshots' = snapshots
    BY <2>1, <2>2
  <2>3. CASE /\ snapshots' = [snapshots EXCEPT ![h] = @ \cup {runs}]
             /\ failed' = failed
    <3>1. \A g \in Hosts : snapshots[g] \subseteq snapshots'[g]
      BY <1>0, <2>3 DEF TypeOK
    <3>2. runs \in snapshots'[h]
      BY <1>0, <2>3 DEF TypeOK
    <3>3. notified \subseteq Hosts
      BY <1>0 DEF TypeOK
    <3> QED
      BY <2>1, <2>3, <3>1, <3>2, <3>3
  <2> QED
    BY <1>3, <2>1, <2>2, <2>3 DEF BackupData, Ran
<1>4. CASE CleanupBackups(h)
  BY <1>4 DEF CleanupBackups, AtTask, Ran, registers
<1> QED
  BY <1>1, <1>2, <1>3, <1>4 DEF HostTask

LEMMA BackupInvStep == BackupInv /\ [Next]_vars => BackupInv'
<1> SUFFICES ASSUME BackupInv, [Next]_vars PROVE BackedUp'
  BY RestartInvStep DEF BackupInv
<1>1. CASE \E h \in Hosts : HostTask(h)
  BY <1>1, HostTaskKeepsBackedUp
<1>2. CASE CheckHealthy
  BY <1>2 DEF CheckHealthy, Begin, BackedUp, Handlers
<1>3. CASE WaitHealthy
  BY <1>3 DEF WaitHealthy, Begin, BackedUp, Handlers
<1>4. CASE TaskDone
  <2>1. /\ pending = {} /\ failed = {} /\ task' = NextTask(task)
        /\ pending' = RunsOn(NextTask(task))
        /\ snapshots' = snapshots /\ runs' = runs
        /\ notified' = notified /\ healthy' = healthy
    BY <1>4 DEF TaskDone, Begin, disk, registers
  <2>2. task' \in Handlers \cup {"refresh"} => task \in Handlers \cup {"refresh"}
    BY <1>4, <2>1 DEF TaskDone, NextTask, RoleTasks, CleanupTasks, Handlers
  <2>3. task' = "snapshot" => pending' = notified
    <3>1. RunsOn("snapshot") = notified
      BY DEF RunsOn, Handlers, RoleTasks, CleanupTasks
    <3> QED BY <2>1, <3>1
  <2>4. task' = "restart" => task = "snapshot"
    BY <1>4, <2>1 DEF TaskDone, NextTask, RoleTasks, CleanupTasks, Handlers
  <2> QED
    BY <2>1, <2>2, <2>3, <2>4 DEF BackupInv, BackedUp
<1>5. CASE Abort \/ Finish \/ Interrupt
  BY <1>5 DEF Abort, Finish, Interrupt, EndRun, BackedUp, Handlers
<1>6. CASE Systemd
  <2>1. PICK h \in Hosts : Ready(h) \/ AutoRestart(h)
    BY <1>6 DEF Systemd
  <2> QED
    BY <2>1 DEF Ready, AutoRestart, Launch, engine, disk, registers, BackupInv, BackedUp
<1>7. CASE StartRun
  BY <1>7 DEF StartRun, BackedUp, Handlers
<1>8. CASE UNCHANGED vars
  BY <1>8 DEF vars, engine, disk, registers, BackupInv, BackedUp
<1> QED
  BY <1>1, <1>2, <1>3, <1>4, <1>5, <1>6, <1>7, <1>8 DEF Next, Playbook

\* Only the handler takes a host in hand.
LEMMA OnlyRestartStopTakes ==
    ASSUME TypeOK, [Next]_vars, NEW h \in Hosts, h \in inflight' \ inflight
    PROVE  task = "restart"
<1>1. CASE \E g \in Hosts : HostTask(g)
  <2>1. PICK g \in Hosts : HostTask(g)
    BY <1>1
  <2>2. RestartStop(g)
    BY <2>1 DEF HostTask, ReadVersion, LimitStore, StopForCleanup, Install, RefreshConfig,
       LaunchByTask, StartReturns, StartTaskFails, CreateBackupDirectory, BackupData,
       RestartLaunch, RestartReturns, RestartFails, WaitUp, CleanupBackups, Launch, Ran, engine
  <2> QED BY <2>2 DEF RestartStop, AtTask
<1>2. CASE CheckHealthy \/ WaitHealthy \/ TaskDone
  BY <1>2 DEF CheckHealthy, WaitHealthy, TaskDone, Begin
<1>3. CASE Abort \/ Finish \/ Interrupt \/ StartRun
  BY <1>3 DEF Abort, Finish, Interrupt, StartRun, EndRun
<1>4. CASE Systemd
  BY <1>4 DEF Systemd, Ready, AutoRestart, Launch, engine
<1>5. CASE UNCHANGED vars
  BY <1>5 DEF vars, engine
<1> QED
  BY <1>1, <1>2, <1>3, <1>4, <1>5 DEF Next, Playbook

\* No member is restarted before every member that will be has a snapshot of
\* this run (the order of the handlers, and any_errors_fatal).
THEOREM BackedUpBeforeRestart == Spec => BackupBeforeRestart
<1>1. Init => BackupInv
  <2> SUFFICES ASSUME Init PROVE BackupInv
    OBVIOUS
  <2>1. inflight = {} /\ task = "none" /\ TypeOK /\ TypeInv
    BY TypeInit DEF Init, TypeInv
  <2>2. OnlyInflightDown /\ Throttled /\ BackedUp
    BY <2>1, FS_EmptySet, InflightFinite
    DEF OnlyInflightDown, Throttled, BackedUp, Handlers
  <2> QED
    BY <2>1, <2>2 DEF BackupInv, RestartInv
<1>2. BackupInv /\ [Next]_vars =>
        [\A h \in Hosts : h \in inflight' \ inflight =>
             \A g \in notified : runs \in snapshots[g]]_vars
  BY OnlyRestartStopTakes DEF BackupInv, BackedUp, RestartInv, TypeInv
<1> QED
  BY <1>1, <1>2, BackupInvStep, PTL DEF Spec, BackupBeforeRestart

-----------------------------------------------------------------------------
(* The host variant cleans every store before it installs *)

\* How far the cleanup has come at each task: every host that is not installed
\* yet is known as older, is limited, then stopped, then started and so clean.
CleanByTask ==
    /\ task = "version" => Hosts \ pending \subseteq older \cup installed
    /\ task \in {"v2_config", "v2_stop", "v2_start", "install"} =>
           Hosts \subseteq older \cup installed
    /\ setting.crosses =>
           /\ task = "v2_config" => older \ pending \subseteq limited
           /\ task \in {"v2_stop", "v2_start"} => older \subseteq limited
           /\ task = "v2_stop" => \A h \in older \ pending : h \notin up \cap v2store
           /\ task = "v2_start" => \A h \in older : h \notin up \cap v2store
           /\ task = "v2_start" => \A h \in older \ pending : h \in failed \/ h \notin v2store
    /\ task = "install" => older \cap v2store = {}
StoresByTask ==
    /\ CleanBeforeUpgrade
    /\ ~setting.crosses => v2store = {}
    /\ CleanByTask
CleanInv == RestartInv /\ (~Docker => StoresByTask)

\* A start leaves the store clean when the settings are limited.
LEMMA LaunchKeepsStores ==
    ASSUME TypeOK, StoresByTask, NEW h \in Hosts, Launch(h)
    PROVE  StoresByTask'
<1>1. /\ task' = task /\ pending' = pending /\ failed' = failed /\ older' = older
      /\ installed' = installed /\ limited' = limited /\ setting' = setting
      /\ up' = up \cup {h} /\ v2store' \subseteq v2store
      /\ h \in limited => h \notin v2store'
  BY DEF Launch, env, engine, registers
<1> QED
  BY <1>1 DEF StoresByTask, CleanByTask, CleanBeforeUpgrade

LEMMA HostTaskKeepsStores ==
    ASSUME RestartInv, ~Docker, StoresByTask, NEW h \in Hosts, HostTask(h)
    PROVE  StoresByTask'
<1> USE DEF StoresByTask, CleanByTask, CleanBeforeUpgrade, env
<1>0. TypeOK /\ (inflight # {} => task = "restart")
  BY DEF RestartInv, TypeInv, Throttled
<1>1. CASE ReadVersion(h)
  <2>1. /\ task = "version" /\ task' = task /\ pending' = pending \ {h}
        /\ setting' = setting /\ installed' = installed /\ v2store' = v2store
        /\ older' = IF h \notin installed THEN older \cup {h} ELSE older
    BY <1>1 DEF ReadVersion, AtTask, Ran, ReadsOld, process
  <2> QED BY <2>1
<1>2. CASE LimitStore(h)
  BY <1>2 DEF LimitStore, AtTask, Ran, process, registers
<1>3. CASE StopForCleanup(h)
  BY <1>3 DEF StopForCleanup, AtTask, Ran, Halt, registers
<1>4. CASE Install(h)
  <2>1. h \notin v2store
    BY <1>4 DEF Install, AtTask
  <2> QED
    BY <1>4, <2>1 DEF Install, AtTask, Ran, registers
<1>5. CASE LaunchByTask(h) \/ RestartLaunch(h)
  BY <1>0, <1>5, LaunchKeepsStores DEF LaunchByTask, RestartLaunch
<1>6. CASE StartReturns(h)
  <2>1. /\ task' = task /\ pending' = pending \ {h} /\ failed' = failed
        /\ UNCHANGED <<setting, installed, up, v2store, limited, older>>
        /\ h \in up /\ task \in {"v2_start", "ensure"} /\ h \in pending
    BY <1>0, <1>6 DEF StartReturns, StartDone, AtTask, Ran, process, env, registers, TypeOK
  <2> QED BY <2>1
<1>7. CASE StartTaskFails(h)
  <2>1. /\ task' = task /\ pending' = pending \ {h} /\ up' = up \ {h}
        /\ UNCHANGED <<setting, installed, v2store, limited, older>>
        /\ \/ task = "v2_start" /\ failed' = failed \cup {h}
           \/ task = "ensure"
    BY <1>7 DEF StartTaskFails, StartFails, AtTask, Ran, env, registers
  <2> QED BY <2>1
<1>8. CASE \/ RefreshConfig(h) \/ CreateBackupDirectory(h) \/ BackupData(h) \/ RestartStop(h)
           \/ RestartReturns(h) \/ RestartFails(h) \/ WaitUp(h) \/ CleanupBackups(h)
  <2>1. /\ task' = task /\ UNCHANGED <<setting, installed, v2store>>
        /\ task \in {"config", "refresh", "backup", "snapshot", "restart", "serve", "cleanup"}
    BY <1>0, <1>8 DEF RefreshConfig, CreateBackupDirectory, BackupData, RestartStop,
       RestartReturns, RestartFails, WaitUp, CleanupBackups, AtTask, Ran, Halt, StartFails,
       process
  <2> QED BY <2>1
<1> QED
  BY <1>1, <1>2, <1>3, <1>4, <1>5, <1>6, <1>7, <1>8 DEF HostTask

LEMMA SettingKept == [Next]_vars => setting' = setting
<1> SUFFICES ASSUME [Next]_vars PROVE setting' = setting
  OBVIOUS
<1>1. ASSUME NEW h \in Hosts, HostTask(h) PROVE setting' = setting
  BY <1>1 DEF HostTask, ReadVersion, LimitStore, StopForCleanup, Install, RefreshConfig,
     LaunchByTask, StartReturns, StartTaskFails, CreateBackupDirectory, BackupData,
     RestartStop, RestartLaunch, RestartReturns, RestartFails, WaitUp, CleanupBackups,
     Launch, Halt, StartFails
<1>2. CASE CheckHealthy \/ WaitHealthy \/ TaskDone \/ Abort \/ Finish \/ Interrupt \/ StartRun
  BY <1>2 DEF CheckHealthy, WaitHealthy, TaskDone, Abort, Finish, Interrupt, StartRun, EndRun
<1>3. CASE Systemd
  BY <1>3 DEF Systemd, Ready, AutoRestart, Launch
<1> QED
  BY <1>1, <1>2, <1>3 DEF Next, Playbook, vars

LEMMA CleanInvStep == CleanInv /\ [Next]_vars => CleanInv'
<1> SUFFICES ASSUME CleanInv, [Next]_vars, ~Docker', ~Docker PROVE StoresByTask'
  BY SettingKept, RestartInvStep DEF CleanInv, Docker
<1> USE DEF env
<1>0. TypeOK /\ StoresByTask
  BY DEF CleanInv, RestartInv, TypeInv
<1>1. CASE \E h \in Hosts : HostTask(h)
  BY <1>0, <1>1, HostTaskKeepsStores DEF CleanInv
<1>2. CASE CheckHealthy \/ WaitHealthy
  BY <1>0, <1>2 DEF CheckHealthy, WaitHealthy, Begin, process, StoresByTask, CleanByTask,
     CleanBeforeUpgrade
<1>3. CASE TaskDone
  <2>1. /\ pending = {} /\ failed = {} /\ task' = NextTask(task)
        /\ pending' = RunsOn(NextTask(task)) /\ failed' = {}
        /\ UNCHANGED <<setting, installed, up, v2store, limited, older>>
    BY <1>3 DEF TaskDone, Begin, process, env, registers
  <2>2. /\ task' = "v2_config" => task = "version"
        /\ task' = "v2_stop" => task = "v2_config"
        /\ task' = "v2_start" => task = "v2_stop"
        /\ task' = "install" => task = "v2_start"
        /\ task' # "version"
    BY <1>3, <2>1 DEF TaskDone, NextTask, RoleTasks, CleanupTasks, Handlers
  <2>3. task' \in {"v2_config", "v2_stop", "v2_start"} /\ setting.crosses => pending' = older
    <3>1. \A t \in CleanupTasks :
              setting.crosses => RunsOn(t) = older
      BY DEF RunsOn, RoleTasks, CleanupTasks, Handlers
    <3> QED BY <2>1, <3>1 DEF CleanupTasks
  <2> QED
    BY <1>0, <2>1, <2>2, <2>3 DEF StoresByTask, CleanByTask, CleanBeforeUpgrade
<1>4. CASE Abort \/ Finish \/ Interrupt
  BY <1>0, <1>4 DEF Abort, Finish, Interrupt, EndRun, process, StoresByTask, CleanByTask,
     CleanBeforeUpgrade
<1>5. CASE Systemd
  <2>1. PICK h \in Hosts : Ready(h) \/ AutoRestart(h)
    BY <1>5 DEF Systemd
  <2>2. CASE Ready(h)
    BY <1>0, <2>2 DEF Ready, engine, registers, StoresByTask, CleanByTask, CleanBeforeUpgrade
  <2>3. CASE AutoRestart(h)
    BY <1>0, <2>3, LaunchKeepsStores DEF AutoRestart
  <2> QED BY <2>1, <2>2, <2>3
<1>6. CASE StartRun
  BY <1>0, <1>6 DEF StartRun, process, StoresByTask, CleanByTask, CleanBeforeUpgrade
<1>7. CASE UNCHANGED vars
  BY <1>0, <1>7 DEF vars, process, engine, registers, StoresByTask, CleanByTask,
     CleanBeforeUpgrade
<1> QED
  BY <1>1, <1>2, <1>3, <1>4, <1>5, <1>6, <1>7 DEF Next, Playbook

\* The new binary of the host variant never meets a v2 store, over any number
\* of interrupted and failed runs (clean_v2_store.yml before the installation).
THEOREM StoresCleanBeforeUpgrade == Spec => []HostCleansBeforeUpgrade
<1>1. Init => CleanInv
  <2> SUFFICES ASSUME Init PROVE CleanInv
    OBVIOUS
  <2>1. inflight = {} /\ task = "none" /\ TypeOK /\ TypeInv
    BY TypeInit DEF Init, TypeInv
  <2>2. OnlyInflightDown /\ Throttled
    BY <2>1, FS_EmptySet, InflightFinite DEF OnlyInflightDown, Throttled
  <2>3. StoresByTask
    BY <2>1 DEF Init, StoresByTask, CleanByTask, CleanBeforeUpgrade
  <2> QED
    BY <2>1, <2>2, <2>3 DEF CleanInv, RestartInv
<1>2. CleanInv => HostCleansBeforeUpgrade
  BY DEF CleanInv, StoresByTask, HostCleansBeforeUpgrade
<1> QED
  BY <1>1, <1>2, CleanInvStep, PTL DEF Spec

-----------------------------------------------------------------------------
(* The cleanup keeps a snapshot of every host *)

\* From the snapshot on the snapshot and its directory are of this run, the
\* latest there is; the hosts that pass the wait for etcd serve.
Archived(g) == runs \in backups[g] /\ runs \in snapshots[g]
ArchivedByTask ==
    /\ \A g \in Hosts : \A r \in backups[g] : r <= runs
    /\ task = "backup" => \A g \in notified \ pending : runs \in backups[g]
    /\ task \in {"snapshot", "restart"} => \A g \in notified : runs \in backups[g]
    /\ task = "serve" => \A g \in notified : Archived(g)
    /\ task = "cleanup" => \A g \in pending : Archived(g)
    /\ task = "serve" => notified \ pending \subseteq synced \cup failed
    /\ task = "cleanup" => notified \subseteq synced
ArchiveInv == BackupInv /\ ArchivedByTask

\* The latest run is among the backups that are kept.
LEMMA LatestKept ==
    ASSUME Retention # 0, NEW S \in SUBSET Nat, runs \in S, \A r \in S : r <= runs
    PROVE  runs \in (IF Retention >= 0 THEN Kept(S) ELSE S)
<1>1. {q \in S : q > runs} = {}
  <2>1. runs \in Nat /\ \A r \in S : r \in Nat /\ r <= runs
    OBVIOUS
  <2>2. \A r \in S : ~(r > runs)
    BY <2>1
  <2> QED
    BY <2>2
<1>2. Cardinality({q \in S : q > runs}) = 0
  BY <1>1, FS_EmptySet
<1>3. CASE Retention >= 0
  <2>1. Cardinality({q \in S : q > runs}) < Retention
    BY <1>2, <1>3, SettingsAssumption
  <2> QED
    BY <1>3, <2>1 DEF Kept
<1> QED
  BY <1>3

LEMMA HostTaskArchives ==
    ASSUME ArchiveInv, NEW h \in Hosts, HostTask(h)
    PROVE  ArchivedByTask'
<1> USE DEF ArchivedByTask, Archived
<1>0. TypeOK /\ ArchivedByTask /\ BackedUp /\ (inflight # {} => task = "restart")
  BY DEF ArchiveInv, BackupInv, RestartInv, TypeInv, Throttled
<1>1. CASE ReadVersion(h) \/ RefreshConfig(h)
  BY <1>0, <1>1 DEF ReadVersion, RefreshConfig, AtTask, Ran, disk
<1>2. CASE LimitStore(h) \/ StopForCleanup(h) \/ Install(h) \/ StartReturns(h) \/ StartTaskFails(h)
           \/ RestartReturns(h) \/ RestartFails(h) \/ RestartStop(h)
           \/ LaunchByTask(h) \/ RestartLaunch(h)
  <2>1. /\ task' = task /\ task \notin {"backup", "serve", "cleanup"}
        /\ UNCHANGED <<notified, runs, backups, snapshots>>
    BY <1>0, <1>2 DEF LimitStore, StopForCleanup, Install, StartReturns, StartTaskFails,
       RestartReturns, RestartFails, RestartStop, LaunchByTask, RestartLaunch, Launch,
       AtTask, Ran, Halt, StartFails, registers, disk, engine
  <2> QED BY <1>0, <2>1
<1>3. CASE CreateBackupDirectory(h)
  <2>1. /\ task = "backup" /\ task' = task /\ pending' = pending \ {h}
        /\ UNCHANGED <<notified, runs>> /\ backups' = [backups EXCEPT ![h] = @ \cup {runs}]
    BY <1>0, <1>3 DEF CreateBackupDirectory, AtTask, Ran, registers, BackedUp, Handlers
  <2>2. /\ runs \in backups'[h] /\ \A g \in Hosts : backups[g] \subseteq backups'[g]
        /\ \A g \in Hosts : backups'[g] \subseteq backups[g] \cup {runs}
    BY <1>0, <2>1 DEF TypeOK
  <2>3. runs <= runs
    BY <1>0, SettingsAssumption DEF TypeOK
  <2> QED
    BY <1>0, <2>1, <2>2, <2>3 DEF TypeOK
<1>4. CASE BackupData(h)
  <2>1. task = "snapshot" /\ task' = task /\ UNCHANGED <<notified, runs, backups>>
    BY <1>4 DEF BackupData, AtTask, Ran, registers
  <2> QED BY <1>0, <2>1
<1>5. CASE WaitUp(h)
  <2>1. /\ task = "serve" /\ task' = task /\ pending' = pending \ {h}
        /\ UNCHANGED <<notified, runs, backups, snapshots, synced>>
        /\ failed' = IF h \in synced THEN failed ELSE failed \cup {h}
    BY <1>5 DEF WaitUp, AtTask, Ran, process, disk, registers
  <2> QED BY <1>0, <2>1
<1>6. CASE CleanupBackups(h)
  <2>1. /\ task = "cleanup" /\ task' = task /\ pending' = pending \ {h}
        /\ UNCHANGED <<notified, runs, synced>>
        /\ \A g \in Hosts \ {h} : backups'[g] = backups[g] /\ snapshots'[g] = snapshots[g]
        /\ backups'[h] \subseteq backups[h]
    BY <1>0, <1>6 DEF CleanupBackups, AtTask, Ran, process, registers, TypeOK, Kept
  <2> QED BY <1>0, <2>1 DEF TypeOK
<1> QED
  BY <1>1, <1>2, <1>3, <1>4, <1>5, <1>6 DEF HostTask

LEMMA ArchiveInvStep == ArchiveInv /\ [Next]_vars => ArchiveInv'
<1> SUFFICES ASSUME ArchiveInv, [Next]_vars PROVE ArchivedByTask'
  BY BackupInvStep DEF ArchiveInv
<1> USE DEF ArchivedByTask, Archived
<1>0. TypeOK /\ ArchivedByTask /\ BackedUp
  BY DEF ArchiveInv, BackupInv, RestartInv, TypeInv
<1>1. CASE \E h \in Hosts : HostTask(h)
  BY <1>1, HostTaskArchives
<1>2. CASE CheckHealthy \/ WaitHealthy
  <2>1. /\ task' \in {"config", "refresh"} /\ pending' = RunsOn(task')
        /\ UNCHANGED <<notified, runs, backups>>
    BY <1>2 DEF CheckHealthy, WaitHealthy, Begin, disk
  <2> QED BY <1>0, <2>1
<1>3. CASE TaskDone
  <2>1. /\ pending = {} /\ failed = {} /\ pending' = RunsOn(task')
        /\ UNCHANGED <<backups, snapshots, runs, notified, synced>>
    BY <1>3 DEF TaskDone, Begin, disk, registers, process
  <2>2. /\ task' = "snapshot" => task = "backup"
        /\ task' = "restart" => task = "snapshot"
        /\ task' = "serve" => task = "restart"
        /\ task' = "cleanup" => task = "serve"
    BY <1>3 DEF TaskDone, Begin, NextTask, RoleTasks, CleanupTasks, Handlers
  <2>3. RunsOn("backup") = notified /\ RunsOn("cleanup") = notified
    BY DEF RunsOn, Handlers, RoleTasks, CleanupTasks
  <2>4. CASE task' \in {"backup", "cleanup"}
    BY <1>0, <2>1, <2>2, <2>3, <2>4
  <2>5. CASE task' \in {"snapshot", "restart", "serve"}
    <3>1. \A g \in notified : runs \in backups[g]
      BY <1>0, <2>1, <2>2, <2>5
    <3>2. task' = "serve" => \A g \in notified : runs \in snapshots[g]
      BY <1>0, <2>2 DEF BackedUp
    <3>3. task' = "serve" => pending' = notified
      BY <2>1 DEF RunsOn, Handlers, RoleTasks, CleanupTasks
    <3> QED
      BY <1>0, <2>1, <2>5, <3>1, <3>2, <3>3
  <2> QED
    BY <1>0, <2>1, <2>2, <2>4, <2>5
<1>4. CASE Abort \/ Finish \/ Interrupt
  BY <1>0, <1>4 DEF Abort, Finish, Interrupt, EndRun, disk
<1>5. CASE Systemd
  <2>1. /\ UNCHANGED <<engine, disk, registers>> /\ synced \subseteq synced'
    BY <1>5 DEF Systemd, Ready, AutoRestart, Launch
  <2>2. UNCHANGED <<task, pending, failed, runs, notified, backups, snapshots>>
    BY <2>1 DEF engine, disk, registers
  <2> QED BY <1>0, <2>1, <2>2
<1>6. CASE StartRun
  <2>1. /\ task' = "version" /\ UNCHANGED backups /\ runs' = runs + 1
    BY <1>6 DEF StartRun, disk
  <2>2. \A g \in Hosts : \A r \in backups[g] : r <= runs + 1
    BY <1>0, SettingsAssumption DEF TypeOK
  <2> QED BY <2>1, <2>2
<1>7. CASE UNCHANGED vars
  BY <1>0, <1>7 DEF vars, process, engine, disk, registers
<1> QED
  BY <1>1, <1>2, <1>3, <1>4, <1>5, <1>6, <1>7 DEF Next, Playbook

\* Only the cleanup loses snapshots, and only of its host.
LEMMA OnlyCleanupRemoves ==
    ASSUME TypeOK, [Next]_vars, NEW h \in Hosts, ~(snapshots[h] \subseteq snapshots'[h])
    PROVE  CleanupBackups(h)
<1>1. ASSUME NEW g \in Hosts, HostTask(g) PROVE CleanupBackups(h)
  <2>1. ~BackupData(g)
    BY DEF BackupData, TypeOK
  <2>2. CleanupBackups(g)
    BY <1>1, <2>1 DEF HostTask, ReadVersion, LimitStore, StopForCleanup, Install, RefreshConfig,
       LaunchByTask, StartReturns, StartTaskFails, CreateBackupDirectory, RestartStop,
       RestartLaunch, RestartReturns, RestartFails, WaitUp, Launch, Halt, StartFails, disk
  <2> QED
    BY <2>2 DEF CleanupBackups, TypeOK
<1>2. ~(CheckHealthy \/ WaitHealthy \/ TaskDone)
  BY DEF CheckHealthy, WaitHealthy, TaskDone, disk
<1>3. ~(Abort \/ Finish \/ Interrupt \/ StartRun)
  BY DEF Abort, Finish, Interrupt, StartRun, EndRun, disk
<1>4. ~Systemd /\ ~UNCHANGED vars
  BY DEF Systemd, Ready, AutoRestart, Launch, vars, disk
<1> QED
  BY <1>1, <1>2, <1>3, <1>4 DEF Next, Playbook

\* As long as etcd_backup_retention_count is not zero, the cleanup leaves the
\* latest snapshot and runs when the restarted members serve again.
THEOREM BackupsKept == Retention # 0 => (Spec => LastBackupKept)
<1> SUFFICES ASSUME Retention # 0 PROVE Spec => LastBackupKept
  OBVIOUS
<1>1. Init => ArchiveInv
  <2> SUFFICES ASSUME Init PROVE ArchiveInv
    OBVIOUS
  <2>1. inflight = {} /\ task = "none" /\ TypeOK /\ TypeInv
    BY TypeInit DEF Init, TypeInv
  <2>2. OnlyInflightDown /\ Throttled /\ BackedUp
    BY <2>1, FS_EmptySet, InflightFinite
    DEF OnlyInflightDown, Throttled, BackedUp, Handlers
  <2>3. \A g \in Hosts : backups[g] = {}
    BY DEF Init
  <2> QED
    BY <2>1, <2>2, <2>3 DEF BackupInv, RestartInv, ArchiveInv, ArchivedByTask
<1>2. ArchiveInv /\ [Next]_vars =>
        [\A h \in Hosts : ~(snapshots[h] \subseteq snapshots'[h]) =>
             snapshots'[h] # {} /\ notified \subseteq synced]_vars
  <2> SUFFICES ASSUME ArchiveInv, [Next]_vars, NEW h \in Hosts,
                      ~(snapshots[h] \subseteq snapshots'[h])
               PROVE  snapshots'[h] # {} /\ notified \subseteq synced
    OBVIOUS
  <2>1. TypeOK /\ ArchivedByTask
    BY DEF ArchiveInv, BackupInv, RestartInv, TypeInv
  <2>2. CleanupBackups(h)
    BY <2>1, OnlyCleanupRemoves
  <2>3. task = "cleanup" /\ Archived(h) /\ notified \subseteq synced
    BY <2>1, <2>2 DEF CleanupBackups, AtTask, ArchivedByTask
  <2> DEFINE kept == IF Retention >= 0 THEN Kept(backups[h]) ELSE backups[h]
  <2>4. runs \in kept
    <3>1. backups[h] \in SUBSET Nat
      BY <2>1 DEF TypeOK
    <3> QED
      BY <2>1, <2>3, <3>1, LatestKept DEF ArchivedByTask, Archived
  <2>5. snapshots' = [snapshots EXCEPT ![h] = @ \cap kept]
    BY <2>2 DEF CleanupBackups
  <2> HIDE DEF kept
  <2>6. runs \in snapshots'[h]
    BY <2>1, <2>3, <2>4, <2>5 DEF TypeOK, Archived
  <2> QED
    BY <2>3, <2>6
<1> QED
  BY <1>1, <1>2, ArchiveInvStep, PTL DEF Spec, LastBackupKept

-----------------------------------------------------------------------------
(* A first run, and every run in docker, leaves the installed version running *)

\* A member that runs the new version got it from the installed one, so it runs
\* nothing else again; at first nothing is installed, and a run installs it on
\* every host before it restarts any.
InstalledByTask ==
    /\ current \subseteq installed
    /\ runs = 0 \/ (runs = 1 /\ task = "version") => installed = {}
    /\ task = "install" => Hosts \ pending \subseteq installed
    /\ task \in Handlers \cup {"health", "config", "ensure", "wait", "refresh"} =>
           Hosts \subseteq installed

\* A host that is restarted and up runs the installed version.
RestartedByTask ==
    /\ inflight \cap up \subseteq current
    /\ task = "restart" =>
           \A h \in notified : h \in pending \cup failed \/ (h \in up => h \in current)
    /\ task = "serve" =>
           \A h \in notified : /\ h \in up => h \in current
                              /\ h \in pending \cup failed \cup current
    /\ task \in {"cleanup", "done"} => notified \subseteq current

\* A host that is not restarted runs the installed version already.
OthersCurrent ==
    Docker \/ runs = 1 =>
        /\ task = "version" => Hosts \ pending \subseteq notified \cup current
        /\ task \notin {"none", "version"} => Hosts \subseteq notified \cup current
DeployedInv == RestartInv /\ InstalledByTask /\ RestartedByTask /\ OthersCurrent

\* A start never takes the installed version from a member that ran it.
LEMMA LaunchDeploys ==
    ASSUME TypeOK, InstalledByTask, NEW h \in Hosts, Launch(h)
    PROVE  /\ current \subseteq current' /\ up' = up \cup {h}
           /\ h \in installed => h \in current'
           /\ current' \subseteq installed
           /\ UNCHANGED <<setting, installed, engine, registers>>
BY DEF Launch, InstalledByTask, TypeOK

LEMMA LaunchKeepsDeployed ==
    ASSUME DeployedInv, NEW h \in Hosts, Launch(h)
    PROVE  InstalledByTask' /\ RestartedByTask' /\ OthersCurrent'
<1>0. TypeOK /\ InstalledByTask /\ RestartedByTask /\ OthersCurrent
      /\ (inflight # {} => task = "restart")
  BY DEF DeployedInv, RestartInv, TypeInv, Throttled
<1>1. /\ current \subseteq current' /\ up' = up \cup {h}
      /\ h \in installed => h \in current'
      /\ current' \subseteq installed
      /\ UNCHANGED <<setting, installed, task, pending, failed, inflight, runs, notified>>
  BY <1>0, LaunchDeploys DEF engine, registers
<1>2. InstalledByTask'
  BY <1>0, <1>1 DEF InstalledByTask
<1>3. task \in Handlers => h \in current'
  BY <1>0, <1>1 DEF InstalledByTask
<1>4. RestartedByTask'
  BY <1>0, <1>1, <1>3 DEF RestartedByTask, Handlers
<1>5. OthersCurrent'
  BY <1>0, <1>1 DEF OthersCurrent, Docker
<1> QED
  BY <1>2, <1>4, <1>5

LEMMA HostTaskKeepsDeployed ==
    ASSUME DeployedInv, NEW h \in Hosts, HostTask(h)
    PROVE  InstalledByTask' /\ RestartedByTask' /\ OthersCurrent'
<1>0. /\ TypeOK /\ InstalledByTask /\ RestartedByTask /\ OthersCurrent
      /\ inflight # {} => task = "restart"
  BY DEF DeployedInv, RestartInv, TypeInv, Throttled
<1>1. CASE ReadVersion(h)
  <2>1. /\ task = "version" /\ task' = task /\ pending' = pending \ {h}
        /\ UNCHANGED <<setting, installed, current, up, runs>>
        /\ inflight' \subseteq inflight
        /\ notified' = IF ReadsNew(h) THEN notified ELSE notified \cup {h}
    BY <1>1 DEF ReadVersion, AtTask, Ran, process
  <2>2. (Docker \/ runs = 1) /\ ReadsNew(h) => h \in current
    BY <1>0, <2>1 DEF ReadsNew, InstalledByTask
  <2>3. InstalledByTask' /\ RestartedByTask'
    BY <1>0, <2>1 DEF InstalledByTask, RestartedByTask, Handlers
  <2>4. OthersCurrent'
    BY <1>0, <2>1, <2>2 DEF OthersCurrent, Docker
  <2> QED BY <2>3, <2>4
<1>2. CASE Install(h)
  <2>1. /\ task = "install" /\ task' = task /\ pending' = pending \ {h}
        /\ UNCHANGED <<setting, current, up, runs, notified>>
        /\ inflight' \subseteq inflight /\ installed' = installed \cup {h}
    BY <1>2 DEF Install, AtTask, Ran, registers
  <2>2. runs > 0 /\ runs \in Nat
    BY <2>1, SettingsAssumption DEF DeployedInv, RestartInv, TypeInv, TypeOK, Idle
  <2>3. InstalledByTask'
    BY <1>0, <2>1, <2>2 DEF InstalledByTask, Handlers
  <2> QED
    BY <1>0, <2>1, <2>3 DEF RestartedByTask, OthersCurrent, Docker
<1>3. CASE LaunchByTask(h) \/ RestartLaunch(h)
  BY <1>3, LaunchKeepsDeployed DEF LaunchByTask, RestartLaunch
<1>4. CASE LimitStore(h) \/ StopForCleanup(h) \/ RefreshConfig(h) \/ StartReturns(h)
           \/ StartTaskFails(h) \/ CreateBackupDirectory(h) \/ BackupData(h)
           \/ CleanupBackups(h)
  <2>1. /\ task' = task
        /\ task \in CleanupTasks \cup {"config", "ensure", "refresh", "backup", "snapshot",
                                   "cleanup"}
        /\ UNCHANGED <<setting, installed, current, runs>>
        /\ inflight' \subseteq inflight /\ up' \subseteq up /\ notified \subseteq notified'
        /\ task = "cleanup" => UNCHANGED notified
    BY <1>0, <1>4 DEF LimitStore, StopForCleanup, RefreshConfig, StartReturns,
       StartTaskFails, CreateBackupDirectory, BackupData, CleanupBackups, AtTask, Ran, Halt,
       StartFails, registers, process, CleanupTasks
  <2>2. InstalledByTask' /\ RestartedByTask'
    BY <1>0, <2>1 DEF InstalledByTask, RestartedByTask, Handlers, CleanupTasks
  <2>3. OthersCurrent'
    BY <1>0, <2>1 DEF OthersCurrent, Docker, CleanupTasks
  <2> QED BY <2>2, <2>3
<1>5. CASE RestartStop(h)
  <2>1. /\ task = "restart" /\ up' = up \ {h} /\ inflight' = inflight \cup {h}
        /\ UNCHANGED <<setting, installed, current, runs, task, pending, failed, notified>>
    BY <1>5 DEF RestartStop, AtTask, Halt, registers
  <2>2. InstalledByTask' /\ RestartedByTask'
    BY <1>0, <2>1 DEF InstalledByTask, RestartedByTask, Handlers
  <2> QED
    BY <1>0, <2>1, <2>2 DEF OthersCurrent, Docker
<1>6. CASE RestartReturns(h) \/ RestartFails(h)
  <2>1. /\ task = "restart" /\ task' = task /\ h \in inflight
        /\ pending' = pending \ {h} /\ inflight' = inflight \ {h}
        /\ UNCHANGED <<setting, installed, current, runs, notified>>
        /\ up' \subseteq up /\ failed \subseteq failed'
    BY <1>0, <1>6 DEF RestartReturns, RestartFails, StartFails, Ran, registers, process
  <2>2. h \in up => h \in current
    BY <1>0, <2>1 DEF RestartedByTask
  <2>3. InstalledByTask' /\ RestartedByTask'
    BY <1>0, <2>1, <2>2 DEF InstalledByTask, RestartedByTask, Handlers
  <2> QED
    BY <1>0, <2>1, <2>3 DEF OthersCurrent, Docker
<1>7. CASE WaitUp(h)
  <2>1. /\ task = "serve" /\ task' = task /\ pending' = pending \ {h}
        /\ failed' = (IF h \in synced THEN failed ELSE failed \cup {h})
        /\ UNCHANGED <<setting, installed, current, up, runs, notified>>
        /\ inflight' \subseteq inflight /\ h \in pending
    BY <1>7 DEF WaitUp, AtTask, Ran, process, registers
  <2>2. h \in synced => h \in up
    BY <1>0 DEF TypeOK
  <2>3. RestartedByTask'
    BY <1>0, <2>1, <2>2 DEF RestartedByTask
  <2> QED
    BY <1>0, <2>1, <2>3 DEF InstalledByTask, Handlers, OthersCurrent, Docker
<1> QED
  BY <1>1, <1>2, <1>3, <1>4, <1>5, <1>6, <1>7 DEF HostTask

LEMMA DeployedStep == DeployedInv /\ [Next]_vars => DeployedInv'
<1> SUFFICES ASSUME DeployedInv, [Next]_vars
             PROVE  InstalledByTask' /\ RestartedByTask' /\ OthersCurrent'
  BY RestartInvStep DEF DeployedInv
<1>0. /\ TypeOK /\ InstalledByTask /\ RestartedByTask /\ OthersCurrent
      /\ inflight # {} => task = "restart"
      /\ runs \in Nat /\ (task # "none" => runs > 0)
  BY SettingsAssumption DEF DeployedInv, RestartInv, TypeInv, Throttled, TypeOK, Idle
<1>1. CASE \E h \in Hosts : HostTask(h)
  BY <1>1, HostTaskKeepsDeployed
<1>2. CASE CheckHealthy \/ WaitHealthy
  <2>1. /\ task \in {"health", "wait"} /\ task' \in {"config", "refresh"}
        /\ UNCHANGED <<setting, installed, current, up, runs, inflight, notified>>
    BY <1>2 DEF CheckHealthy, WaitHealthy, Begin, process
  <2>2. task = "health" => Hosts \subseteq installed
    BY <1>0 DEF InstalledByTask
  <2>3. InstalledByTask' /\ RestartedByTask'
    BY <1>0, <2>1, <2>2 DEF InstalledByTask, RestartedByTask, Handlers
  <2> QED
    BY <1>0, <2>1, <2>3 DEF OthersCurrent, Docker
<1>3. CASE TaskDone
  <2>1. /\ pending = {} /\ failed = {} /\ pending' = RunsOn(task') /\ failed' = {}
        /\ UNCHANGED <<setting, installed, current, up, synced, runs, inflight, notified>>
    BY <1>3 DEF TaskDone, Begin, process, registers
  <2>2. /\ task' \notin {"none", "version"} /\ task # "none"
        /\ task' = "install" => task = "v2_start"
        /\ task' = "health" => task = "install"
        /\ task' \in {"config", "ensure", "wait", "refresh"} \cup Handlers =>
             task \in {"config", "ensure", "wait", "refresh"} \cup Handlers
        /\ task' = "serve" => task = "restart"
        /\ task' = "cleanup" => task = "serve"
        /\ task' = "done" => task = "cleanup"
    BY <1>3 DEF TaskDone, Begin, NextTask, RoleTasks, CleanupTasks, Handlers
  <2>3. /\ RunsOn("restart") = notified
        /\ RunsOn("serve") = notified
        /\ RunsOn("install") = Hosts
    BY DEF RunsOn, Handlers, RoleTasks, CleanupTasks
  <2>4. InstalledByTask'
    <3>1. task' = "install" => Hosts \ pending' = {}
      BY <2>1, <2>3
    <3> QED
      BY <1>0, <2>1, <2>2, <3>1 DEF InstalledByTask
  <2>5. RestartedByTask'
    BY <1>0, <2>1, <2>2, <2>3 DEF RestartedByTask
  <2>6. OthersCurrent'
    BY <1>0, <2>1, <2>2 DEF OthersCurrent, Docker
  <2> QED
    BY <2>4, <2>5, <2>6
<1>4. CASE Abort \/ Finish \/ Interrupt
  <2>1. /\ task' = "none" /\ inflight' = {}
        /\ UNCHANGED <<installed, current, runs>>
    BY <1>4 DEF Abort, Finish, Interrupt, EndRun, process
  <2> QED
    BY <1>0, <2>1 DEF InstalledByTask, RestartedByTask, OthersCurrent, Handlers
<1>5. CASE Systemd
  <2>1. PICK h \in Hosts : Ready(h) \/ AutoRestart(h)
    BY <1>5 DEF Systemd
  <2>2. CASE Ready(h)
    <3>1. UNCHANGED <<setting, installed, current, up, runs, task, pending, failed, inflight,
                      notified>>
      BY <2>2 DEF Ready, engine, registers
    <3> QED
      BY <1>0, <3>1 DEF InstalledByTask, RestartedByTask, OthersCurrent, Docker
  <2>3. CASE AutoRestart(h)
    BY <2>3, LaunchKeepsDeployed DEF AutoRestart
  <2> QED BY <2>1, <2>2, <2>3
<1>6. CASE StartRun
  <2>1. /\ task = "none" /\ task' = "version" /\ pending' = Hosts /\ runs' = runs + 1
        /\ UNCHANGED <<setting, installed, current, up, inflight, notified>>
    BY <1>6 DEF StartRun, process, registers
  <2>2. runs' = 1 => runs = 0
    BY <1>0, <2>1
  <2>3. runs' # 0
    BY <1>0, <2>1
  <2> QED
    BY <1>0, <2>1, <2>2, <2>3 DEF InstalledByTask, RestartedByTask, OthersCurrent, Docker,
       Handlers
<1>7. CASE UNCHANGED vars
  <2>1. UNCHANGED <<setting, installed, current, up, runs, task, pending, failed, inflight,
                    notified>>
    BY <1>7 DEF vars, process, engine, registers
  <2> QED
    BY <1>0, <2>1 DEF InstalledByTask, RestartedByTask, OthersCurrent, Docker
<1> QED
  BY <1>1, <1>2, <1>3, <1>4, <1>5, <1>6, <1>7 DEF Next, Playbook

\* The first run, and every run of the docker variant, that ends well leaves
\* every member on the installed version, whatever failed or stopped before.
THEOREM CompleteRuns == Spec => []RerunCompletes
<1>1. Init => DeployedInv
  <2> SUFFICES ASSUME Init PROVE DeployedInv
    OBVIOUS
  <2>1. inflight = {} /\ task = "none" /\ TypeOK /\ TypeInv
    BY TypeInit DEF Init, TypeInv
  <2>2. OnlyInflightDown /\ Throttled
    BY <2>1, FS_EmptySet, InflightFinite DEF OnlyInflightDown, Throttled
  <2>3. InstalledByTask /\ RestartedByTask /\ OthersCurrent
    BY <2>1 DEF Init, InstalledByTask, RestartedByTask, OthersCurrent, Handlers
  <2> QED
    BY <2>2, <2>3, <2>1 DEF DeployedInv, RestartInv
<1>2. DeployedInv => RerunCompletes
  BY DEF DeployedInv, RestartInv, TypeInv, TypeOK, RestartedByTask, OthersCurrent,
         RerunCompletes, DoneMeansCurrent
<1> QED
  BY <1>1, <1>2, DeployedStep, PTL DEF Spec
=============================================================================
