--------------------------- MODULE EtcdJoin_proofs ---------------------------
(* Theorems about EtcdJoin, for every group of hosts and every set of faults. *)
EXTENDS EtcdJoin, FiniteSetTheorems, TLAPS

LEMMA LaunchType ==
    ASSUME TypeOK, NEW h \in Hosts, Launch(h)
    PROVE  /\ members' \in [Clusters -> SUBSET Hosts]
           /\ data' \in [Hosts -> Clusters \cup {"none"}]
           /\ up' \subseteq Hosts
BY DEF TypeOK, Launch, Clusters, Envs

LEMMA JoinerInHosts == ASSUME TypeOK, joining # {} PROVE Joiner \in joining /\ Joiner \in Hosts
BY DEF Joiner, TypeOK

\* Type correctness of the cluster and of the run.
THEOREM TypeCorrect == Spec => []TypeOK
<1>1. Init => TypeOK
  <2> SUFFICES ASSUME Init PROVE TypeOK
    OBVIOUS
  <2>1. env \in [Hosts -> Envs]
    <3>1. PICK I \in Initials :
            env = [h \in Hosts |->
                     IF h \in I THEN [state |-> "existing", cluster |-> I]
                                ELSE [state |-> "none", cluster |-> {}]]
      BY DEF Init
    <3>2. I \subseteq Hosts
      BY HostsAssumption
    <3> QED
      BY <3>1, <3>2 DEF Envs, States
  <2>2. members \in [Clusters -> SUBSET Hosts] /\ data \in [Hosts -> Clusters \cup {"none"}]
    BY HostsAssumption DEF Init, Clusters
  <2>3. /\ up \subseteq Hosts /\ enabled \subseteq Hosts /\ healthy \in BOOLEAN
        /\ inCluster \subseteq Hosts /\ pending \subseteq Hosts /\ failed \subseteq Hosts
        /\ joining \subseteq Hosts /\ task \in Tasks
    BY HostsAssumption DEF Init, Tasks
  <2>4. runs \in 0..MaxRuns
    BY SettingsAssumption DEF Init
  <2> QED
    BY <2>1, <2>2, <2>3, <2>4 DEF TypeOK
<1>2. TypeOK /\ [Next]_vars => TypeOK'
  <2> SUFFICES ASSUME TypeOK, [Next]_vars PROVE TypeOK'
    OBVIOUS
  <2> USE DEF TypeOK
  <2>1. CASE CheckHealthy
    BY <2>1 DEF CheckHealthy, ClusterHealthy, Serving, Begin, HostTasks, Tasks, etcd
  <2>2. CASE WaitHealthy
    BY <2>2 DEF WaitHealthy, Begin, HostTasks, Tasks, etcd
  <2>3. ASSUME NEW h \in Hosts, RefreshConfig(h) PROVE TypeOK'
    BY <2>3 DEF RefreshConfig, EnvState, Ran, Envs, States
  <2>4. ASSUME NEW h \in Hosts, LaunchByTask(h) \/ AutoRestart(h) PROVE TypeOK'
    BY <2>4, LaunchType DEF LaunchByTask, AutoRestart, engine
  <2>5. ASSUME NEW h \in Hosts, StartReturns(h) PROVE TypeOK'
    BY <2>5 DEF StartReturns, Ran
  <2>6. ASSUME NEW h \in Hosts, CheckMember(h) PROVE TypeOK'
    BY <2>6 DEF CheckMember, Ran, etcd
  <2>7. CASE AddMember
    <3>1. Joiner \in Hosts
      BY <2>7, JoinerInHosts DEF AddMember, JoinStep
    <3> QED
      BY <2>7, <3>1 DEF AddMember, JoinStep, Tasks, JoinTasks
  <2>8. CASE JoinConfig
    <3>1. Joiner \in Hosts
      BY <2>8, JoinerInHosts DEF JoinConfig, JoinStep
    <3> QED
      BY <2>8, <3>1 DEF JoinConfig, JoinStep, EnvState, Envs, States, Tasks, JoinTasks
  <2>9. CASE EnsureMember
    <3>1. Joiner \in Hosts
      BY <2>9, JoinerInHosts DEF EnsureMember, JoinStep
    <3> QED
      BY <2>9, <3>1 DEF EnsureMember, JoinStep, Tasks, JoinTasks, etcd
  <2>10. CASE JoinLaunch
    BY <2>10, JoinerInHosts, LaunchType DEF JoinLaunch, engine
  <2>11. CASE JoinStarted
    BY <2>11 DEF JoinStarted, JoinStep, Tasks, etcd
  <2>12. CASE TaskDone
    BY <2>12 DEF TaskDone, Begin, NextTask, HostTasks, Tasks, etcd
  <2>13. CASE NextJoin
    BY <2>13 DEF NextJoin, Begin, HostTasks, JoinTasks, Tasks, etcd
  <2>14. CASE EndRun
    BY <2>14 DEF EndRun, Tasks, etcd
  <2>15. CASE StartRun
    BY <2>15, SettingsAssumption DEF StartRun, Tasks, etcd
  <2>16. ASSUME NEW h \in Hosts, MemberStops(h) PROVE TypeOK'
    BY <2>16 DEF MemberStops, engine
  <2>17. CASE UNCHANGED vars
    BY <2>17 DEF vars, etcd, engine
  <2> QED
    BY <2>1, <2>2, <2>3, <2>4, <2>5, <2>6, <2>7, <2>8, <2>9, <2>10, <2>11, <2>12, <2>13,
       <2>14, <2>15, <2>16, <2>17
       DEF Next, Playbook, Systemd, Abort, Finish, Interrupt
<1> QED
  BY <1>1, <1>2, PTL DEF Spec

-----------------------------------------------------------------------------
(* No split brain *)

\* A start fills an empty data directory; a bootstrap lists the whole group.
LEMMA LaunchFresh ==
    ASSUME TypeOK, FreshNeedsAll, NEW h \in Hosts, Launch(h)
    PROVE  /\ \E I \in Initials : OldKept(I)'
           /\ members'["fresh"] \in {{}, Hosts}
<1>1. PICK I \in Initials : OldKept(I)
  BY DEF FreshNeedsAll
<1>2. data[h] = "none" => h \notin I
  BY <1>1 DEF OldKept
<1>3. OldKept(I)'
  BY <1>1, <1>2, HostsAssumption DEF Launch, TypeOK, OldKept, Clusters
<1>4. members'["fresh"] \in {{}, Hosts}
  BY DEF Launch, FreshNeedsAll, TypeOK, Clusters
<1> QED
  BY <1>1, <1>3, <1>4

LEMMA FreshStep == TypeOK /\ FreshNeedsAll /\ [Next]_vars => FreshNeedsAll'
<1> SUFFICES ASSUME TypeOK, FreshNeedsAll, [Next]_vars PROVE FreshNeedsAll'
  OBVIOUS
<1> USE DEF FreshNeedsAll, OldKept
<1>1. CASE CheckHealthy \/ WaitHealthy \/ StartRun
  BY <1>1 DEF CheckHealthy, WaitHealthy, StartRun, Begin, JoinTasks, etcd
<1>2. ASSUME NEW h \in Hosts, RefreshConfig(h) PROVE FreshNeedsAll'
  BY <1>2 DEF RefreshConfig, Ran, TypeOK
<1>3. ASSUME NEW h \in Hosts, LaunchByTask(h) \/ AutoRestart(h) PROVE FreshNeedsAll'
  BY <1>3, LaunchFresh DEF LaunchByTask, AutoRestart, engine
<1>4. ASSUME NEW h \in Hosts, StartReturns(h) \/ CheckMember(h) \/ MemberStops(h)
      PROVE  FreshNeedsAll'
  BY <1>4 DEF StartReturns, CheckMember, MemberStops, Ran, etcd, engine
<1>5. CASE AddMember
  <2>1. Joiner \in Hosts
    BY <1>5, JoinerInHosts DEF AddMember, JoinStep
  <2>2. PICK id \in Reached : Serving(id) /\ members' = [members EXCEPT ![id] = @ \cup {Joiner}]
    BY <1>5 DEF AddMember, AddSucceeds
  <2>3. members[id] # {}
    <3> SUFFICES ASSUME members[id] = {} PROVE FALSE
      OBVIOUS
    <3>1. Started(id) = {}
      BY DEF Started
    <3> QED
      BY <2>2, <3>1, FS_EmptySet DEF Serving
  <2>4. members'["fresh"] \in {{}, Hosts}
    BY <2>1, <2>2, <2>3 DEF TypeOK, Clusters
  <2>5. \E I \in Initials : OldKept(I)'
    BY <1>5, <2>2, <2>3 DEF AddMember, TypeOK, Clusters
  <2> QED
    BY <1>5, <2>4, <2>5 DEF AddMember, JoinStep, JoinTasks
<1>6. CASE JoinConfig
  BY <1>6, JoinerInHosts DEF JoinConfig, JoinStep, EnvState, JoinTasks, TypeOK
<1>7. CASE EnsureMember \/ JoinStarted
  BY <1>7 DEF EnsureMember, JoinStarted, JoinStep, JoinTasks, etcd
<1>8. CASE JoinLaunch
  BY <1>8, JoinerInHosts, LaunchFresh DEF JoinLaunch, engine
<1>9. CASE TaskDone \/ NextJoin
  BY <1>9 DEF TaskDone, NextJoin, Begin, NextTask, HostTasks, JoinTasks, etcd
<1>10. CASE EndRun
  BY <1>10 DEF EndRun, etcd
<1>11. CASE UNCHANGED vars
  BY <1>11 DEF vars, etcd, engine
<1> QED
  BY <1>1, <1>2, <1>3, <1>4, <1>5, <1>6, <1>7, <1>8, <1>9, <1>10, <1>11
     DEF Next, Playbook, Systemd, Abort, Finish, Interrupt

\* A cluster without members does not serve.
LEMMA NobodyServes == ASSUME NEW id, members[id] = {} PROVE ~Serving(id)
<1>1. Started(id) = {}
  BY DEF Started
<1> QED
  BY <1>1, FS_EmptySet DEF Serving

(* The cluster that may serve: the old one as soon as it has a member.        *)
Only == IF members["old"] = {} THEN "fresh" ELSE "old"

\* A quorum of the new cluster takes hosts of the old one.
LEMMA OnlyServes ==
    ASSUME TypeOK, FreshNeedsAll, NewHostsMinority, NEW id \in Clusters, Serving(id)
    PROVE  id = Only
<1>1. PICK I \in Initials : OldKept(I)
  BY DEF FreshNeedsAll
<1>2. CASE id = "old"
  BY <1>2, NobodyServes DEF Only
<1>3. CASE id = "fresh" /\ I = {}
  BY <1>1, <1>3 DEF OldKept, Only
<1>4. CASE id = "fresh" /\ I # {}
  <2>1. members["fresh"] = Hosts
    BY <1>4, NobodyServes DEF FreshNeedsAll
  <2>2. Started("fresh") \subseteq Hosts \ I
    BY <1>1 DEF Started, OldKept, TypeOK
  <2>3. /\ Cardinality(Started("fresh")) <= Cardinality(Hosts \ I)
        /\ Cardinality(Started("fresh")) \in Nat
        /\ Cardinality(Hosts \ I) \in Nat /\ Cardinality(Hosts) \in Nat
    BY <2>2, HostsAssumption, FS_Subset, FS_Difference, FS_CardinalityType
  <2>4. 2 * Cardinality(Hosts \ I) <= Cardinality(Hosts)
    BY <1>4 DEF NewHostsMinority
  <2> QED
    BY <1>4, <2>1, <2>3, <2>4 DEF Serving
<1> QED
  BY <1>2, <1>3, <1>4 DEF Clusters

\* When the hosts to be added are no majority of the group, two clusters never
\* serve at once: not after a failed health check, a stopped member or an
\* interrupted run.
THEOREM MinorityCannotSplit == NewHostsMinority => (Spec => []NoSplitBrain)
<1> SUFFICES ASSUME NewHostsMinority PROVE Spec => []NoSplitBrain
  OBVIOUS
<1>1. Init => FreshNeedsAll
  BY HostsAssumption DEF Init, FreshNeedsAll, OldKept, Clusters
<1>2. TypeOK /\ FreshNeedsAll => NoSplitBrain
  BY OnlyServes DEF NoSplitBrain, Clusters
<1> QED
  BY <1>1, <1>2, FreshStep, TypeCorrect, PTL DEF Spec

-----------------------------------------------------------------------------
(* One member at a time *)

Waiting == {h \in members["old"] : data[h] = "none"}

(* The members that have not started, by the position of the first run: only *)
(* the host that is being joined, or the one an early end left.              *)
WaitingByTask ==
    runs <= 1 =>
        /\ runs = 0 => task = "none" /\ Waiting = {}
        /\ task \in {"join_config", "ensure", "join_start"} =>
               joining # {} /\ Waiting \subseteq {Joiner}
        /\ task = "none" => \E g \in Hosts : Waiting \subseteq {g}
        /\ task \notin {"join_config", "ensure", "join_start", "none"} => Waiting = {}

LEMMA LaunchStartsOnly ==
    ASSUME TypeOK, NEW h \in Hosts, Launch(h) PROVE Waiting' \subseteq Waiting
BY DEF Launch, Waiting, TypeOK, Clusters

LEMMA WaitingStep == TypeOK /\ WaitingByTask /\ [Next]_vars => WaitingByTask'
<1> SUFFICES ASSUME TypeOK, WaitingByTask, [Next]_vars, runs' <= 1 PROVE WaitingByTask'
  BY DEF WaitingByTask
<1>0. runs \in Nat
  BY SettingsAssumption DEF TypeOK
<1>1. CASE CheckHealthy \/ WaitHealthy
  BY <1>1 DEF CheckHealthy, WaitHealthy, Begin, etcd, Waiting, WaitingByTask
<1>2. ASSUME NEW h \in Hosts, RefreshConfig(h) \/ StartReturns(h) \/ CheckMember(h)
      PROVE  WaitingByTask'
  BY <1>2 DEF RefreshConfig, StartReturns, CheckMember, AtTask, Ran, etcd, Waiting,
              WaitingByTask, Joiner
<1>3. ASSUME NEW h \in Hosts, LaunchByTask(h) \/ AutoRestart(h) PROVE WaitingByTask'
  <2>1. Waiting' \subseteq Waiting /\ UNCHANGED engine
    BY <1>3, LaunchStartsOnly DEF LaunchByTask, AutoRestart
  <2> QED
    BY <2>1 DEF WaitingByTask, engine, Joiner
<1>4. CASE AddMember
  <2>1. /\ task = "add" /\ task' = "join_config" /\ joining # {}
        /\ UNCHANGED <<runs, joining, data>>
    BY <1>4 DEF AddMember, JoinStep
  <2>2. Waiting = {} /\ runs # 0
    BY <1>0, <2>1 DEF WaitingByTask
  <2>3. Waiting' \subseteq Waiting \cup {Joiner}
    BY <1>4, <2>1 DEF AddMember, Waiting, TypeOK, Clusters
  <2>4. Joiner' = Joiner
    BY <2>1 DEF Joiner
  <2> QED
    BY <2>1, <2>2, <2>3, <2>4 DEF WaitingByTask
<1>5. CASE JoinConfig \/ EnsureMember
  BY <1>5 DEF JoinConfig, EnsureMember, JoinStep, etcd, Waiting, WaitingByTask, Joiner
<1>6. CASE JoinLaunch
  <2>1. Waiting' \subseteq Waiting /\ UNCHANGED engine
    BY <1>6, JoinerInHosts, LaunchStartsOnly DEF JoinLaunch
  <2> QED
    BY <2>1 DEF WaitingByTask, engine, Joiner
<1>7. CASE JoinStarted
  <2>1. Waiting \subseteq {Joiner} /\ runs # 0 /\ data[Joiner] # "none"
    BY <1>0, <1>7 DEF JoinStarted, JoinStep, Running, WaitingByTask
  <2>2. Waiting' = {} /\ task' = "join" /\ UNCHANGED runs
    BY <1>7, <2>1 DEF JoinStarted, JoinStep, etcd, Waiting
  <2> QED
    BY <2>1, <2>2 DEF WaitingByTask
<1>8. CASE TaskDone \/ NextJoin
  <2>1. /\ task \in HostTasks \cup {"join"} /\ UNCHANGED <<members, data, runs>>
        /\ task' \notin {"none", "join_config", "ensure", "join_start"}
    BY <1>8 DEF TaskDone, NextJoin, Begin, NextTask, HostTasks, etcd
  <2> QED
    BY <2>1 DEF HostTasks, Waiting, WaitingByTask
<1>9. CASE EndRun /\ task # "none"
  <2>1. Waiting' = Waiting /\ runs' = runs /\ task' = "none"
    BY <1>9 DEF EndRun, etcd, Waiting
  <2>2. \E g \in Hosts : Waiting \subseteq {g}
    BY <1>9, <2>1, HostsAssumption, JoinerInHosts DEF WaitingByTask
  <2> QED
    BY <1>9, <2>1, <2>2 DEF WaitingByTask
<1>10. CASE StartRun
  BY <1>0, <1>10 DEF StartRun, etcd, Waiting, WaitingByTask
<1>11. ASSUME NEW h \in Hosts, MemberStops(h) PROVE WaitingByTask'
  BY <1>11 DEF MemberStops, engine, Waiting, WaitingByTask, Joiner
<1>12. CASE UNCHANGED vars
  BY <1>12 DEF vars, etcd, engine, Waiting, WaitingByTask, Joiner
<1>13. Abort \/ Finish \/ Interrupt => EndRun /\ task # "none"
  BY DEF Abort, Finish, Interrupt, HostTasks, JoinBlocked, WaitingByTask
<1> QED
  BY <1>1, <1>2, <1>3, <1>4, <1>5, <1>6, <1>7, <1>8, <1>9, <1>10, <1>11, <1>12, <1>13
     DEF Next, Playbook, Systemd

\* Up to the end of the first run at most one member is listed that has not
\* started, whatever checks fail, members stop and wherever the run ends.
THEOREM OneJoinsAtATime == Spec => []OneAtATime
<1>1. Init => WaitingByTask
  BY HostsAssumption DEF Init, WaitingByTask, Waiting, Clusters
<1>2. TypeOK /\ WaitingByTask => OneAtATime
  <2> SUFFICES ASSUME TypeOK, WaitingByTask, runs <= 1 PROVE \E g \in Hosts : Waiting \subseteq {g}
    BY DEF OneAtATime, Waiting
  <2> QED
    BY HostsAssumption, JoinerInHosts DEF WaitingByTask
<1> QED
  BY <1>1, <1>2, WaitingStep, TypeCorrect, PTL DEF Spec

-----------------------------------------------------------------------------
(* A run that succeeds *)

MembersStay == "member_down" \notin Faults

(* What the position of the run promises: from the wait for a healthy        *)
(* cluster on there is one that serves, unless a member was added a moment   *)
(* ago; the hosts of the group are its members or still to be joined; and    *)
(* the refresh rewrites every file with the answer of the last check.        *)
JoinedByTask ==
    /\ \A h \in up : data[h] # "none"
    /\ inCluster \subseteq members[Only]
    /\ task \in {"member", "join", "refresh", "done"} \cup JoinTasks => healthy
    /\ task \in {"member", "join", "add", "join_start", "refresh", "done"} => Serving(Only)
    /\ task \in {"join", "refresh", "done"} \cup JoinTasks =>
         Hosts \subseteq inCluster \cup joining
    /\ task = "join_start" => Joiner \in inCluster
    /\ task \in {"refresh", "done"} =>
         \A h \in Hosts \ pending : env[h] = [state |-> "existing", cluster |-> Hosts]
    /\ task = "done" => pending = {}

\* The cluster an etcdctl call finds serving is that one.
LEMMA ReachedServes ==
    ASSUME TypeOK, FreshNeedsAll, NewHostsMinority, JoinedByTask,
           NEW id \in Reached, Serving(id)
    PROVE  id = Only
BY OnlyServes DEF Reached, JoinedByTask, TypeOK

\* A start only adds to the started members of the cluster that serves.
LEMMA LaunchServes ==
    ASSUME TypeOK, JoinedByTask, NEW h \in Hosts, Launch(h)
    PROVE  /\ Only' = Only /\ members[Only] \subseteq members'[Only]
           /\ Serving(Only) => Serving(Only)'
           /\ \A g \in up' : data'[g] # "none"
<1>1. Only' = Only /\ Only \in Clusters /\ members[Only] \subseteq members'[Only]
  BY DEF Launch, Only, TypeOK, Clusters, Envs
<1>2. \A g \in up' : data'[g] # "none"
  BY DEF Launch, JoinedByTask, TypeOK, Clusters
<1>3. ASSUME Serving(Only) PROVE Serving(Only)'
  <2>1. members'[Only] = members[Only]
    BY <1>3, NobodyServes DEF Launch, Only, TypeOK, Clusters
  <2>2. Started(Only) \subseteq Started(Only)' /\ Started(Only)' \subseteq Hosts
    BY <1>1, <2>1, LaunchType DEF Started, Launch, TypeOK
  <2>3. /\ Cardinality(Started(Only)) <= Cardinality(Started(Only)')
        /\ Cardinality(Started(Only)) \in Nat /\ Cardinality(Started(Only)') \in Nat
        /\ Cardinality(members[Only]) \in Nat
    <3>1. members[Only] \subseteq Hosts
      BY <1>1 DEF TypeOK
    <3> QED
      BY <2>2, <3>1, HostsAssumption, FS_Subset, FS_CardinalityType
  <2>4. 2 * Cardinality(Started(Only)) > Cardinality(members[Only])
    BY <1>3 DEF Serving
  <2>5. 2 * Cardinality(Started(Only)') > Cardinality(members[Only])
    BY <2>3, <2>4
  <2> QED
    BY <1>1, <2>1, <2>5 DEF Serving
<1> QED
  BY <1>1, <1>2, <1>3

LEMMA LaunchJoined ==
    ASSUME TypeOK, JoinedByTask, NEW h \in Hosts, Launch(h),
           UNCHANGED <<env, engine, healthy, inCluster>>
    PROVE  JoinedByTask'
BY LaunchServes DEF JoinedByTask, engine, Joiner

\* With a quorum that can spare the new member the cluster goes on serving.
LEMMA AddMemberJoined ==
    ASSUME TypeOK, FreshNeedsAll, NewHostsMinority, JoinedByTask, AddMember
    PROVE  JoinedByTask'
<1>1. PICK id \in Reached : Serving(id) /\ members' = [members EXCEPT ![id] = @ \cup {Joiner}]
  BY DEF AddMember, AddSucceeds
<1>2. id = Only /\ Only \in Clusters
  BY <1>1, ReachedServes DEF Only, Clusters
<1>3. members[id] # {}
  BY <1>1, NobodyServes
<1>4. Only' = Only /\ members[Only] \subseteq members'[Only]
  BY <1>1, <1>2, <1>3 DEF Only, TypeOK, Clusters
<1> QED
  BY <1>4 DEF AddMember, JoinStep, JoinedByTask, JoinTasks

LEMMA JoinTasksJoined ==
    ASSUME TypeOK, FreshNeedsAll, NewHostsMinority, JoinedByTask,
           JoinConfig \/ EnsureMember \/ JoinStarted
    PROVE  JoinedByTask'
<1>1. /\ UNCHANGED <<members, data, up, healthy>> /\ joining # {} /\ Joiner \in Hosts
      /\ task \in JoinTasks
  BY JoinerInHosts DEF JoinConfig, EnsureMember, JoinStarted, JoinStep, etcd, JoinTasks
<1>2. Only' = Only /\ (Serving(Only) => Serving(Only)')
  BY <1>1 DEF Only, Serving, Started
<1>3. CASE JoinConfig
  BY <1>1, <1>2, <1>3 DEF JoinConfig, JoinStep, JoinedByTask, JoinTasks
<1>4. CASE EnsureMember
  <2>1. PICK id \in Reached : Serving(id) /\ Joiner \in members[id]
    BY <1>4 DEF EnsureMember
  <2>2. id = Only
    BY <2>1, ReachedServes
  <2>3. /\ task' = "join_start" /\ inCluster' = inCluster \cup {Joiner} /\ Joiner' = Joiner
        /\ UNCHANGED <<env, joining, pending>>
    BY <1>4 DEF EnsureMember, JoinStep, etcd, Joiner
  <2> QED
    BY <1>1, <1>2, <2>1, <2>2, <2>3 DEF JoinedByTask, JoinTasks
<1>5. CASE JoinStarted
  <2>1. /\ task = "join_start" /\ task' = "join" /\ joining' = joining \ {Joiner}
        /\ UNCHANGED <<env, inCluster, pending>>
    BY <1>5 DEF JoinStarted, JoinStep, etcd
  <2> QED
    BY <1>1, <1>2, <2>1 DEF JoinedByTask, JoinTasks
<1> QED
  BY <1>3, <1>4, <1>5

\* The tasks every host runs and the checks around them leave the cluster alone.
LEMMA HostTasksJoined ==
    ASSUME TypeOK, FreshNeedsAll, NewHostsMinority, JoinedByTask, NEW h \in Hosts,
           RefreshConfig(h) \/ StartReturns(h) \/ CheckMember(h)
    PROVE  JoinedByTask'
<1>1. /\ UNCHANGED <<members, data, up, healthy, task, joining>>
      /\ h \in pending /\ pending' = pending \ {h}
      /\ task \in HostTasks
  BY DEF RefreshConfig, StartReturns, CheckMember, AtTask, Ran, etcd, HostTasks
<1>2. Only' = Only /\ (Serving(Only) => Serving(Only)')
  BY <1>1 DEF Only, Serving, Started
<1>3. CASE RefreshConfig(h)
  <2>1. task = "refresh" => env' = [env EXCEPT ![h] = [state |-> "existing", cluster |-> Hosts]]
    BY <1>3 DEF RefreshConfig, EnvState, JoinedByTask
  <2>2. inCluster' = inCluster
    BY <1>3 DEF RefreshConfig
  <2> QED
    BY <1>1, <1>2, <2>1, <2>2 DEF JoinedByTask, HostTasks, JoinTasks, TypeOK
<1>4. CASE StartReturns(h)
  BY <1>1, <1>2, <1>4 DEF StartReturns, AtTask, JoinedByTask, JoinTasks
<1>5. CASE CheckMember(h)
  <2>1. PICK id \in Reached :
          inCluster' = IF Serving(id) /\ h \in members[id]
                       THEN inCluster \cup {h} ELSE inCluster \ {h}
    BY <1>5 DEF CheckMember
  <2>2. inCluster' \subseteq members[Only]
    BY <2>1, ReachedServes DEF JoinedByTask
  <2> QED
    BY <1>1, <1>2, <1>5, <2>2 DEF CheckMember, AtTask, JoinedByTask, JoinTasks
<1> QED
  BY <1>3, <1>4, <1>5

LEMMA EngineJoined ==
    ASSUME TypeOK, FreshNeedsAll, NewHostsMinority, JoinedByTask,
           CheckHealthy \/ WaitHealthy \/ TaskDone \/ NextJoin \/ EndRun \/ StartRun
    PROVE  JoinedByTask'
<1>1. UNCHANGED etcd
  BY DEF CheckHealthy, WaitHealthy, TaskDone, NextJoin, EndRun, StartRun
<1>2. Only' = Only /\ Serving(Only)' = Serving(Only)
  BY <1>1 DEF etcd, Only, Serving, Started
<1>3. CASE WaitHealthy
  <2>1. Serving(Only)
    BY <1>3, ReachedServes DEF WaitHealthy, ClusterHealthy
  <2> QED
    BY <1>1, <1>2, <1>3, <2>1 DEF WaitHealthy, Begin, etcd, JoinedByTask, JoinTasks
<1>4. CASE TaskDone
  BY <1>1, <1>2, <1>4
     DEF TaskDone, Begin, NextTask, HostTasks, etcd, JoinedByTask, JoinTasks
<1>5. CASE NextJoin
  BY <1>1, <1>2, <1>5 DEF NextJoin, Begin, HostTasks, etcd, JoinedByTask, JoinTasks
<1>6. CASE CheckHealthy \/ EndRun \/ StartRun
  BY <1>1, <1>2, <1>6
     DEF CheckHealthy, EndRun, StartRun, Begin, etcd, JoinedByTask, JoinTasks
<1> QED
  BY <1>3, <1>4, <1>5, <1>6

LEMMA JoinedStep ==
    ASSUME NewHostsMinority, MembersStay, TypeOK, FreshNeedsAll, JoinedByTask, [Next]_vars
    PROVE  JoinedByTask'
<1>1. ASSUME NEW h \in Hosts, LaunchByTask(h) \/ AutoRestart(h) PROVE JoinedByTask'
  BY <1>1, LaunchJoined DEF LaunchByTask, AutoRestart
<1>2. CASE JoinLaunch
  BY <1>2, LaunchJoined, JoinerInHosts DEF JoinLaunch
<1>3. CASE UNCHANGED vars
  BY <1>3 DEF vars, etcd, engine, JoinedByTask, Only, Serving, Started, Joiner
<1>4. \A h \in Hosts : ~MemberStops(h)
  BY DEF MemberStops, MembersStay
<1> QED
  BY <1>1, <1>2, <1>3, <1>4, AddMemberJoined, JoinTasksJoined, HostTasksJoined, EngineJoined
     DEF Next, Playbook, Systemd, Abort, Finish, Interrupt

\* A run that ends without an error leaves one cluster that serves, with every
\* host of the group as a member and in every file, whatever checks failed in
\* it and wherever the runs before it were interrupted.
THEOREM SuccessMeansJoined == NewHostsMinority /\ MembersStay => (Spec => []DoneMeansJoined)
<1> SUFFICES ASSUME NewHostsMinority, MembersStay PROVE Spec => []DoneMeansJoined
  OBVIOUS
<1>1. Init => FreshNeedsAll /\ JoinedByTask
  BY HostsAssumption
     DEF Init, FreshNeedsAll, OldKept, Clusters, JoinedByTask, Only, JoinTasks
<1>2. TypeOK /\ FreshNeedsAll /\ JoinedByTask /\ [Next]_vars => JoinedByTask'
  BY JoinedStep
<1>3. TypeOK /\ FreshNeedsAll /\ JoinedByTask => DoneMeansJoined
  <2> SUFFICES ASSUME TypeOK, FreshNeedsAll, JoinedByTask, task = "done"
               PROVE  \E id \in Clusters : Serving(id) /\ members[id] = Hosts
    BY DEF DoneMeansJoined, JoinedByTask
  <2>1. joining = {}
    BY DEF FreshNeedsAll, JoinTasks
  <2>2. Only \in Clusters
    BY DEF Only, Clusters
  <2> QED
    BY <2>1, <2>2 DEF JoinedByTask, TypeOK
<1> QED
  BY <1>1, <1>2, <1>3, FreshStep, TypeCorrect, PTL DEF Spec

-----------------------------------------------------------------------------
(* Scaling *)

\* In the etcd variant no start over a healthy cluster fails its host.
StartsIgnored == task = "start" /\ healthy => failed = {}

LEMMA StartsIgnoredStep ==
    ASSUME ~Events, StartsIgnored, [Next]_vars
    PROVE  StartsIgnored'
<1> SUFFICES ASSUME task' = "start", healthy' PROVE failed' = {}
  BY DEF StartsIgnored
<1>1. ASSUME UNCHANGED <<task, healthy, failed>> PROVE failed' = {}
  BY <1>1 DEF StartsIgnored
<1>2. ASSUME NEW h \in Hosts, StartReturns(h) PROVE failed' = {}
  BY <1>2 DEF StartReturns, StartErrorIgnored, AtTask, Ran, StartsIgnored
<1>3. ASSUME NEW h \in Hosts, LaunchByTask(h) \/ AutoRestart(h) \/ MemberStops(h)
      PROVE  failed' = {}
  BY <1>1, <1>3 DEF LaunchByTask, AutoRestart, MemberStops, engine
<1>4. ASSUME NEW h \in Hosts, RefreshConfig(h) \/ CheckMember(h) PROVE failed' = {}
  BY <1>4 DEF RefreshConfig, CheckMember, AtTask, Ran
<1>5. CASE CheckHealthy \/ WaitHealthy \/ TaskDone \/ NextJoin
  BY <1>5 DEF CheckHealthy, WaitHealthy, TaskDone, NextJoin, Begin
<1>6. CASE AddMember \/ JoinConfig \/ EnsureMember \/ JoinLaunch \/ JoinStarted
  BY <1>6 DEF AddMember, JoinConfig, EnsureMember, JoinLaunch, JoinStarted, JoinStep, engine
<1>7. CASE Abort \/ Finish \/ Interrupt \/ StartRun
  BY <1>7 DEF Abort, Finish, Interrupt, StartRun, EndRun
<1>8. CASE UNCHANGED vars
  BY <1>1, <1>8 DEF vars, engine
<1> QED
  BY <1>2, <1>3, <1>4, <1>5, <1>6, <1>7, <1>8 DEF Next, Playbook, Systemd

\* In the etcd variant a new host's start that fails does not end a run over a
\* healthy cluster; only the etcd-events variant breaks the promise.
THEOREM ScalingOfEtcdProceeds == ~Events => (Spec => ScalingProceeds)
<1> SUFFICES ASSUME ~Events PROVE Spec => ScalingProceeds
  OBVIOUS
<1>1. Init => StartsIgnored
  BY DEF Init, StartsIgnored
<1>2. StartsIgnored /\ [Next]_vars => StartsIgnored'
  BY StartsIgnoredStep
<1>3. StartsIgnored /\ [Next]_vars =>
        [(task = "start" /\ healthy /\ task' = "none") => "interrupt" \in Faults]_vars
  <2> SUFFICES ASSUME StartsIgnored, [Next]_vars, task = "start", healthy, task' = "none",
                      "interrupt" \notin Faults
               PROVE  FALSE
    OBVIOUS
  <2>1. failed = {}
    BY DEF StartsIgnored
  <2>2. ~Abort
    BY <2>1 DEF Abort, JoinBlocked
  <2>3. ~Interrupt /\ ~Finish /\ ~StartRun
    BY DEF Interrupt, Finish, StartRun
  <2>4. ~CheckHealthy /\ ~WaitHealthy /\ ~NextJoin
    BY DEF CheckHealthy, WaitHealthy, NextJoin
  <2>5. ~AddMember /\ ~JoinConfig /\ ~EnsureMember /\ ~JoinLaunch /\ ~JoinStarted
    BY DEF AddMember, JoinConfig, EnsureMember, JoinLaunch, JoinStarted, JoinStep
  <2>6. \A h \in Hosts : ~RefreshConfig(h) /\ ~CheckMember(h) /\ ~StartReturns(h)
    BY DEF RefreshConfig, CheckMember, StartReturns, AtTask, Ran
  <2>7. \A h \in Hosts : ~LaunchByTask(h) /\ ~AutoRestart(h) /\ ~MemberStops(h)
    BY DEF LaunchByTask, AutoRestart, MemberStops, engine
  <2>8. ~TaskDone
    BY DEF TaskDone, Begin, NextTask
  <2>9. task' # task
    OBVIOUS
  <2> QED
    BY <2>2, <2>3, <2>4, <2>5, <2>6, <2>7, <2>8, <2>9 DEF Next, Playbook, Systemd, vars, engine
<1> QED
  BY <1>1, <1>2, <1>3, PTL DEF Spec, ScalingProceeds
=============================================================================
