------------------------------ MODULE EtcdJoin ------------------------------
(***************************************************************************)
(* Building and growing the etcd cluster: roles/etcd/tasks/configure.yml   *)
(* with refresh_config.yml and join_etcd_member.yml, run by Ansible on the *)
(* group etcd, against an etcd cluster modelled from how these tasks use   *)
(* it (external): a member list, processes, and a data directory that      *)
(* belongs to one cluster for good.                                        *)
(*                                                                         *)
(* A host without data bootstraps a new cluster when its environment file  *)
(* says `new', and joins a running one when the file says `existing' and   *)
(* lists exactly the members of that cluster.                              *)
(***************************************************************************)
EXTENDS Integers, FiniteSets

CONSTANTS
    Hosts,      \* the group etcd
    Initials,   \* the sets of hosts that may already run a cluster
    Events,     \* TRUE: the etcd-events variants of the tasks
    Faults,     \* what may go wrong in a behaviour
    MaxRuns     \* bound: how often the playbook is started

ASSUME HostsAssumption ==
    IsFiniteSet(Hosts) /\ Hosts # {} /\ Initials \subseteq SUBSET Hosts
ASSUME SettingsAssumption ==
    /\ Events \in BOOLEAN /\ MaxRuns \in Nat
    /\ Faults \subseteq {"interrupt", "check", "member_down"}

VARIABLES
    \* etcd
    members,    \* member list of each cluster
    data,       \* cluster the data directory of each host belongs to
    up,         \* hosts whose etcd process runs
    enabled,    \* hosts whose unit systemd restarts (Restart=always)
    env,        \* /etc/etcd.env: ETCD_INITIAL_CLUSTER_STATE and _CLUSTER
    \* the ansible run
    runs, task, pending, failed,
    healthy,    \* register etcd_cluster_is_healthy: rc = 0
    inCluster,  \* register etcd_member_in_cluster: the hosts with rc = 0
    joining     \* hosts still to be joined, the loop over groups['etcd']

etcd == <<members, data, up, enabled, env>>
engine == <<runs, task, pending, failed, joining>>
vars == <<etcd, engine, healthy, inCluster>>

Clusters == {"old", "fresh"}
States == {"none", "new", "existing"}
Envs == [state : States, cluster : SUBSET Hosts]
HostTasks == {"config", "start", "member", "refresh"}
JoinTasks == {"add", "join_config", "ensure", "join_start"}
Tasks == HostTasks \cup JoinTasks \cup {"none", "check", "wait", "join", "done"}

-----------------------------------------------------------------------------
(* etcd *)

Started(id) == {h \in up : data[h] = id /\ h \in members[id]}
Serving(id) == 2 * Cardinality(Started(id)) > Cardinality(members[id])

\* etcdctl endpoint --cluster health: every started member answers.
ClusterHealthy(id) ==
    Serving(id) /\ \A h \in members[id] : data[h] = id => h \in up

\* The cluster an existing environment file lets a host without data join.
Joinable(h, id) ==
    /\ env[h].state = "existing" /\ env[h].cluster = members[id]
    /\ h \in members[id]
    /\ \E g \in up : g # h /\ data[g] = id /\ g \in members[id]

\* The process of h starts; the data directory is filled by the first start.
Launch(h) ==
    /\ h \notin up
    /\ up' = up \cup {h}
    /\ \/ /\ data[h] # "none" /\ h \in members[data[h]]
          /\ UNCHANGED <<members, data>>
       \/ /\ data[h] = "none" /\ env[h].state = "new"
          /\ data' = [data EXCEPT ![h] = "fresh"]
          /\ members' = [members EXCEPT !["fresh"] =
                            IF @ = {} THEN env[h].cluster ELSE @]
       \/ /\ data[h] = "none"
          /\ \E id \in Clusters :
                 Joinable(h, id) /\ data' = [data EXCEPT ![h] = id]
          /\ UNCHANGED members

CanLaunch(h) ==
    \/ data[h] # "none" /\ h \in members[data[h]]
    \/ data[h] = "none" /\ env[h].state = "new"
    \/ data[h] = "none" /\ \E id \in Clusters : Joinable(h, id)

Running(h) == h \in up /\ data[h] # "none" /\ Serving(data[h])

\* Clusters an etcdctl call may reach through the endpoints of groups['etcd'].
Reached == {data[h] : h \in up}

\* etcd refuses a member whose addition would leave too few started members.
MayAdd(id) ==
    /\ Serving(id)
    /\ 2 * Cardinality(Started(id)) > Cardinality(members[id]) + 1
       \/ Cardinality(members[id]) = 1

-----------------------------------------------------------------------------
(* The tasks *)

Begin(t) ==
    /\ task' = t
    /\ pending' = IF t \in HostTasks THEN Hosts ELSE {}
    /\ failed' = {}
    /\ UNCHANGED <<runs, joining>>

Ran(h, ok) ==
    /\ pending' = pending \ {h}
    /\ failed' = IF ok THEN failed ELSE failed \cup {h}
    /\ UNCHANGED <<runs, task, joining>>

AtTask(t, h) == task = t /\ h \in pending

\* Check if etcd cluster is healthy: run_once, failed_when: false
CheckHealthy ==
    /\ task = "check"
    /\ \E b \in {ClusterHealthy(id) : id \in Reached} \cup
               (IF Reached = {} \/ "check" \in Faults THEN {FALSE} ELSE {}) :
           healthy' = b
    /\ Begin("config")
    /\ UNCHANGED <<etcd, inCluster>>

\* (faulty variant: the template without its else)
EnvStateUnset(rcIsZero) == IF rcIsZero THEN "existing" ELSE ""
EnvState(rcIsZero) == IF rcIsZero THEN "existing" ELSE "new"

\* (faulty variant: the file lists the members found so far, as in the join)
RefreshConfigKnownMembers(h) ==
    /\ AtTask("config", h) \/ AtTask("refresh", h)
    /\ env' = [env EXCEPT ![h] =
                  [state |-> EnvState(healthy), cluster |-> inCluster \cup {h}]]
    /\ Ran(h, TRUE)
    /\ UNCHANGED <<members, data, up, enabled, healthy, inCluster>>

\* refresh_config.yml, before the start and again after the joins
RefreshConfig(h) ==
    /\ AtTask("config", h) \/ AtTask("refresh", h)
    /\ env' = [env EXCEPT ![h] = [state |-> EnvState(healthy), cluster |-> Hosts]]
    /\ Ran(h, TRUE)
    /\ UNCHANGED <<members, data, up, enabled, healthy, inCluster>>

\* Ensure etcd is running: ignore_errors of the two variants
StartErrorIgnored == IF Events THEN ~healthy ELSE healthy

LaunchByTask(h) ==
    /\ AtTask("start", h)
    /\ Launch(h)
    /\ enabled' = enabled \cup {h}
    /\ UNCHANGED <<env, engine, healthy, inCluster>>

\* Type=notify: the start is done when the member serves; it fails when the
\* process exits, or is not ready in time although every host had its start.
StartReturns(h) ==
    /\ AtTask("start", h)
    /\ \/ Running(h) /\ Ran(h, TRUE)
       \/ h \notin up /\ ~CanLaunch(h) /\ Ran(h, StartErrorIgnored)
       \/ /\ h \in up /\ ~Running(h)
          /\ \A g \in pending : g \in up \/ ~CanLaunch(g)
          /\ Ran(h, StartErrorIgnored)
    /\ enabled' = enabled \cup {h}
    /\ UNCHANGED <<members, data, up, env, healthy, inCluster>>

\* Wait for etcd cluster to be healthy: run_once, with retries
WaitHealthy ==
    /\ task = "wait"
    /\ \E id \in Reached : ClusterHealthy(id)
    /\ healthy' = TRUE
    /\ Begin("member")
    /\ UNCHANGED <<etcd, inCluster>>

\* Check if member is in etcd cluster: ignore_errors
CheckMember(h) ==
    /\ AtTask("member", h)
    /\ inCluster' \in {IF Serving(id) /\ h \in members[id]
                       THEN inCluster \cup {h} ELSE inCluster \ {h} : id \in Reached}
    /\ Ran(h, TRUE)
    /\ UNCHANGED <<etcd, healthy>>

-----------------------------------------------------------------------------
(* join_etcd_member.yml, one host at a time: joining holds the hosts the    *)
(* loop has left, and the host of a join task leaves it with the last task  *)

Joiner == CHOOSE h \in joining : TRUE
JoinStep(t, next) ==
    /\ task = t /\ joining # {}
    /\ task' = next
    /\ UNCHANGED <<runs, pending, failed>>

\* `Peer URLs already exists' is a success; the events variant does not say so
AddSucceeds(id) ==
    /\ Serving(id)
    /\ IF Joiner \in members[id] THEN ~Events ELSE MayAdd(id)

AddMember ==
    /\ JoinStep("add", "join_config")
    /\ \E id \in Reached :
           /\ AddSucceeds(id)
           /\ members' = [members EXCEPT ![id] = @ \cup {Joiner}]
    /\ UNCHANGED <<data, up, enabled, env, healthy, inCluster, joining>>

\* (faulty variant: the full list although the other new hosts are no members)
JoinConfigAllHosts ==
    /\ JoinStep("join_config", "ensure")
    /\ env' = [env EXCEPT ![Joiner] = [state |-> EnvState(healthy), cluster |-> Hosts]]
    /\ UNCHANGED <<members, data, up, enabled, healthy, inCluster, joining>>

JoinConfig ==
    /\ JoinStep("join_config", "ensure")
    /\ env' = [env EXCEPT ![Joiner] =
                  [state |-> EnvState(healthy), cluster |-> inCluster \cup {Joiner}]]
    /\ UNCHANGED <<members, data, up, enabled, healthy, inCluster, joining>>

\* (faulty variant: the loop goes on before the member is started)
EnsureMemberNoStart ==
    /\ JoinStep("ensure", "join")
    /\ inCluster' = inCluster \cup {Joiner}
    /\ joining' = joining \ {Joiner}
    /\ UNCHANGED <<etcd, healthy>>

\* (the events variant has no retries: its one attempt may come at any time)
EnsureMember ==
    /\ JoinStep("ensure", "join_start")
    /\ \E id \in Reached : Serving(id) /\ Joiner \in members[id]
    /\ inCluster' = inCluster \cup {Joiner}
    /\ UNCHANGED <<etcd, healthy, joining>>

JoinLaunch ==
    /\ task = "join_start" /\ joining # {}
    /\ Launch(Joiner)
    /\ enabled' = enabled \cup {Joiner}
    /\ UNCHANGED <<env, engine, healthy, inCluster>>

JoinStarted ==
    /\ JoinStep("join_start", "join")
    /\ Running(Joiner)
    /\ joining' = joining \ {Joiner}
    /\ UNCHANGED <<etcd, healthy, inCluster>>

\* A join task fails, after its retries if it has any: the run is over.
JoinBlocked ==
    \/ task = "add" /\ \A id \in Reached : ~AddSucceeds(id)
    \/ task = "ensure" /\ \A id \in Reached : ~(Serving(id) /\ Joiner \in members[id])
    \/ task = "join_start" /\ ~Running(Joiner) /\ (Joiner \in up \/ ~CanLaunch(Joiner))

-----------------------------------------------------------------------------
(* The engine *)

NextTask(t) ==
    CASE t = "config" -> "start" [] t = "start" -> "wait" [] t = "refresh" -> "done"

\* The hosts to join are fixed when the loop starts.
TaskDone ==
    /\ task \in HostTasks /\ pending = {} /\ failed = {}
    /\ \/ task # "member" /\ Begin(NextTask(task))
       \/ /\ task = "member"
          /\ task' = "join" /\ pending' = {} /\ failed' = {}
          /\ joining' = IF healthy THEN Hosts \ inCluster ELSE {}
          /\ UNCHANGED runs
    /\ UNCHANGED <<etcd, healthy, inCluster>>

\* (faulty variant: no refresh after the joins)
NextJoinNoRefresh ==
    /\ task = "join"
    /\ IF joining # {}
       THEN task' = "add" /\ UNCHANGED <<runs, pending, failed, joining>>
       ELSE Begin("done")
    /\ UNCHANGED <<etcd, healthy, inCluster>>

NextJoin ==
    /\ task = "join"
    /\ IF joining # {}
       THEN task' = "add" /\ UNCHANGED <<runs, pending, failed, joining>>
       ELSE Begin("refresh")
    /\ UNCHANGED <<etcd, healthy, inCluster>>

EndRun ==
    /\ task' = "none" /\ pending' = {} /\ failed' = {} /\ joining' = {}
    /\ healthy' = FALSE /\ inCluster' = {}
    /\ UNCHANGED <<etcd, runs>>

Abort ==
    /\ \/ task \in HostTasks /\ pending = {} /\ failed # {}
       \/ task = "wait" /\ \A id \in Reached : ~ClusterHealthy(id)
       \/ joining # {} /\ JoinBlocked
    /\ EndRun

Finish == task = "done" /\ EndRun

Playbook ==
    \/ CheckHealthy \/ WaitHealthy
    \/ \E h \in Hosts : RefreshConfig(h) \/ LaunchByTask(h) \/ StartReturns(h) \/ CheckMember(h)
    \/ AddMember \/ JoinConfig \/ EnsureMember \/ JoinLaunch \/ JoinStarted
    \/ TaskDone \/ NextJoin \/ Abort \/ Finish

-----------------------------------------------------------------------------
(* The operator and systemd *)

StartRun ==
    /\ task = "none" /\ runs < MaxRuns
    /\ runs' = runs + 1
    /\ task' = "check"
    /\ UNCHANGED <<etcd, pending, failed, joining, healthy, inCluster>>

\* Bound: the last run is let finish, so MaxRuns bounds the interruptions.
Interrupt ==
    /\ "interrupt" \in Faults /\ runs < MaxRuns
    /\ task # "none"
    /\ EndRun

\* Restart=always
AutoRestart(h) ==
    /\ h \in enabled
    /\ Launch(h)
    /\ UNCHANGED <<enabled, env, engine, healthy, inCluster>>

MemberStops(h) ==
    /\ "member_down" \in Faults
    /\ h \in up
    /\ up' = up \ {h}
    /\ UNCHANGED <<members, data, enabled, env, engine, healthy, inCluster>>

Systemd == \E h \in Hosts : AutoRestart(h)

Init ==
    /\ \E I \in Initials :
           /\ members = [id \in Clusters |-> IF id = "old" THEN I ELSE {}]
           /\ data = [h \in Hosts |-> IF h \in I THEN "old" ELSE "none"]
           /\ up = I /\ enabled = I
           /\ env = [h \in Hosts |->
                       IF h \in I THEN [state |-> "existing", cluster |-> I]
                                  ELSE [state |-> "none", cluster |-> {}]]
    /\ runs = 0 /\ task = "none"
    /\ pending = {} /\ failed = {} /\ joining = {}
    /\ healthy = FALSE /\ inCluster = {}

Next ==
    \/ Playbook \/ Systemd \/ StartRun \/ Interrupt
    \/ \E h \in Hosts : MemberStops(h)

Spec == Init /\ [][Next]_vars /\ WF_vars(Playbook) /\ WF_vars(Systemd)

-----------------------------------------------------------------------------
(* Properties *)

TypeOK ==
    /\ members \in [Clusters -> SUBSET Hosts]
    /\ data \in [Hosts -> Clusters \cup {"none"}]
    /\ up \subseteq Hosts /\ enabled \subseteq Hosts
    /\ env \in [Hosts -> Envs]
    /\ runs \in 0..MaxRuns /\ task \in Tasks
    /\ pending \subseteq Hosts /\ failed \subseteq Hosts /\ joining \subseteq Hosts
    /\ healthy \in BOOLEAN /\ inCluster \subseteq Hosts

\* Two clusters never serve at once: a host that the role took for the first
\* of a new cluster, after a health check that failed, cannot win a quorum
\* against the cluster that already runs.
NoSplitBrain == ~(Serving("old") /\ Serving("fresh"))

\* "make sure that initial state of the cluster is in `existing' state instead
\* of `new'" (roles/etcd/tasks/main.yml): after a run that succeeded every host
\* of the group is a member of one cluster, and its file says so.
DoneMeansJoined ==
    task = "done" =>
        /\ \E id \in Clusters : Serving(id) /\ members[id] = Hosts
        /\ \A h \in Hosts : env[h] = [state |-> "existing", cluster |-> Hosts]

\* "Join member(s) to etcd cluster one at a time" (configure.yml): up to the
\* end of the first run, interrupted or not, never two members are listed that
\* have not started.  (A second run after an interrupted one may list another.)
OneAtATime ==
    runs <= 1 =>
        \A g, h \in members["old"] : data[g] = "none" /\ data[h] = "none" => g = h

\* The inductive invariant behind NoSplitBrain: the hosts of the old cluster
\* stay in it, and whoever bootstraps needs a quorum of the whole group.
OldKept(I) ==
    /\ \A h \in I : data[h] = "old"
    /\ I = {} => members["old"] = {}
FreshNeedsAll ==
    /\ \E I \in Initials : OldKept(I)
    /\ members["fresh"] \in {{}, Hosts}
    /\ \A h \in Hosts : env[h].state = "new" => env[h].cluster = Hosts
    /\ joining # {} => healthy /\ task \in JoinTasks \cup {"join"}
NewHostsMinority ==
    \A I \in Initials \ {{}} : 2 * Cardinality(Hosts \ I) <= Cardinality(Hosts)

\* A run that is not interrupted ends with every host of the group running as
\* a member of the same cluster, whatever the interrupted runs before it left.
AllRunning == \E id \in Clusters : Started(id) = Hosts
EventuallyJoined == task = "check" /\ runs = MaxRuns ~> AllRunning

\* "when scaling new etcd will fail to start" (configure.yml): the failure of
\* a new host's start does not end a run over a healthy cluster.
ScalingProceeds ==
    [][(task = "start" /\ healthy /\ task' = "none") => "interrupt" \in Faults]_vars

=============================================================================
