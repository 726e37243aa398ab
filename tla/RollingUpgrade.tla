--------------------------- MODULE RollingUpgrade ---------------------------
(***************************************************************************)
(* The graceful upgrade of a Kubernetes cluster: the three serial plays of *)
(* playbooks/upgrade_cluster.yml that touch the nodes, with the roles      *)
(* upgrade/pre-upgrade and upgrade/post-upgrade that take a node out of    *)
(* service and back, interleaved with the cluster's scheduler and with an  *)
(* administrator who cordons and uncordons nodes by hand.                  *)
(*                                                                         *)
(* Ansible's linear strategy is modelled by `task', the task the whole     *)
(* batch is at, `pending', the hosts of the batch that still have to run   *)
(* it, in any order, and `failed', those on which it failed.  Every play   *)
(* sets any_errors_fatal: one failed host fails its batch, which runs the  *)
(* rescue section if the task is in a block that has one; else the run is  *)
(* over.                                                                   *)
(***************************************************************************)
EXTENDS Integers, FiniteSets

CONSTANTS
    CP,                 \* the group kube_control_plane
    Workers,            \* kube_node:calico_rr:!kube_control_plane
    SerialPercent,      \* the variable serial, 20 (%) by default
    Limits,             \* the --limit sets the operator may run with
    AlwaysCordon,       \* upgrade_node_always_cordon
    DrainNodes,         \* drain_nodes
    DrainRetries,       \* drain_retries
    FallbackEnabled,    \* drain_fallback_enabled
    FallbackRetries,    \* drain_fallback_retries
    UncordonAfterDrainFailure,  \* upgrade_node_uncordon_after_drain_failure
    FailIfDrainFails,   \* upgrade_node_fail_if_drain_fails
    Faults,             \* what may go wrong in a behaviour, see AllFaults
    Unsteady,           \* nodes whose condition Ready changes
    AdminWindow,        \* when the administrator acts, see AdminWindows
    MaxRuns             \* bound: how often the playbook is started

Node == CP \cup Workers
AllFaults == {"read", "kubectl", "drain", "upgrade", "interrupt"}
AdminWindows == {"never", "outside_batch", "any"}

ASSUME GroupsAssumption ==
    /\ CP # {} /\ IsFiniteSet(CP) /\ IsFiniteSet(Workers)
    /\ CP \cap Workers = {}
    /\ Limits \subseteq SUBSET Node /\ Unsteady \subseteq Node
ASSUME SettingsAssumption ==
    /\ SerialPercent \in 1..100
    /\ {AlwaysCordon, DrainNodes, FallbackEnabled,
        UncordonAfterDrainFailure, FailIfDrainFails} \subseteq BOOLEAN
    /\ DrainRetries \in Nat /\ FallbackRetries \in Nat /\ MaxRuns \in Nat
    /\ Faults \subseteq AllFaults /\ AdminWindow \in AdminWindows

VARIABLES
    \* the cluster
    kubelet,        \* version of each node's kubelet and container engine
    api,            \* version of each control plane node's static pods
    net,            \* version of each node's network plugin
    ready,          \* condition Ready of each node
    unschedulable,  \* .spec.unschedulable of each node
    pods,           \* does the node run pods that a drain would evict?
    held,           \* is a cordon of the administrator in force?
    \* the ansible run
    runs,           \* number of runs started
    play,           \* the play that is running, "idle" between runs
    limit,          \* --limit of this run
    remaining,      \* hosts of the play that no batch has taken yet
    batch,          \* hosts of the current batch
    task, pending, failed,
    sawReady,       \* register kubectl_node_ready: stdout was 'True'
    needsCordoning, \* fact needs_cordoning
    tries,          \* attempts made by the retry loop of the current task
    undrained,      \* hosts whose drain left result.rc # 0 without failing
    stranded        \* auxiliary: cordons an earlier run left behind

cluster == <<kubelet, api, net, ready, unschedulable, pods, held>>
facts == <<sawReady, needsCordoning, undrained>>
position == <<runs, play, limit, remaining, batch, stranded>>
engine == <<task, pending, failed, tries>>
vars == <<cluster, facts, position, engine>>

Versions == {"old", "new"}
Plays == {"idle", "control_plane", "network", "workers"}
Block == {"cordon", "drain", "drain_fallback"}
Tasks == Block \cup
    {"none", "read_ready", "read_schedulable", "rescue_uncordon",
     "rescue_fail", "node", "control_plane", "network", "wait", "uncordon"}

-----------------------------------------------------------------------------
(* Plays and batches *)

\* hosts: of each play; --limit intersects it.
PlayHosts(p, lim) ==
    lim \cap (CASE p = "control_plane" -> CP
                [] p = "network" -> Node
                [] p = "workers" -> Workers
                [] OTHER -> {})

\* serial: a percentage of the play's hosts, rounded down, at least one host;
\* the control plane goes one by one.
PercentOf(n) == IF n * SerialPercent < 100 THEN 1 ELSE (n * SerialPercent) \div 100
\* (faulty variant: serial ignored, a play is one batch)
BatchSizeNoSerial(p, lim) == Cardinality(PlayHosts(p, lim))
BatchSize(p, lim) ==
    IF p = "control_plane" THEN 1 ELSE PercentOf(Cardinality(PlayHosts(p, lim)))

Batches(p, lim, hosts) ==
    {b \in SUBSET hosts :
        Cardinality(b) = IF Cardinality(hosts) < BatchSize(p, lim)
                         THEN Cardinality(hosts) ELSE BatchSize(p, lim)}

\* (faulty variant: the worker play is missing)
NextPlayNoWorkers(p) == IF p = "control_plane" THEN "network" ELSE "idle"
NextPlay(p) ==
    CASE p = "control_plane" -> "network"
      [] p = "network" -> "workers"
      [] OTHER -> "idle"

FirstTask(p) == IF p = "network" THEN "network" ELSE "read_ready"

-----------------------------------------------------------------------------
(* The task list of a batch *)

NextTask(t) ==
    CASE t = "read_ready" -> "read_schedulable"
      [] t = "read_schedulable" -> "cordon"
      [] t = "cordon" -> "drain"
      [] t = "drain" -> "drain_fallback"
      [] t = "rescue_uncordon" -> "rescue_fail"
      [] t \in {"drain_fallback", "rescue_fail"} -> "node"
      [] t = "node" -> IF play = "control_plane" THEN "control_plane" ELSE "wait"
      [] t = "control_plane" -> "wait"
      [] t = "wait" -> "uncordon"
      [] OTHER -> "none"

\* (faulty variant: post-upgrade looks at the node again instead of the fact)
TargetsUncordonLooksAgain(t) ==
    CASE t = "cordon" -> {h \in batch : needsCordoning[h]}
      [] t = "uncordon" -> {h \in batch : needsCordoning[h] /\ ~unschedulable[h]}
      [] t = "drain" -> {h \in batch : needsCordoning[h] /\ DrainNodes}
      [] t = "drain_fallback" -> {h \in batch : h \in undrained /\ FallbackEnabled}
      [] t = "rescue_uncordon" -> {h \in batch : needsCordoning[h]}
      [] t = "rescue_fail" -> {h \in batch : needsCordoning[h]}
      [] OTHER -> batch

\* (faulty variant: every host that has the fact, of earlier batches too)
TargetsEveryBatch(t) ==
    IF t \in {"cordon", "drain", "uncordon"} THEN {h \in Node : needsCordoning[h]} ELSE batch

\* The hosts of the batch on which the `when' of task t holds.
Targets(t) ==
    CASE t \in {"cordon", "uncordon"} -> {h \in batch : needsCordoning[h]}
      [] t = "drain" -> {h \in batch : needsCordoning[h] /\ DrainNodes}
      [] t = "drain_fallback" ->
            {h \in batch : needsCordoning[h] /\ DrainNodes /\ FallbackEnabled
                             /\ h \in undrained}
      [] t = "rescue_uncordon" ->
            {h \in batch : needsCordoning[h] /\ UncordonAfterDrainFailure}
      [] t = "rescue_fail" ->
            {h \in batch : needsCordoning[h] /\ FailIfDrainFails}
      [] OTHER -> batch

\* The engine moves the batch to task t.
Begin(t) ==
    /\ task' = t
    /\ pending' = Targets(t)
    /\ failed' = {}
    /\ tries' = [h \in Node |-> 0]

\* Host h has run the current task, with the result ok.
Ran(h, ok) ==
    /\ pending' = pending \ {h}
    /\ failed' = IF ok THEN failed ELSE failed \cup {h}
    /\ UNCHANGED <<task, tries>>

AtTask(t, h) == task = t /\ h \in pending

\* A task may fail when the behaviour admits the fault f.
Outcomes(f) == IF f \in Faults THEN BOOLEAN ELSE {TRUE}

-----------------------------------------------------------------------------
(* upgrade/pre-upgrade: is the node in service, and take it out of it *)

\* Both reads have failed_when: false, so a failed kubectl reads as ''.
ReadReady(h) ==
    /\ AtTask("read_ready", h)
    /\ \E ok \in Outcomes("read") :
           sawReady' = [sawReady EXCEPT ![h] = ok /\ ready[h]]
    /\ Ran(h, TRUE)
    /\ UNCHANGED <<cluster, position, needsCordoning, undrained>>

\* (faulty variant: the second read is not used)
ReadSchedulableUnused(h) ==
    /\ AtTask("read_schedulable", h)
    /\ needsCordoning' = [needsCordoning EXCEPT ![h] = sawReady[h] \/ AlwaysCordon]
    /\ Ran(h, TRUE)
    /\ UNCHANGED <<cluster, position, sawReady, undrained>>

\* (faulty variant: upgrade_node_always_cordon has no effect)
ReadSchedulableNoAlways(h) ==
    /\ AtTask("read_schedulable", h)
    /\ needsCordoning' = [needsCordoning EXCEPT ![h] = sawReady[h] /\ ~unschedulable[h]]
    /\ Ran(h, TRUE)
    /\ UNCHANGED <<cluster, position, sawReady, undrained>>

\* The second read and the set_fact computed from both.
ReadSchedulable(h) ==
    /\ AtTask("read_schedulable", h)
    /\ \E ok \in Outcomes("read") :
           needsCordoning' = [needsCordoning EXCEPT ![h] =
               (sawReady[h] /\ ~(ok /\ unschedulable[h])) \/ AlwaysCordon]
    /\ Ran(h, TRUE)
    /\ UNCHANGED <<cluster, position, sawReady, undrained>>

SetUnschedulable(h, b) ==
    /\ unschedulable' = [unschedulable EXCEPT ![h] = b]
    /\ UNCHANGED <<kubelet, api, net, ready, held>>

Cordon(h) ==
    /\ AtTask("cordon", h)
    /\ \E ok \in Outcomes("kubectl") :
           /\ SetUnschedulable(h, unschedulable[h] \/ ok)
           /\ Ran(h, ok)
    /\ UNCHANGED <<pods, facts, position>>

\* kubectl drain cordons the node, then evicts its pods.
Drained(h) ==
    /\ SetUnschedulable(h, TRUE)
    /\ pods' = [pods EXCEPT ![h] = FALSE]

DrainFailed(h) ==
    /\ \E b \in {TRUE, unschedulable[h]} : SetUnschedulable(h, b)
    /\ UNCHANGED pods

\* retries: r of a task with `until' makes at most r + 1 attempts.
LastTry(h, r) == tries[h] = r
TryAgain(h) ==
    /\ tries' = [tries EXCEPT ![h] = @ + 1]
    /\ UNCHANGED <<task, pending, failed>>

\* (faulty variant: a drain that gives up is not an error)
DrainIgnored(h) ==
    /\ AtTask("drain", h)
    /\ \/ Drained(h)
       \/ "drain" \in Faults /\ DrainFailed(h)
    /\ Ran(h, TRUE)
    /\ UNCHANGED <<facts, position>>

\* failed_when spares the host when a fallback follows, but a retry loop that
\* runs out of attempts marks its result as failed whatever failed_when says.
Drain(h) ==
    /\ AtTask("drain", h)
    /\ \/ Drained(h) /\ Ran(h, TRUE) /\ UNCHANGED undrained
       \/ /\ "drain" \in Faults
          /\ DrainFailed(h)
          /\ \/ ~LastTry(h, DrainRetries) /\ TryAgain(h) /\ UNCHANGED undrained
             \/ /\ LastTry(h, DrainRetries)
                /\ Ran(h, DrainRetries = 0 /\ FallbackEnabled)
                /\ undrained' = undrained \cup {h}
    /\ UNCHANGED <<sawReady, needsCordoning, position>>

DrainFallback(h) ==
    /\ AtTask("drain_fallback", h)
    /\ \/ Drained(h) /\ Ran(h, TRUE)
       \/ /\ "drain" \in Faults
          /\ DrainFailed(h)
          /\ \/ ~LastTry(h, FallbackRetries) /\ TryAgain(h)
             \/ LastTry(h, FallbackRetries) /\ Ran(h, FALSE)
    /\ UNCHANGED <<facts, position>>

\* Back in service; what an earlier run left is no longer left.
Uncordoned(h) ==
    /\ SetUnschedulable(h, FALSE)
    /\ stranded' = stranded \ {h}

KubectlUncordon(h) ==
    /\ \E ok \in Outcomes("kubectl") :
           /\ IF ok THEN Uncordoned(h)
                    ELSE UNCHANGED <<kubelet, api, net, ready, held,
                                     unschedulable, stranded>>
           /\ Ran(h, ok)
    /\ UNCHANGED <<pods, facts, runs, play, limit, remaining, batch>>

RescueUncordon(h) == AtTask("rescue_uncordon", h) /\ KubectlUncordon(h)

FailAfterRescue(h) ==
    /\ AtTask("rescue_fail", h)
    /\ Ran(h, FALSE)
    /\ UNCHANGED <<cluster, facts, position>>

-----------------------------------------------------------------------------
(* The upgrade of a node and upgrade/post-upgrade *)

\* What a task that may stop half-way leaves of a component it replaces.
Replaced(old, ok) == IF ok THEN {"new"} ELSE {old, "new"}

\* upgrade/system-upgrade, container-engine and kubernetes/node
UpgradeNode(h) ==
    /\ AtTask("node", h)
    /\ \E ok \in Outcomes("upgrade") :
           /\ \E v \in Replaced(kubelet[h], ok) : kubelet' = [kubelet EXCEPT ![h] = v]
           /\ Ran(h, ok)
    /\ UNCHANGED <<api, net, ready, unschedulable, pods, held, facts, position>>

\* kubernetes/control-plane
UpgradeControlPlane(h) ==
    /\ AtTask("control_plane", h)
    /\ \E ok \in Outcomes("upgrade") :
           /\ \E v \in Replaced(api[h], ok) : api' = [api EXCEPT ![h] = v]
           /\ Ran(h, ok)
    /\ UNCHANGED <<kubelet, net, ready, unschedulable, pods, held, facts, position>>

\* The network play: no node is taken out of service for it.
UpgradeNetwork(h) ==
    /\ AtTask("network", h)
    /\ \E ok \in Outcomes("upgrade") :
           /\ \E v \in Replaced(net[h], ok) : net' = [net EXCEPT ![h] = v]
           /\ Ran(h, ok)
    /\ UNCHANGED <<kubelet, api, ready, unschedulable, pods, held, facts, position>>

\* Wait for cilium, the confirmation and the post-upgrade hooks.
WaitBeforeUncordon(h) ==
    /\ AtTask("wait", h)
    /\ \E ok \in Outcomes("upgrade") : Ran(h, ok)
    /\ UNCHANGED <<cluster, facts, position>>

Uncordon(h) == AtTask("uncordon", h) /\ KubectlUncordon(h)

HostTask(h) ==
    \/ ReadReady(h) \/ ReadSchedulable(h)
    \/ Cordon(h) \/ Drain(h) \/ DrainFallback(h)
    \/ RescueUncordon(h) \/ FailAfterRescue(h)
    \/ UpgradeNode(h) \/ UpgradeControlPlane(h) \/ UpgradeNetwork(h)
    \/ WaitBeforeUncordon(h) \/ Uncordon(h)

-----------------------------------------------------------------------------
(* The engine between tasks, batches and plays *)

TaskDone ==
    /\ task # "none" /\ pending = {} /\ failed = {}
    /\ NextTask(task) # "none"
    /\ Begin(NextTask(task))
    /\ UNCHANGED <<cluster, facts, position>>

\* (faulty variant: only the hosts that failed run the rescue section)
EnterRescueFailedOnly ==
    /\ pending = {} /\ failed # {} /\ task \in Block
    /\ task' = "rescue_uncordon" /\ pending' = failed /\ failed' = {}
    /\ UNCHANGED <<cluster, facts, position, tries>>

\* (faulty variant: the rescue section fails before it uncordons)
EnterRescueFailFirst ==
    /\ pending = {} /\ failed # {} /\ task \in Block
    /\ Begin("rescue_fail")
    /\ UNCHANGED <<cluster, facts, position>>

\* A failed task of the drain block fails the block on the whole batch, and
\* the whole batch runs the rescue section.
EnterRescue ==
    /\ pending = {} /\ failed # {} /\ task \in Block
    /\ Begin("rescue_uncordon")
    /\ UNCHANGED <<cluster, facts, position>>

NoTask ==
    /\ task' = "none" /\ pending' = {} /\ failed' = {}
    /\ tries' = [h \in Node |-> 0]

BatchDone ==
    /\ task # "none" /\ pending = {} /\ failed = {}
    /\ NextTask(task) = "none"
    /\ batch' = {}
    /\ NoTask
    /\ UNCHANGED <<cluster, facts, runs, play, limit, remaining, stranded>>

\* The registers and facts of a run die with it.
EndRun ==
    /\ play' = "idle" /\ limit' = {} /\ remaining' = {} /\ batch' = {}
    /\ stranded' = {}
    /\ sawReady' = [n \in Node |-> FALSE]
    /\ needsCordoning' = [n \in Node |-> FALSE]
    /\ undrained' = {}
    /\ NoTask
    /\ UNCHANGED <<cluster, runs>>

\* (faulty variant: any_errors_fatal is off, the next batch goes on)
AbortBatchOnly ==
    /\ pending = {} /\ failed # {} /\ task \notin Block
    /\ batch' = {}
    /\ NoTask
    /\ UNCHANGED <<cluster, facts, runs, play, limit, remaining, stranded>>
Abort ==
    /\ pending = {} /\ failed # {} /\ task \notin Block
    /\ EndRun

NextBatch ==
    /\ play # "idle" /\ batch = {} /\ remaining # {}
    /\ batch' \in Batches(play, limit, remaining)
    /\ remaining' = remaining \ batch'
    /\ task' = FirstTask(play)
    /\ pending' = batch'
    /\ failed' = {}
    /\ tries' = [h \in Node |-> 0]
    /\ UNCHANGED <<cluster, facts, runs, play, limit, stranded>>

PlayDone ==
    /\ play # "idle" /\ batch = {} /\ remaining = {}
    /\ IF NextPlay(play) = "idle"
       THEN EndRun
       ELSE /\ play' = NextPlay(play)
            /\ remaining' = PlayHosts(play', limit)
            /\ UNCHANGED <<cluster, facts, engine, runs, limit, batch, stranded>>

\* The engine and the hosts it drives: all that a running playbook does.
Playbook ==
    \/ \E h \in Node : HostTask(h)
    \/ TaskDone \/ EnterRescue \/ BatchDone \/ Abort \/ NextBatch \/ PlayDone

-----------------------------------------------------------------------------
(* The operator, the cluster and the administrator *)

\* docs/operations/upgrades.md: a --limit leaves the control plane out only
\* when it has been upgraded already.
DocumentedLimit(lim) == CP \subseteq lim \/ \A c \in CP : api[c] = "new"

StartRun ==
    /\ play = "idle" /\ runs < MaxRuns
    /\ runs' = runs + 1
    /\ limit' \in {lim \in Limits : DocumentedLimit(lim)}
    /\ play' = "control_plane"
    /\ remaining' = PlayHosts("control_plane", limit')
    /\ stranded' = {n \in Node : unschedulable[n] /\ ~held[n]}
    /\ UNCHANGED <<cluster, facts, engine, batch>>

\* Ctrl-C, a lost terminal, a crash of the machine ansible runs on.
Interrupt ==
    /\ "interrupt" \in Faults /\ play # "idle"
    /\ EndRun

\* A pod lands on a node that is schedulable and Ready.
Schedule(n) ==
    /\ ready[n] /\ ~unschedulable[n] /\ ~pods[n]
    /\ pods' = [pods EXCEPT ![n] = TRUE]
    /\ UNCHANGED <<kubelet, api, net, ready, unschedulable, held, facts, position, engine>>

ReadyChanges(n) ==
    /\ n \in Unsteady
    /\ ready' = [ready EXCEPT ![n] = ~@]
    /\ UNCHANGED <<kubelet, api, net, unschedulable, pods, held, facts, position, engine>>

AdminActs(n) ==
    \/ AdminWindow = "any"
    \/ AdminWindow = "outside_batch" /\ n \notin batch

AdminCordon(n) ==
    /\ AdminActs(n) /\ ~held[n]
    /\ held' = [held EXCEPT ![n] = TRUE]
    /\ unschedulable' = [unschedulable EXCEPT ![n] = TRUE]
    /\ UNCHANGED <<kubelet, api, net, ready, pods, facts, position, engine>>

AdminUncordon(n) ==
    /\ AdminActs(n) /\ unschedulable[n]
    /\ held' = [held EXCEPT ![n] = FALSE]
    /\ unschedulable' = [unschedulable EXCEPT ![n] = FALSE]
    /\ stranded' = stranded \ {n}
    /\ UNCHANGED <<kubelet, api, net, ready, pods, facts, engine,
                   runs, play, limit, remaining, batch>>

Environment ==
    \/ StartRun \/ Interrupt
    \/ \E n \in Node :
           Schedule(n) \/ ReadyChanges(n) \/ AdminCordon(n) \/ AdminUncordon(n)

-----------------------------------------------------------------------------
Init ==
    /\ kubelet = [n \in Node |-> "old"]
    /\ api = [n \in CP |-> "old"]
    /\ net = [n \in Node |-> "old"]
    /\ ready = [n \in Node |-> TRUE]
    /\ unschedulable = [n \in Node |-> FALSE]
    /\ pods = [n \in Node |-> TRUE]
    /\ held = [n \in Node |-> FALSE]
    /\ runs = 0 /\ play = "idle"
    /\ limit = {} /\ remaining = {} /\ batch = {} /\ stranded = {}
    /\ task = "none" /\ pending = {} /\ failed = {}
    /\ tries = [n \in Node |-> 0]
    /\ sawReady = [n \in Node |-> FALSE]
    /\ needsCordoning = [n \in Node |-> FALSE]
    /\ undrained = {}

Next == Playbook \/ Environment

\* Ansible keeps running the tasks of a run; nobody has to start one.
Spec == Init /\ [][Next]_vars /\ WF_vars(Playbook)

-----------------------------------------------------------------------------
(* Properties *)

\* The shape of the state; no step reads a fact outside its domain.
TypeOK ==
    /\ kubelet \in [Node -> Versions]
    /\ api \in [CP -> Versions]
    /\ net \in [Node -> Versions]
    /\ ready \in [Node -> BOOLEAN] /\ unschedulable \in [Node -> BOOLEAN]
    /\ pods \in [Node -> BOOLEAN] /\ held \in [Node -> BOOLEAN]
    /\ sawReady \in [Node -> BOOLEAN] /\ needsCordoning \in [Node -> BOOLEAN]
    /\ runs \in 0..MaxRuns /\ play \in Plays
    /\ limit \subseteq Node /\ remaining \subseteq Node /\ batch \subseteq Node
    /\ stranded \subseteq Node /\ undrained \subseteq Node
    /\ pending \subseteq batch /\ failed \subseteq batch
    /\ task \in Tasks
    /\ tries \in [Node -> Nat]

\* Compatibility, "Handle upgrades to control plane components first to
\* maintain backwards compat." (upgrade_cluster.yml, the play's name): no
\* worker's kubelet is newer than an API server, through failed, interrupted
\* and repeated runs with any --limit the documentation allows.
ControlPlaneFirst ==
    \A w \in Workers, c \in CP : kubelet[w] = "new" => api[c] = "new"

\* Capacity: in a run, the nodes that are out of service on the playbook's
\* account are hosts of the current batch or were left by an earlier run; each
\* batch is given back before the next one is taken.
Out(n) == unschedulable[n] /\ ~held[n]
OneBatchOut == play # "idle" => \A n \in Node : Out(n) => n \in batch \cup stranded

\* A cordon of the administrator stays until the administrator lifts it.
AdminCordonKept == \A n \in Node : held[n] => unschedulable[n]

\* The rescue section of the drain block gives every node of the batch back
\* before the run fails: nothing stays cordoned after a failed drain.
NothingStranded ==
    play = "idle" => \A n \in Node : unschedulable[n] => held[n]

\* Disruption: a node's kubelet and container engine are replaced under
\* running pods only if the playbook saw the node not Ready, the administrator
\* holds the cordon, or an earlier run left the node cordoned.
DisruptOnlyDrained ==
    [][\A n \in Node : kubelet'[n] # kubelet[n] /\ pods[n] =>
          ~sawReady[n] \/ held[n] \/ n \in stranded]_vars

\* The same without the exceptions: what upgrade_node_always_cordon buys, in
\* interrupted and repeated runs and with failing reads too.
EveryUpgradeDrained ==
    [][\A n \in Node : kubelet'[n] # kubelet[n] => ~pods[n]]_vars

\* With the fallback enabled the drain block is given up only after the drain
\* with eviction disabled has been tried (failed_when of the task Drain node).
RescueOnlyAfterFallback ==
    [][task = "drain" /\ task' = "rescue_uncordon" => ~FallbackEnabled]_vars

\* A run that comes to the end of its last play has upgraded every component of
\* every host of its limit: any_errors_fatal ends a run with a failed host, in
\* whichever batch, and the last, incomplete batches count too.
EndedMeansUpgraded ==
    play = "workers" /\ batch = {} /\ remaining = {} =>
        /\ \A n \in limit : kubelet[n] = "new" /\ net[n] = "new"
        /\ \A c \in CP \cap limit : api[c] = "new"

\* A run over the whole inventory upgrades every component of every node,
\* unless a task fails on some host; the last, incomplete batches included.
AllNew ==
    /\ \A n \in Node : kubelet[n] = "new" /\ net[n] = "new"
    /\ \A c \in CP : api[c] = "new"
RunUpgradesAll ==
    play = "control_plane" /\ limit = Node ~> AllNew \/ failed # {}

\* A node the playbook takes out of service gets back into it.
EventuallyGivenBack ==
    \A n \in Node : Out(n) ~> ~unschedulable[n]

\* The inductive invariant behind ControlPlaneFirst: where the control plane
\* play stands, and that the later plays start from an upgraded control plane.
ApiNew(S) == \A c \in S : api[c] = "new"
ControlPlanePlay ==
    play = "control_plane" =>
        /\ batch \subseteq CP /\ remaining \subseteq CP
        /\ ApiNew(CP \ (remaining \cup batch))
        /\ task # "network"
        /\ task = "control_plane" => ApiNew(batch \ (pending \cup failed))
        /\ task \in {"wait", "uncordon"} => ApiNew(batch)
LaterPlays ==
    /\ play \in {"network", "workers"} => ApiNew(CP)
    /\ play = "network" => task \in {"none", "network"}
    /\ play = "workers" => /\ batch \subseteq Workers /\ remaining \subseteq Workers
                           /\ task \notin {"control_plane", "network"}
BetweenBatches == play = "idle" \/ batch = {} => batch = {} /\ task = "none"
RolloutOrder ==
    /\ ControlPlanePlay
    /\ LaterPlays
    /\ BetweenBatches
    /\ ControlPlaneFirst

\* The inductive invariant behind OneBatchOut: who may be out of service at
\* which task.
Accounted(S) == \A n \in S : Out(n) => n \in stranded
CapacityByTask ==
    play # "idle" =>
        /\ Accounted(Node \ batch)
        /\ task \in {"none", "read_ready", "read_schedulable", "network"} => Accounted(Node)
        /\ Accounted({n \in batch : ~needsCordoning[n]})
        /\ task \in Block => \A h \in pending : needsCordoning[h]
        /\ task = "uncordon" => Accounted(batch \ (pending \cup failed))

\* The playbook implements the staged rollout: its windows are the batches of
\* the two plays that upgrade nodes.
Window == IF play \in {"control_plane", "workers"} THEN batch ELSE {}
WorkerWindows ==
    {S \in SUBSET Workers :
        S # {} /\ Cardinality(S) <= PercentOf(Cardinality(Workers))}
Rollout == INSTANCE StagedRollout WITH window <- Window, Windows <- WorkerWindows
ImplementsStagedRollout == Rollout!Spec

=============================================================================
