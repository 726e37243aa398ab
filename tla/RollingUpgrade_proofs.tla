------------------------ MODULE RollingUpgrade_proofs ------------------------
(* Theorems about RollingUpgrade, for every inventory, every setting of the  *)
(* playbook's variables and every set of faults.                             *)
EXTENDS RollingUpgrade, FiniteSetTheorems, WellFoundedInduction, TLAPS

USE DEF Node

LEMMA TargetsInBatch == ASSUME NEW t PROVE Targets(t) \subseteq batch
BY DEF Targets

\* Type correctness: no step of the playbook, the cluster or the
\* administrator leaves the shape of the state.
THEOREM TypeCorrect == Spec => []TypeOK
<1>1. Init => TypeOK
  BY SettingsAssumption DEF Init, TypeOK, Versions, Plays, Tasks
<1>2. TypeOK /\ [Next]_vars => TypeOK'
  <2> SUFFICES ASSUME TypeOK, [Next]_vars PROVE TypeOK'
    OBVIOUS
  <2> USE DEF TypeOK
  <2>1. ASSUME NEW h \in Node, HostTask(h) PROVE TypeOK'
    <3>1. CASE ReadReady(h)
      BY <3>1 DEF ReadReady, AtTask, Ran, cluster, position
    <3>2. CASE ReadSchedulable(h)
      BY <3>2, SettingsAssumption DEF ReadSchedulable, AtTask, Ran, cluster, position
    <3>3. CASE Cordon(h)
      BY <3>3 DEF Cordon, AtTask, Ran, SetUnschedulable, facts, position, Outcomes
    <3>a. ASSUME Drained(h) \/ DrainFailed(h)
          PROVE  /\ unschedulable' \in [Node -> BOOLEAN] /\ pods' \in [Node -> BOOLEAN]
                 /\ UNCHANGED <<kubelet, api, net, ready, held>>
      BY <3>a DEF Drained, DrainFailed, SetUnschedulable
    <3>b. ASSUME NEW ok \in BOOLEAN, TryAgain(h) \/ (h \in pending /\ Ran(h, ok))
          PROVE  /\ tries' \in [Node -> Nat] /\ task' = task
                 /\ pending' \subseteq pending
                 /\ failed' \subseteq batch
      BY <3>b DEF TryAgain, Ran
    <3>4. CASE Drain(h)
      <4>1. PICK ok \in BOOLEAN : TryAgain(h) \/ (h \in pending /\ Ran(h, ok))
        BY <3>4, SettingsAssumption DEF Drain, AtTask
      <4>2. /\ Drained(h) \/ DrainFailed(h)
            /\ undrained' \subseteq Node
            /\ UNCHANGED <<sawReady, needsCordoning, position>>
        BY <3>4 DEF Drain
      <4> QED
        BY <3>a, <3>b, <4>1, <4>2 DEF position
    <3>5. CASE DrainFallback(h)
      <4>1. PICK ok \in BOOLEAN : TryAgain(h) \/ (h \in pending /\ Ran(h, ok))
        BY <3>5 DEF DrainFallback, AtTask
      <4>2. (Drained(h) \/ DrainFailed(h)) /\ UNCHANGED <<facts, position>>
        BY <3>5 DEF DrainFallback
      <4> QED
        BY <3>a, <3>b, <4>1, <4>2 DEF facts, position
    <3>6. CASE RescueUncordon(h) \/ Uncordon(h)
      BY <3>6 DEF RescueUncordon, Uncordon, KubectlUncordon, Uncordoned, AtTask, Ran,
                  SetUnschedulable, facts
    <3>7. CASE FailAfterRescue(h)
      BY <3>7 DEF FailAfterRescue, AtTask, Ran, cluster, facts, position
    <3>8. CASE UpgradeNode(h)
      BY <3>8 DEF UpgradeNode, AtTask, Ran, Replaced, Versions, facts, position
    <3>9. CASE UpgradeControlPlane(h)
      BY <3>9 DEF UpgradeControlPlane, AtTask, Ran, Replaced, Versions, facts, position
    <3>10. CASE UpgradeNetwork(h)
      BY <3>10 DEF UpgradeNetwork, AtTask, Ran, Replaced, Versions, facts, position
    <3>11. CASE WaitBeforeUncordon(h)
      BY <3>11 DEF WaitBeforeUncordon, AtTask, Ran, cluster, facts, position
    <3> QED
      BY <2>1, <3>1, <3>2, <3>3, <3>4, <3>5, <3>6, <3>7, <3>8, <3>9, <3>10, <3>11
      DEF HostTask
  <2>2. CASE TaskDone
    BY <2>2, TargetsInBatch DEF TaskDone, Begin, NextTask, Tasks, Block, cluster, facts, position
  <2>3. CASE EnterRescue
    BY <2>3, TargetsInBatch DEF EnterRescue, Begin, Tasks, cluster, facts, position
  <2>4. CASE BatchDone
    BY <2>4 DEF BatchDone, NoTask, Tasks, cluster, facts
  <2>5. ASSUME EndRun PROVE TypeOK'
    <3>1. /\ sawReady' \in [Node -> BOOLEAN] /\ needsCordoning' \in [Node -> BOOLEAN]
          /\ tries' \in [Node -> Nat]
      BY <2>5 DEF EndRun, NoTask
    <3>2. UNCHANGED <<kubelet, api, net, ready, unschedulable, pods, held, runs>>
      BY <2>5 DEF EndRun, cluster
    <3>3. play' \in Plays /\ task' \in Tasks
      BY <2>5 DEF EndRun, NoTask, Plays, Tasks
    <3>4. /\ limit' = {} /\ remaining' = {} /\ batch' = {} /\ stranded' = {}
          /\ undrained' = {} /\ pending' = {} /\ failed' = {}
      BY <2>5 DEF EndRun, NoTask
    <3> QED
      BY <3>1, <3>2, <3>3, <3>4
  <2>6. CASE NextBatch
    <3>1. batch' \subseteq remaining
      BY <2>6 DEF NextBatch, Batches
    <3>2. FirstTask(play) \in Tasks
      BY DEF FirstTask, Tasks
    <3> QED
      BY <2>6, <3>1, <3>2 DEF NextBatch, cluster, facts
  <2>7. CASE PlayDone
    <3>1. PlayHosts(play', limit) \subseteq Node
      BY DEF PlayHosts
    <3>2. CASE NextPlay(play) = "idle"
      BY <2>5, <2>7, <3>2 DEF PlayDone
    <3>3. CASE NextPlay(play) # "idle"
      BY <2>7, <3>1, <3>3 DEF PlayDone, NextPlay, Plays, cluster, facts, engine
    <3> QED
      BY <3>2, <3>3
  <2>8. CASE StartRun
    BY <2>8, GroupsAssumption, SettingsAssumption
    DEF StartRun, PlayHosts, Plays, cluster, facts, engine
  <2>9. ASSUME NEW n \in Node, Schedule(n) \/ ReadyChanges(n) \/ AdminCordon(n) \/ AdminUncordon(n)
        PROVE TypeOK'
    BY <2>9 DEF Schedule, ReadyChanges, AdminCordon, AdminUncordon, facts, position, engine
  <2>10. CASE UNCHANGED vars
    BY <2>10 DEF vars, cluster, facts, position, engine
  <2> QED
    BY <2>1, <2>2, <2>3, <2>4, <2>5, <2>6, <2>7, <2>8, <2>9, <2>10
    DEF Next, Playbook, Environment, Abort, Interrupt
<1> QED
  BY <1>1, <1>2, PTL DEF Spec

-----------------------------------------------------------------------------
(* The rollout order *)

\* Only the task of kubernetes/control-plane changes api, and only forwards.
LEMMA ApiMonotonic ==
    ASSUME TypeOK, NEW h \in Node, UpgradeControlPlane(h)
    PROVE  /\ \A c \in CP : api[c] = "new" => api'[c] = "new"
           /\ h \in failed' \/ (h \in CP => api'[h] = "new")
BY DEF TypeOK, UpgradeControlPlane, Replaced, Ran, Versions

\* What the tasks of a host leave alone.
LEMMA HostTaskFrame ==
    ASSUME NEW h \in Node, HostTask(h)
    PROVE  /\ UNCHANGED <<play, remaining, batch, limit, task>>
           /\ h \in pending
           /\ pending' \subseteq pending /\ pending \subseteq pending' \cup {h}
           /\ failed \subseteq failed'
           /\ pending' = pending \/ pending' = pending \ {h}
           /\ task # "none"
           /\ task # "node" => UNCHANGED kubelet
           /\ task # "control_plane" => UNCHANGED api
<1>1. AtTask(task, h) /\ task # "none"
  BY DEF HostTask, AtTask, ReadReady, ReadSchedulable, Cordon, Drain, DrainFallback,
         RescueUncordon, FailAfterRescue, UpgradeNode, UpgradeControlPlane,
         UpgradeNetwork, WaitBeforeUncordon, Uncordon
<1>2. TryAgain(h) \/ \E ok \in BOOLEAN : Ran(h, ok)
  BY SettingsAssumption
     DEF HostTask, ReadReady, ReadSchedulable, Cordon, Drain, DrainFallback,
         RescueUncordon, FailAfterRescue, UpgradeNode, UpgradeControlPlane,
         UpgradeNetwork, WaitBeforeUncordon, Uncordon, KubectlUncordon, Outcomes
<1>3. UNCHANGED <<play, remaining, batch, limit>>
  BY DEF HostTask, ReadReady, ReadSchedulable, Cordon, Drain, DrainFallback,
         RescueUncordon, FailAfterRescue, UpgradeNode, UpgradeControlPlane,
         UpgradeNetwork, WaitBeforeUncordon, Uncordon, KubectlUncordon, position
<1>4. /\ task # "node" => UNCHANGED kubelet
      /\ task # "control_plane" => UNCHANGED api
  BY DEF HostTask, AtTask, ReadReady, ReadSchedulable, Cordon, Drain, DrainFallback,
         RescueUncordon, FailAfterRescue, UpgradeNode, UpgradeControlPlane,
         UpgradeNetwork, WaitBeforeUncordon, Uncordon, KubectlUncordon, Uncordoned,
         Drained, DrainFailed, SetUnschedulable, cluster
<1> QED
  BY <1>1, <1>2, <1>3, <1>4 DEF AtTask, Ran, TryAgain

\* A batch has a host: a percentage that rounds down to nothing counts as one.
LEMMA BatchNotEmpty ==
    ASSUME NEW p, NEW lim, NEW hosts \in SUBSET Node, hosts # {},
           NEW b \in Batches(p, lim, hosts)
    PROVE  b # {}
<1>1. IsFiniteSet(hosts) /\ IsFiniteSet(Node)
  BY GroupsAssumption, FS_Union, FS_Subset
<1>2. Cardinality(hosts) \in Nat \ {0}
  BY <1>1, FS_CardinalityType, FS_EmptySet
<1>3. BatchSize(p, lim) # 0
  <2>1. PlayHosts(p, lim) \subseteq Node
    BY DEF PlayHosts
  <2>2. Cardinality(PlayHosts(p, lim)) \in Nat
    BY <1>1, <2>1, FS_Subset, FS_CardinalityType
  <2> QED
    BY <2>2, SettingsAssumption DEF BatchSize, PercentOf
<1>4. Cardinality(b) # 0
  BY <1>2, <1>3 DEF Batches
<1> QED
  BY <1>4, FS_EmptySet

LEMMA OrderInit == Init => RolloutOrder
BY GroupsAssumption
   DEF Init, RolloutOrder, ControlPlanePlay, LaterPlays, BetweenBatches, ControlPlaneFirst

LEMMA OrderHostTask ==
    ASSUME TypeOK, RolloutOrder, NEW h \in Node, HostTask(h)
    PROVE  RolloutOrder'
<1> USE DEF RolloutOrder
<1>1. CASE task = "node"
  <2>1. UpgradeNode(h)
    BY <1>1 DEF HostTask, AtTask, ReadReady, ReadSchedulable, Cordon, Drain, DrainFallback,
           RescueUncordon, FailAfterRescue, UpgradeControlPlane,
           UpgradeNetwork, WaitBeforeUncordon, Uncordon
  <2>2. /\ \A n \in Node \ {h} : kubelet'[n] = kubelet[n]
        /\ UNCHANGED <<play, remaining, batch, api, task>>
        /\ h \in batch
    BY <2>1 DEF TypeOK, UpgradeNode, AtTask, Ran, position
  <2>3. ControlPlanePlay' /\ LaterPlays' /\ BetweenBatches'
    BY <1>1, <2>2 DEF ControlPlanePlay, LaterPlays, BetweenBatches, ApiNew
  <2>4. h \in Workers => ApiNew(CP)
    BY <1>1, <2>2, GroupsAssumption
       DEF ControlPlanePlay, LaterPlays, BetweenBatches, TypeOK, Plays
  <2>5. ControlPlaneFirst'
    BY <2>2, <2>4 DEF ControlPlaneFirst, ApiNew
  <2> QED
    BY <2>3, <2>5
<1>2. CASE task = "control_plane"
  <2>1. UpgradeControlPlane(h)
    BY <1>2 DEF HostTask, AtTask, ReadReady, ReadSchedulable, Cordon, Drain, DrainFallback,
           RescueUncordon, FailAfterRescue, UpgradeNode,
           UpgradeNetwork, WaitBeforeUncordon, Uncordon
  <2>2. /\ pending' = pending \ {h} /\ failed \subseteq failed'
        /\ UNCHANGED <<play, remaining, batch, kubelet, task>>
    BY <2>1 DEF UpgradeControlPlane, Ran, position
  <2>3. ControlPlanePlay'
    BY <1>2, <2>1, <2>2, ApiMonotonic DEF ControlPlanePlay, ApiNew
  <2>4. LaterPlays' /\ BetweenBatches'
    BY <1>2, <2>1, <2>2, ApiMonotonic DEF LaterPlays, BetweenBatches, ApiNew
  <2>5. ControlPlaneFirst'
    BY <2>1, <2>2, ApiMonotonic DEF ControlPlaneFirst
  <2> QED
    BY <2>3, <2>4, <2>5
<1>3. CASE task \notin {"node", "control_plane"}
  BY <1>3, HostTaskFrame
     DEF ControlPlanePlay, LaterPlays, BetweenBatches, ControlPlaneFirst, ApiNew
<1> QED
  BY <1>1, <1>2, <1>3

LEMMA OrderEndRun == ASSUME RolloutOrder, EndRun PROVE RolloutOrder'
BY DEF RolloutOrder, EndRun, NoTask, cluster, ControlPlanePlay, LaterPlays,
       BetweenBatches, ControlPlaneFirst

\* A batch leaves the task control_plane only when all its API servers are new.
LEMMA OrderTaskDone ==
    ASSUME TypeOK, RolloutOrder, TaskDone \/ EnterRescue
    PROVE  RolloutOrder'
<1>1. /\ UNCHANGED <<kubelet, api, play, remaining, batch>>
      /\ task # "none" /\ pending = {}
      /\ \/ task' = NextTask(task) /\ failed = {}
         \/ task' = "rescue_uncordon"
  BY DEF TaskDone, EnterRescue, Begin, cluster, position, Block
<1>2. /\ task' # "none" /\ task' # "network"
      /\ task' = "control_plane" => play = "control_plane" /\ pending' = batch'
      /\ task' \in {"wait", "uncordon"} =>
             (task \in {"node", "control_plane", "wait"} /\ failed = {})
      /\ task' = "wait" /\ task = "node" => play # "control_plane"
      /\ task' = "uncordon" => task = "wait"
  BY <1>1 DEF TaskDone, EnterRescue, Begin, NextTask, Targets, Tasks, position
<1>3. play # "network"
  BY <1>1 DEF TaskDone, EnterRescue, Block, NextTask, RolloutOrder, LaterPlays
<1>4. ControlPlanePlay'
  BY <1>1, <1>2 DEF RolloutOrder, ControlPlanePlay, ApiNew
<1>5. LaterPlays' /\ BetweenBatches' /\ ControlPlaneFirst'
  BY <1>1, <1>2, <1>3 DEF RolloutOrder, LaterPlays, BetweenBatches, ControlPlaneFirst, ApiNew
<1> QED
  BY <1>4, <1>5 DEF RolloutOrder

LEMMA OrderBatchDone == ASSUME TypeOK, RolloutOrder, BatchDone PROVE RolloutOrder'
<1>1. task \in {"network", "uncordon"}
  BY DEF BatchDone, NextTask, TypeOK, Tasks, Block
<1>2. /\ UNCHANGED <<kubelet, api, play, remaining>>
      /\ batch' = {} /\ task' = "none"
  BY DEF BatchDone, NoTask, cluster
<1> QED
  BY <1>1, <1>2
     DEF RolloutOrder, ControlPlanePlay, LaterPlays, BetweenBatches, ControlPlaneFirst, ApiNew

LEMMA OrderNextBatch == ASSUME TypeOK, RolloutOrder, NextBatch PROVE RolloutOrder'
<1>1. /\ UNCHANGED <<kubelet, api, play>>
      /\ batch' \subseteq remaining /\ remaining' = remaining \ batch'
      /\ play # "idle" /\ batch' # {}
  <2>1. batch' \in Batches(play, limit, remaining) /\ remaining # {}
    BY DEF NextBatch
  <2>2. batch' # {}
    BY <2>1, BatchNotEmpty DEF TypeOK
  <2> QED
    BY <2>1, <2>2 DEF NextBatch, cluster, Batches
<1>2. /\ task' = IF play = "network" THEN "network" ELSE "read_ready"
      /\ batch = {}
  BY DEF NextBatch, FirstTask
<1>3. ControlPlanePlay'
  <2>1. CP \ (remaining' \cup batch') = CP \ (remaining \cup batch)
    BY <1>1, <1>2
  <2> QED
    BY <1>1, <1>2, <2>1 DEF RolloutOrder, ControlPlanePlay, ApiNew
<1>4. LaterPlays'
  BY <1>1, <1>2 DEF RolloutOrder, LaterPlays, ApiNew
<1> QED
  BY <1>1, <1>3, <1>4 DEF RolloutOrder, BetweenBatches, ControlPlaneFirst

LEMMA OrderPlayDone == ASSUME TypeOK, RolloutOrder, PlayDone PROVE RolloutOrder'
<1>1. CASE NextPlay(play) = "idle"
  BY <1>1, OrderEndRun DEF PlayDone
<1>2. CASE NextPlay(play) # "idle"
  <2>1. /\ UNCHANGED <<kubelet, api, task, batch>>
        /\ batch = {} /\ remaining = {} /\ task = "none"
        /\ remaining' = PlayHosts(play', limit)
        /\ play' = NextPlay(play)
    BY <1>2 DEF PlayDone, cluster, engine, RolloutOrder, BetweenBatches
  <2>2. \/ play = "control_plane" /\ play' = "network"
        \/ play = "network" /\ play' = "workers"
    BY <1>2, <2>1 DEF NextPlay
  <2>3. play' = "workers" => remaining' \subseteq Workers
    BY <2>1 DEF PlayHosts
  <2> QED
    BY <2>1, <2>2, <2>3
       DEF RolloutOrder, ControlPlanePlay, LaterPlays, BetweenBatches, ControlPlaneFirst, ApiNew
<1> QED
  BY <1>1, <1>2

\* The documented --limit: what it leaves out of the control plane is new.
LEMMA OrderStartRun == ASSUME TypeOK, RolloutOrder, StartRun PROVE RolloutOrder'
<1>1. /\ UNCHANGED <<kubelet, api, task, batch>>
      /\ play = "idle" /\ play' = "control_plane"
      /\ remaining' = limit' \cap CP
      /\ CP \subseteq limit' \/ ApiNew(CP)
  BY DEF StartRun, cluster, engine, PlayHosts, DocumentedLimit, ApiNew
<1> QED
  BY <1>1
     DEF RolloutOrder, ControlPlanePlay, LaterPlays, BetweenBatches, ControlPlaneFirst, ApiNew

LEMMA OrderEnvironment ==
    ASSUME RolloutOrder, NEW n \in Node,
           Schedule(n) \/ ReadyChanges(n) \/ AdminCordon(n) \/ AdminUncordon(n)
    PROVE  RolloutOrder'
<1>1. UNCHANGED <<kubelet, api, play, remaining, batch, task, pending, failed>>
  BY DEF Schedule, ReadyChanges, AdminCordon, AdminUncordon, position, engine
<1> QED
  BY <1>1
     DEF RolloutOrder, ControlPlanePlay, LaterPlays, BetweenBatches, ControlPlaneFirst, ApiNew

LEMMA OrderStep == TypeOK /\ RolloutOrder /\ [Next]_vars => RolloutOrder'
<1> SUFFICES ASSUME TypeOK, RolloutOrder, [Next]_vars PROVE RolloutOrder'
  OBVIOUS
<1>1. CASE UNCHANGED vars
  BY <1>1 DEF vars, cluster, position, engine, RolloutOrder, ControlPlanePlay, LaterPlays,
              BetweenBatches, ControlPlaneFirst, ApiNew
<1> QED
  BY <1>1, OrderHostTask, OrderEndRun, OrderTaskDone, OrderBatchDone, OrderNextBatch,
     OrderPlayDone, OrderStartRun, OrderEnvironment
     DEF Next, Playbook, Environment, Abort, Interrupt

\* Compatibility: in every run, failed, interrupted or repeated, no worker's
\* kubelet is newer than an API server.
THEOREM ControlPlaneUpgradedFirst == Spec => []ControlPlaneFirst
<1>1. RolloutOrder => ControlPlaneFirst
  BY DEF RolloutOrder
<1> QED
  BY <1>1, OrderInit, OrderStep, TypeCorrect, PTL DEF Spec

-----------------------------------------------------------------------------
(* Complete runs *)

KubeletNew(S) == \A n \in S : kubelet[n] = "new"
NetNew(S) == \A n \in S : net[n] = "new"

\* The inductive invariant behind EndedMeansUpgraded, besides RolloutOrder: the
\* hosts of the limit that the play is through with, and what an earlier play of
\* the run had to do; and how far the batch is at each task.
Finished == limit \ (remaining \cup batch)
UpgradedByPlay ==
    /\ play = "control_plane" => KubeletNew(CP \cap Finished)
    /\ play \in {"network", "workers"} => KubeletNew(CP \cap limit)
    /\ play = "network" => NetNew(Finished)
    /\ play = "workers" => KubeletNew(Workers \cap Finished) /\ NetNew(limit)
UpgradedByTask ==
    /\ task = "node" => KubeletNew(batch \ (pending \cup failed))
    /\ task \in {"control_plane", "wait", "uncordon"} => KubeletNew(batch)
    /\ task = "network" => NetNew(batch \ (pending \cup failed))
Upgraded == UpgradedByPlay /\ UpgradedByTask

\* A task leaves components new, and the host it does not fail on new too.
LEMMA NodeMonotonic ==
    ASSUME TypeOK, NEW h \in Node, HostTask(h)
    PROVE  /\ \A n \in Node : kubelet[n] = "new" => kubelet'[n] = "new"
           /\ \A n \in Node : net[n] = "new" => net'[n] = "new"
           /\ task = "node" => pending' = pending \ {h} /\ (h \in failed' \/ kubelet'[h] = "new")
           /\ task = "network" => pending' = pending \ {h} /\ (h \in failed' \/ net'[h] = "new")
<1>1. CASE UpgradeNode(h)
  BY <1>1 DEF TypeOK, UpgradeNode, AtTask, Replaced, Ran, Versions
<1>2. CASE UpgradeNetwork(h)
  BY <1>2 DEF TypeOK, UpgradeNetwork, AtTask, Replaced, Ran, Versions
<1>3. CASE ~UpgradeNode(h) /\ ~UpgradeNetwork(h)
  BY <1>3 DEF HostTask, AtTask, ReadReady, ReadSchedulable, Cordon, Drain, DrainFallback,
              RescueUncordon, FailAfterRescue, UpgradeControlPlane, WaitBeforeUncordon,
              Uncordon, KubectlUncordon, Uncordoned, Drained, DrainFailed, SetUnschedulable,
              cluster
<1> QED
  BY <1>1, <1>2, <1>3

LEMMA UpgradedHostTask ==
    ASSUME TypeOK, Upgraded, NEW h \in Node, HostTask(h)
    PROVE  Upgraded'
<1>1. /\ UNCHANGED <<play, remaining, batch, limit, task>> /\ failed \subseteq failed'
      /\ pending' = pending \/ pending' = pending \ {h}
  BY HostTaskFrame
<1>2. Finished' = Finished /\ Finished \subseteq Node /\ batch \subseteq Node /\ limit \subseteq Node
  BY <1>1 DEF Finished, TypeOK
<1>3. UpgradedByPlay'
  BY <1>1, <1>2, NodeMonotonic DEF Upgraded, UpgradedByPlay, KubeletNew, NetNew
<1>4. UpgradedByTask'
  BY <1>1, <1>2, NodeMonotonic DEF Upgraded, UpgradedByTask, KubeletNew, NetNew
<1> QED
  BY <1>3, <1>4 DEF Upgraded

LEMMA UpgradedEndRun == ASSUME EndRun PROVE Upgraded'
BY DEF EndRun, NoTask, Upgraded, UpgradedByPlay, UpgradedByTask

\* A task is over on the whole batch when no host failed; the others go to the
\* rescue section, which upgrades nothing.
LEMMA UpgradedTaskDone ==
    ASSUME TypeOK, RolloutOrder, Upgraded, TaskDone \/ EnterRescue
    PROVE  Upgraded'
<1>1. /\ UNCHANGED <<kubelet, net, play, remaining, batch, limit>>
      /\ pending = {}
      /\ \/ task' = NextTask(task) /\ failed = {}
         \/ task' = "rescue_uncordon"
  BY DEF TaskDone, EnterRescue, Begin, cluster, position
<1>2. /\ task' # "network"
      /\ task' = "node" => pending' = batch'
      /\ task' \in {"control_plane", "wait", "uncordon"} =>
             task \in {"node", "control_plane", "wait"} /\ failed = {}
  BY <1>1 DEF TaskDone, EnterRescue, Begin, NextTask, Targets, Tasks, position
<1>3. UpgradedByPlay'
  BY <1>1 DEF Upgraded, UpgradedByPlay, Finished, KubeletNew, NetNew
<1>4. UpgradedByTask'
  BY <1>1, <1>2 DEF Upgraded, UpgradedByTask, KubeletNew, NetNew
<1> QED
  BY <1>3, <1>4 DEF Upgraded

LEMMA UpgradedBatchDone ==
    ASSUME TypeOK, RolloutOrder, Upgraded, BatchDone
    PROVE  Upgraded'
<1>1. task \in {"network", "uncordon"}
  BY DEF BatchDone, NextTask, TypeOK, Tasks, Block
<1>2. /\ UNCHANGED <<kubelet, net, play, remaining, limit>>
      /\ batch' = {} /\ task' = "none" /\ pending = {} /\ failed = {}
  BY DEF BatchDone, NoTask, cluster
<1>3. /\ task = "network" <=> play = "network"
      /\ play # "idle"
  BY <1>1 DEF RolloutOrder, ControlPlanePlay, LaterPlays, BetweenBatches, TypeOK, Plays
<1>4. Finished' \subseteq Finished \cup batch
  BY <1>2 DEF Finished
<1>5. /\ task = "network" => NetNew(batch)
      /\ task = "uncordon" => KubeletNew(batch)
  BY <1>2 DEF Upgraded, UpgradedByTask, NetNew, KubeletNew
<1>6. UpgradedByPlay'
  BY <1>1, <1>2, <1>3, <1>4, <1>5 DEF Upgraded, UpgradedByPlay, KubeletNew, NetNew
<1> QED
  BY <1>2, <1>6 DEF Upgraded, UpgradedByTask

LEMMA UpgradedNextBatch ==
    ASSUME TypeOK, Upgraded, NextBatch
    PROVE  Upgraded'
<1>1. /\ UNCHANGED <<kubelet, net, play, limit>> /\ batch = {}
      /\ batch' \subseteq remaining /\ remaining' = remaining \ batch'
      /\ task' \in {"network", "read_ready"} /\ pending' = batch'
  BY DEF NextBatch, Batches, FirstTask, cluster
<1>2. Finished' = Finished
  BY <1>1 DEF Finished
<1> QED
  BY <1>1, <1>2 DEF Upgraded, UpgradedByPlay, UpgradedByTask, KubeletNew, NetNew

LEMMA UpgradedPlayDone ==
    ASSUME TypeOK, RolloutOrder, Upgraded, PlayDone
    PROVE  Upgraded'
<1>1. CASE NextPlay(play) = "idle"
  BY <1>1, UpgradedEndRun DEF PlayDone
<1>2. CASE NextPlay(play) # "idle"
  <2>1. /\ UNCHANGED <<kubelet, net, task, batch, limit>>
        /\ batch = {} /\ remaining = {} /\ task = "none"
        /\ remaining' = PlayHosts(play', limit) /\ play' = NextPlay(play)
    BY <1>2 DEF PlayDone, cluster, engine, RolloutOrder, BetweenBatches
  <2>2. Finished = limit
    BY <2>1 DEF Finished
  <2>3. \/ /\ play = "control_plane" /\ play' = "network"
           /\ Finished' = {}
        \/ /\ play = "network" /\ play' = "workers"
           /\ Workers \cap Finished' = {}
    BY <1>2, <2>1 DEF NextPlay, PlayHosts, Finished, TypeOK
  <2>4. UpgradedByPlay'
    BY <2>1, <2>2, <2>3 DEF Upgraded, UpgradedByPlay, KubeletNew, NetNew
  <2> QED
    BY <2>1, <2>4 DEF Upgraded, UpgradedByTask
<1> QED
  BY <1>1, <1>2

LEMMA UpgradedStartRun ==
    ASSUME TypeOK, RolloutOrder, StartRun
    PROVE  Upgraded'
<1>1. /\ play' = "control_plane" /\ task' = "none" /\ remaining' = limit' \cap CP
  BY DEF StartRun, engine, PlayHosts, RolloutOrder, BetweenBatches
<1>2. CP \cap Finished' = {}
  BY <1>1 DEF Finished
<1> QED
  BY <1>1, <1>2 DEF Upgraded, UpgradedByPlay, UpgradedByTask, KubeletNew

LEMMA UpgradedStep == TypeOK /\ RolloutOrder /\ Upgraded /\ [Next]_vars => Upgraded'
<1> SUFFICES ASSUME TypeOK, RolloutOrder, Upgraded, [Next]_vars PROVE Upgraded'
  OBVIOUS
<1>1. ASSUME UNCHANGED <<kubelet, net, play, limit, remaining, batch, task, pending, failed>>
      PROVE  Upgraded'
  BY <1>1 DEF Upgraded, UpgradedByPlay, UpgradedByTask, Finished, KubeletNew, NetNew
<1>2. ASSUME NEW n \in Node, Schedule(n) \/ ReadyChanges(n) \/ AdminCordon(n) \/ AdminUncordon(n)
      PROVE  Upgraded'
  BY <1>1, <1>2 DEF Schedule, ReadyChanges, AdminCordon, AdminUncordon, position, engine
<1>3. CASE UNCHANGED vars
  BY <1>1, <1>3 DEF vars, cluster, position, engine
<1> QED
  BY <1>2, <1>3, UpgradedHostTask, UpgradedEndRun, UpgradedTaskDone, UpgradedBatchDone,
     UpgradedNextBatch, UpgradedPlayDone, UpgradedStartRun
     DEF Next, Playbook, Environment, Abort, Interrupt

\* A run that comes to its end, whatever failed before, has upgraded every
\* component of every host of its limit.
THEOREM EndedRunsAreComplete == Spec => []EndedMeansUpgraded
<1>1. Init => Upgraded
  BY DEF Init, Upgraded, UpgradedByPlay, UpgradedByTask
<1>2. TypeOK /\ RolloutOrder /\ Upgraded => EndedMeansUpgraded
  <2> SUFFICES ASSUME TypeOK, RolloutOrder, Upgraded, play = "workers", batch = {}, remaining = {}
               PROVE  /\ \A n \in limit : kubelet[n] = "new" /\ net[n] = "new"
                      /\ \A c \in CP \cap limit : api[c] = "new"
    BY DEF EndedMeansUpgraded
  <2>1. ApiNew(CP)
    BY DEF RolloutOrder, LaterPlays
  <2>2. Finished = limit /\ limit \subseteq CP \cup Workers
    BY DEF Finished, TypeOK
  <2> QED
    BY <2>1, <2>2 DEF Upgraded, UpgradedByPlay, KubeletNew, NetNew, ApiNew
<1> QED
  BY <1>1, <1>2, OrderInit, OrderStep, UpgradedStep, TypeCorrect, PTL DEF Spec

-----------------------------------------------------------------------------
(* The end of a run *)

\* How far a run has come: the plays and the tasks that are left, counted, and
\* the attempts the hosts of the batch have left at the current task.
PlaysLeft(p) ==
    CASE p = "control_plane" -> 3
      [] p = "network" -> 2
      [] p = "workers" -> 1
      [] OTHER -> 0
TasksLeft(t) ==
    CASE t = "read_ready" -> 11
      [] t = "read_schedulable" -> 10
      [] t = "cordon" -> 9
      [] t = "drain" -> 8
      [] t = "drain_fallback" -> 7
      [] t = "rescue_uncordon" -> 6
      [] t = "rescue_fail" -> 5
      [] t = "node" -> 4
      [] t = "control_plane" -> 3
      [] t = "wait" -> 2
      [] t \in {"uncordon", "network"} -> 1
      [] OTHER -> 0
AttemptsLeft ==
    {a \in pending \X (0 .. DrainRetries + FallbackRetries) : tries[a[1]] <= a[2]}
StrictlyIn(S, T) == S \subseteq T /\ S # T
Advances ==
    \/ PlaysLeft(play') < PlaysLeft(play)
    \/ play' = play /\ StrictlyIn(remaining', remaining)
    \/ UNCHANGED <<play, remaining>> /\ TasksLeft(task') < TasksLeft(task)
    \/ UNCHANGED <<play, remaining, task>> /\ StrictlyIn(AttemptsLeft', AttemptsLeft)

\* A run comes to an end: whatever fails, each step of the playbook brings the
\* run nearer to it (no retry loop, rescue section, batch or play begins again),
\* and nothing the cluster or the administrator does sets a run back.
RunAdvances ==
    [][/\ Playbook => Advances
       /\ play # "idle" => Advances \/ UNCHANGED <<play, remaining, engine>>]_vars

\* The attempts at a task stay within its retries.
Retries(t) ==
    CASE t = "drain" -> DrainRetries
      [] t = "drain_fallback" -> FallbackRetries
      [] OTHER -> 0
TriesBounded == \A h \in Node : tries[h] <= Retries(task)

\* One attempt of a host: it has run the task, or it is going to try again.
LEMMA OneAttempt ==
    ASSUME TypeOK, TriesBounded, NEW h \in Node, HostTask(h)
    PROVE  /\ UNCHANGED task
           /\ h \in pending /\ tries[h] \in 0 .. Retries(task)
           /\ \/ pending' = pending \ {h} /\ UNCHANGED tries
              \/ /\ UNCHANGED pending /\ tries[h] < Retries(task)
                 /\ tries' = [tries EXCEPT ![h] = @ + 1]
<1>1. h \in pending /\ UNCHANGED task
  BY HostTaskFrame
<1>2. tries[h] \in Nat /\ tries[h] <= Retries(task) /\ Retries(task) \in Nat
  BY SettingsAssumption DEF TypeOK, TriesBounded, Retries
<1>3. CASE Drain(h)
  <2>1. Retries(task) = DrainRetries
    BY <1>3 DEF Drain, AtTask, Retries
  <2> QED
    BY <1>1, <1>2, <1>3, <2>1 DEF Drain, Ran, LastTry, TryAgain
<1>4. CASE DrainFallback(h)
  <2>1. Retries(task) = FallbackRetries
    BY <1>4 DEF DrainFallback, AtTask, Retries
  <2> QED
    BY <1>1, <1>2, <1>4, <2>1 DEF DrainFallback, Ran, LastTry, TryAgain
<1>5. CASE ~Drain(h) /\ ~DrainFallback(h)
  <2>1. pending' = pending \ {h} /\ UNCHANGED tries
    BY <1>5 DEF HostTask, ReadReady, ReadSchedulable, Cordon, RescueUncordon, FailAfterRescue,
                UpgradeNode, UpgradeControlPlane, UpgradeNetwork, WaitBeforeUncordon,
                Uncordon, KubectlUncordon, Ran
  <2> QED
    BY <1>1, <1>2, <2>1
<1> QED
  BY <1>3, <1>4, <1>5

LEMMA TriesStep == TypeOK /\ TriesBounded /\ [Next]_vars => TriesBounded'
<1> SUFFICES ASSUME TypeOK, TriesBounded, [Next]_vars PROVE TriesBounded'
  OBVIOUS
<1>1. ASSUME NEW h \in Node, HostTask(h) PROVE TriesBounded'
  <2> SUFFICES ASSUME NEW g \in Node PROVE tries'[g] <= Retries(task)
    BY <1>1, OneAttempt DEF TriesBounded
  <2>1. tries[g] \in Nat /\ tries[g] <= Retries(task) /\ Retries(task) \in Nat
    BY SettingsAssumption DEF TypeOK, TriesBounded, Retries
  <2>2. tries'[g] = tries[g] \/ (g = h /\ tries'[g] = tries[g] + 1 /\ tries[g] < Retries(task))
    BY <1>1, OneAttempt DEF TypeOK
  <2> QED
    BY <2>1, <2>2
<1>2. ASSUME tries' = [h \in Node |-> 0] PROVE TriesBounded'
  <2>1. Retries(task)' \in Nat
    BY SettingsAssumption DEF Retries
  <2> QED
    BY <1>2, <2>1 DEF TriesBounded
<1>3. ASSUME UNCHANGED <<task, tries>> PROVE TriesBounded'
  BY <1>3 DEF TriesBounded, Retries
<1>4. CASE TaskDone \/ EnterRescue \/ BatchDone \/ NextBatch \/ EndRun
  BY <1>2, <1>4 DEF TaskDone, EnterRescue, BatchDone, NextBatch, EndRun, Begin, NoTask
<1>5. CASE PlayDone
  BY <1>3, <1>4, <1>5 DEF PlayDone, engine
<1>6. CASE StartRun \/ UNCHANGED vars
  BY <1>3, <1>6 DEF StartRun, vars, engine
<1>7. ASSUME NEW n \in Node, Schedule(n) \/ ReadyChanges(n) \/ AdminCordon(n) \/ AdminUncordon(n)
      PROVE  TriesBounded'
  BY <1>3, <1>7 DEF Schedule, ReadyChanges, AdminCordon, AdminUncordon, engine
<1> QED
  BY <1>1, <1>4, <1>5, <1>6, <1>7 DEF Next, Playbook, Environment, Abort, Interrupt

LEMMA AdvanceHostTask ==
    ASSUME TypeOK, TriesBounded, NEW h \in Node, HostTask(h)
    PROVE  Advances
<1> DEFINE most == DrainRetries + FallbackRetries
<1>1. UNCHANGED <<play, remaining, task>>
  BY HostTaskFrame
<1>2. tries[h] \in 0 .. most
  <2>1. tries[h] \in Nat /\ tries[h] <= Retries(task)
    BY OneAttempt, SettingsAssumption DEF TypeOK
  <2>2. Retries(task) \in Nat /\ Retries(task) <= most
    BY SettingsAssumption DEF Retries
  <2> QED
    BY <2>1, <2>2, SettingsAssumption
<1>3. <<h, tries[h]>> \in AttemptsLeft
  BY <1>2, OneAttempt DEF AttemptsLeft
<1>4. <<h, tries[h]>> \notin AttemptsLeft'
  BY OneAttempt DEF AttemptsLeft, TypeOK
<1>5. AttemptsLeft' \subseteq AttemptsLeft
  <2> SUFFICES ASSUME NEW g \in pending', NEW k \in 0 .. most, tries'[g] <= k
               PROVE  g \in pending /\ tries[g] <= k
    BY DEF AttemptsLeft
  <2>1. g \in pending /\ g \in Node /\ tries[g] \in Nat
    BY OneAttempt DEF TypeOK
  <2>2. tries'[g] = tries[g] \/ tries'[g] = tries[g] + 1
    BY <2>1, OneAttempt DEF TypeOK
  <2> QED
    BY <2>1, <2>2
<1> QED
  BY <1>1, <1>3, <1>4, <1>5 DEF Advances, StrictlyIn

\* No task leads back to an earlier one.
LEMMA AdvanceTask ==
    ASSUME TypeOK, TaskDone \/ EnterRescue \/ BatchDone
    PROVE  Advances
<1>1. UNCHANGED <<play, remaining>>
  BY DEF TaskDone, EnterRescue, BatchDone, position
<1>2. TasksLeft(task') < TasksLeft(task)
  <2>1. CASE TaskDone
    BY <2>1 DEF TaskDone, Begin, NextTask, TasksLeft, TypeOK, Tasks, Block
  <2>2. CASE EnterRescue
    BY <2>2 DEF EnterRescue, Begin, TasksLeft, Block
  <2>3. CASE BatchDone
    BY <2>3 DEF BatchDone, NoTask, TasksLeft, TypeOK, Tasks, Block
  <2> QED
    BY <2>1, <2>2, <2>3
<1> QED
  BY <1>1, <1>2 DEF Advances

LEMMA AdvanceEndRun == ASSUME TypeOK, play # "idle", EndRun PROVE Advances
BY DEF TypeOK, Plays, EndRun, Advances, PlaysLeft

LEMMA AdvanceBetween ==
    ASSUME TypeOK, RolloutOrder, Abort \/ NextBatch \/ PlayDone
    PROVE  Advances
<1>1. CASE Abort
  <2>1. batch # {} /\ play # "idle"
    BY <1>1 DEF Abort, TypeOK, RolloutOrder, BetweenBatches
  <2> QED
    BY <1>1, <2>1, AdvanceEndRun DEF Abort
<1>2. CASE NextBatch
  <2>1. /\ batch' \in Batches(play, limit, remaining) /\ remaining # {}
        /\ remaining' = remaining \ batch' /\ UNCHANGED play
    BY <1>2 DEF NextBatch
  <2>2. batch' # {} /\ batch' \subseteq remaining
    BY <2>1, BatchNotEmpty DEF TypeOK, Batches
  <2> QED
    BY <2>1, <2>2 DEF Advances, StrictlyIn
<1>3. CASE PlayDone
  <2>1. play # "idle"
    BY <1>3 DEF PlayDone
  <2>2. CASE NextPlay(play) = "idle"
    BY <1>3, <2>1, <2>2, AdvanceEndRun DEF PlayDone
  <2>3. CASE NextPlay(play) # "idle"
    BY <1>3, <2>3 DEF PlayDone, NextPlay, Advances, PlaysLeft
  <2> QED
    BY <2>2, <2>3
<1> QED
  BY <1>1, <1>2, <1>3

LEMMA AdvanceStep ==
    ASSUME TypeOK, RolloutOrder, TriesBounded, Next
    PROVE  /\ Playbook => Advances
           /\ play # "idle" => Advances \/ UNCHANGED <<play, remaining, engine>>
<1>1. Playbook => Advances
  BY AdvanceHostTask, AdvanceTask, AdvanceBetween DEF Playbook
<1>2. ASSUME play # "idle", Environment
      PROVE  Advances \/ UNCHANGED <<play, remaining, engine>>
  BY <1>2, AdvanceEndRun DEF Environment, StartRun, Interrupt, Schedule, ReadyChanges,
                             AdminCordon, AdminUncordon, position
<1> QED
  BY <1>1, <1>2 DEF Next

\* A run comes to its end: every step of the playbook brings it nearer, and no
\* step of the cluster or the administrator sets it back.
THEOREM EveryStepAdvances == Spec => RunAdvances
<1>1. Init => TriesBounded
  BY SettingsAssumption DEF Init, TriesBounded, Retries
<1>2. TypeOK /\ RolloutOrder /\ TriesBounded /\ [Next]_vars =>
        [/\ Playbook => Advances
         /\ play # "idle" => Advances \/ UNCHANGED <<play, remaining, engine>>]_vars
  BY AdvanceStep
<1> QED
  BY <1>1, <1>2, TriesStep, OrderInit, OrderStep, TypeCorrect, PTL DEF Spec, RunAdvances

\* What is left of a run: its plays, the hosts of the play, the tasks of the
\* batch and the attempts of its hosts, as finite sets.
Left == <<1 .. PlaysLeft(play), <<remaining, <<1 .. TasksLeft(task), AttemptsLeft>>>>>>

LeftOfBatch == FiniteSubsetsOf(Nat) \X FiniteSubsetsOf(Node \X Nat)
LeftOfPlay == FiniteSubsetsOf(Node) \X LeftOfBatch
LeftOfRun == FiniteSubsetsOf(Nat) \X LeftOfPlay

\* Less is left, the plays first, then the hosts, the tasks and the attempts.
LessOfBatch ==
    LexPairOrdering(StrictSubsetOrdering(Nat), StrictSubsetOrdering(Node \X Nat),
                    FiniteSubsetsOf(Nat), FiniteSubsetsOf(Node \X Nat))
LessOfPlay ==
    LexPairOrdering(StrictSubsetOrdering(Node), LessOfBatch, FiniteSubsetsOf(Node), LeftOfBatch)
LessOfRun ==
    LexPairOrdering(StrictSubsetOrdering(Nat), LessOfPlay, FiniteSubsetsOf(Nat), LeftOfPlay)

LEMMA CountsAreNat ==
    ASSUME NEW p, NEW t PROVE PlaysLeft(p) \in Nat /\ TasksLeft(t) \in Nat
BY DEF PlaysLeft, TasksLeft

LEMMA ShorterInterval ==
    ASSUME NEW m \in Nat, NEW n \in Nat, m < n
    PROVE  <<1 .. m, 1 .. n>> \in StrictSubsetOrdering(Nat)
<1>1. n \in 1 .. n /\ n \notin 1 .. m
  OBVIOUS
<1>2. 1 .. m \subseteq 1 .. n /\ 1 .. n \subseteq Nat
  OBVIOUS
<1> QED
  BY <1>1, <1>2 DEF StrictSubsetOrdering

LEMMA FiniteInterval == ASSUME NEW n \in Nat PROVE 1 .. n \in FiniteSubsetsOf(Nat)
BY FS_Interval DEF FiniteSubsetsOf

LeftTyped ==
    /\ 1 .. PlaysLeft(play) \in FiniteSubsetsOf(Nat)
    /\ 1 .. TasksLeft(task) \in FiniteSubsetsOf(Nat)
    /\ remaining \in FiniteSubsetsOf(Node)
    /\ AttemptsLeft \in FiniteSubsetsOf(Node \X Nat)

LEMMA TypedLeft == TypeOK => LeftTyped
<1> SUFFICES ASSUME TypeOK PROVE LeftTyped
  OBVIOUS
<1>1. /\ 1 .. PlaysLeft(play) \in FiniteSubsetsOf(Nat)
      /\ 1 .. TasksLeft(task) \in FiniteSubsetsOf(Nat)
  BY CountsAreNat, FiniteInterval
<1>2. IsFiniteSet(Node)
  BY GroupsAssumption, FS_Union
<1>3. remaining \in FiniteSubsetsOf(Node)
  BY <1>2, FS_Subset DEF TypeOK, FiniteSubsetsOf
<1>4. AttemptsLeft \in FiniteSubsetsOf(Node \X Nat)
  <2> DEFINE K == 0 .. DrainRetries + FallbackRetries
  <2>1. pending \subseteq Node /\ IsFiniteSet(pending)
    BY <1>2, FS_Subset DEF TypeOK
  <2>2. K \subseteq Nat /\ IsFiniteSet(K)
    BY FS_Interval, SettingsAssumption
  <2>3. IsFiniteSet(pending \X K)
    BY <2>1, <2>2, FS_Product
  <2>4. AttemptsLeft \subseteq pending \X K
    BY DEF AttemptsLeft
  <2>5. AttemptsLeft \subseteq Node \X Nat
    BY <2>1, <2>2, <2>4
  <2> QED
    BY <2>3, <2>4, <2>5, FS_Subset DEF FiniteSubsetsOf
<1> QED
  BY <1>1, <1>3, <1>4 DEF LeftTyped

LEMMA TypedLeftNext == (TypeOK => LeftTyped)'
BY TypedLeft, PTL

\* To advance is to have less left.
LEMMA AdvanceLeavesLess ==
    ASSUME TypeOK, TypeOK', Advances
    PROVE  <<Left', Left>> \in LessOfRun
<1> DEFINE P == 1 .. PlaysLeft(play)
           T == 1 .. TasksLeft(task)
           A == AttemptsLeft
<1>1. /\ P \in FiniteSubsetsOf(Nat) /\ P' \in FiniteSubsetsOf(Nat)
      /\ T \in FiniteSubsetsOf(Nat) /\ T' \in FiniteSubsetsOf(Nat)
      /\ remaining \in FiniteSubsetsOf(Node) /\ remaining' \in FiniteSubsetsOf(Node)
      /\ A \in FiniteSubsetsOf(Node \X Nat) /\ A' \in FiniteSubsetsOf(Node \X Nat)
  BY TypedLeft, TypedLeftNext DEF LeftTyped
<1>2. \/ <<P', P>> \in StrictSubsetOrdering(Nat)
      \/ P' = P /\ <<remaining', remaining>> \in StrictSubsetOrdering(Node)
      \/ P' = P /\ remaining' = remaining /\ <<T', T>> \in StrictSubsetOrdering(Nat)
      \/ /\ P' = P /\ remaining' = remaining /\ T' = T
         /\ <<A', A>> \in StrictSubsetOrdering(Node \X Nat)
  <2>1. CASE PlaysLeft(play') < PlaysLeft(play)
    BY <2>1, CountsAreNat, ShorterInterval
  <2>2. CASE play' = play /\ StrictlyIn(remaining', remaining)
    BY <1>1, <2>2 DEF StrictlyIn, StrictSubsetOrdering, FiniteSubsetsOf
  <2>3. CASE UNCHANGED <<play, remaining>> /\ TasksLeft(task') < TasksLeft(task)
    BY <2>3, CountsAreNat, ShorterInterval
  <2>4. CASE UNCHANGED <<play, remaining, task>> /\ StrictlyIn(AttemptsLeft', AttemptsLeft)
    BY <1>1, <2>4 DEF StrictlyIn, StrictSubsetOrdering, FiniteSubsetsOf
  <2> QED
    BY <2>1, <2>2, <2>3, <2>4 DEF Advances
<1> HIDE DEF P, T, A
<1>3. /\ <<T, A>> \in LeftOfBatch /\ <<T', A'>> \in LeftOfBatch
      /\ <<remaining, <<T, A>>>> \in LeftOfPlay /\ <<remaining', <<T', A'>>>> \in LeftOfPlay
  BY <1>1 DEF LeftOfBatch, LeftOfPlay
<1>4. \/ <<P', P>> \in StrictSubsetOrdering(Nat)
      \/ P' = P /\ <<remaining', remaining>> \in StrictSubsetOrdering(Node)
      \/ P' = P /\ remaining' = remaining /\ <<<<T', A'>>, <<T, A>>>> \in LessOfBatch
  BY <1>1, <1>2 DEF LessOfBatch, LexPairOrdering
<1>5. \/ <<P', P>> \in StrictSubsetOrdering(Nat)
      \/ P' = P /\ <<<<remaining', <<T', A'>>>>, <<remaining, <<T, A>>>>>> \in LessOfPlay
  BY <1>1, <1>3, <1>4 DEF LessOfPlay, LexPairOrdering
<1>6. <<<<P', <<remaining', <<T', A'>>>>>>, <<P, <<remaining, <<T, A>>>>>>>> \in LessOfRun
  BY <1>1, <1>3, <1>5 DEF LessOfRun, LexPairOrdering
<1> QED
  BY <1>6 DEF Left, P, T, A

\* Nothing can leave less again and again without end.
LEMMA LessIsWellFounded == IsWellFoundedOn(LessOfRun, LeftOfRun)
<1>1. IsWellFoundedOn(LessOfBatch, LeftOfBatch)
  BY FS_StrictSubsetOrderingWellFounded, WFLexPairOrdering DEF LessOfBatch, LeftOfBatch
<1>2. IsWellFoundedOn(LessOfPlay, LeftOfPlay)
  BY <1>1, FS_StrictSubsetOrderingWellFounded, WFLexPairOrdering DEF LessOfPlay, LeftOfPlay
<1> QED
  BY <1>2, FS_StrictSubsetOrderingWellFounded, WFLexPairOrdering DEF LessOfRun, LeftOfRun

\* A run is finite: every step of the playbook leaves less of it in an order
\* without endless descents, and no other step leaves more of it; so it has no
\* endless sequence of steps, whatever fails, retries and rescues it meets.
THEOREM RunsAreFinite ==
    /\ IsWellFoundedOn(LessOfRun, LeftOfRun)
    /\ Spec => [][/\ Playbook => <<Left', Left>> \in LessOfRun
                  /\ play # "idle" => <<Left', Left>> \in LessOfRun \/ Left' = Left]_vars
<1>1. TypeOK /\ TypeOK'
      /\ [/\ Playbook => Advances
          /\ play # "idle" => Advances \/ UNCHANGED <<play, remaining, engine>>]_vars
      => [/\ Playbook => <<Left', Left>> \in LessOfRun
          /\ play # "idle" => <<Left', Left>> \in LessOfRun \/ Left' = Left]_vars
  BY AdvanceLeavesLess DEF Left, AttemptsLeft, engine
<1>2. Spec => [][/\ Playbook => <<Left', Left>> \in LessOfRun
                 /\ play # "idle" => <<Left', Left>> \in LessOfRun \/ Left' = Left]_vars
  BY <1>1, EveryStepAdvances, TypeCorrect, PTL DEF RunAdvances
<1> QED
  BY <1>2, LessIsWellFounded

-----------------------------------------------------------------------------
(* Capacity *)

\* Only tasks of the drain block take a node out of service, and only theirs.
LEMMA OutOnlyByBlock ==
    ASSUME TypeOK, NEW h \in Node, HostTask(h)
    PROVE  /\ UNCHANGED held
           /\ task \notin Block => \A n \in Node : unschedulable'[n] => unschedulable[n]
           /\ \A n \in Node \ {h} : unschedulable'[n] = unschedulable[n]
           /\ \A n \in stranded : n \in stranded' \/ ~unschedulable'[n]
           /\ task = "uncordon" => h \in failed' \/ ~unschedulable'[h]
           /\ task # "read_schedulable" => UNCHANGED needsCordoning
<1>1. CASE Cordon(h) \/ Drain(h) \/ DrainFallback(h)
  BY <1>1 DEF Cordon, Drain, DrainFallback, AtTask, Drained, DrainFailed, SetUnschedulable,
              Block, TypeOK, facts, position
<1>2. CASE RescueUncordon(h) \/ Uncordon(h)
  BY <1>2 DEF RescueUncordon, Uncordon, KubectlUncordon, Uncordoned, SetUnschedulable,
              AtTask, Ran, Block, TypeOK, facts
<1>3. CASE ReadReady(h) \/ ReadSchedulable(h) \/ FailAfterRescue(h) \/ WaitBeforeUncordon(h)
  BY <1>3 DEF ReadReady, ReadSchedulable, FailAfterRescue, WaitBeforeUncordon, AtTask,
              cluster, facts, position
<1>4. CASE UpgradeNode(h) \/ UpgradeControlPlane(h) \/ UpgradeNetwork(h)
  BY <1>4 DEF UpgradeNode, UpgradeControlPlane, UpgradeNetwork, AtTask, facts, position
<1> QED
  BY <1>1, <1>2, <1>3, <1>4 DEF HostTask

LEMMA CapacityHostTask ==
    ASSUME TypeOK, CapacityByTask, NEW h \in Node, HostTask(h)
    PROVE  CapacityByTask'
<1> SUFFICES ASSUME play' # "idle" PROVE CapacityByTask'
  BY DEF CapacityByTask
<1>1. /\ UNCHANGED <<play, batch, task, held>> /\ play # "idle"
      /\ h \in batch /\ h \in pending /\ pending' \subseteq pending
      /\ pending \subseteq pending' \cup {h} /\ failed \subseteq failed'
  BY HostTaskFrame, OutOnlyByBlock DEF TypeOK
<1>2. \A n \in Node \ {h} : Out(n)' => Out(n)
  BY <1>1, OutOnlyByBlock DEF Out
<1>3. \A n \in stranded : Out(n)' => n \in stranded'
  BY OutOnlyByBlock DEF Out
<1>4. task \notin Block => (Out(h)' => Out(h))
  BY <1>1, OutOnlyByBlock DEF Out
<1>5. Accounted(Node \ batch)'
  BY <1>1, <1>2, <1>3 DEF CapacityByTask, Accounted
<1>6. task' \in {"none", "read_ready", "read_schedulable", "network"} => Accounted(Node)'
  BY <1>1, <1>2, <1>3, <1>4 DEF CapacityByTask, Accounted, Block
<1>7. Accounted({n \in batch : ~needsCordoning[n]})'
  <2>1. CASE task = "read_schedulable"
    BY <1>1, <1>6, <2>1 DEF Accounted, TypeOK
  <2>2. CASE task # "read_schedulable"
    <3>1. UNCHANGED needsCordoning
      BY <2>2, OutOnlyByBlock
    <3>2. task \in Block => needsCordoning[h]
      BY <1>1 DEF CapacityByTask
    <3> QED
      BY <1>1, <1>2, <1>3, <1>4, <3>1, <3>2 DEF CapacityByTask, Accounted, TypeOK
  <2> QED
    BY <2>1, <2>2
<1>8. task' \in Block => \A g \in pending' : needsCordoning'[g]
  BY <1>1, OutOnlyByBlock DEF CapacityByTask, Block
<1>9. task' = "uncordon" => Accounted(batch \ (pending \cup failed))'
  <2> SUFFICES ASSUME task = "uncordon", NEW n \in batch, n \notin pending', n \notin failed',
                      Out(n)'
               PROVE  n \in stranded'
    BY <1>1 DEF Accounted
  <2>1. n # h
    BY OutOnlyByBlock DEF Out
  <2>2. n \notin pending /\ n \notin failed /\ n \in Node
    BY <1>1, <2>1 DEF TypeOK
  <2> QED
    BY <1>1, <1>2, <1>3, <2>1, <2>2 DEF CapacityByTask, Accounted
<1> QED
  BY <1>5, <1>6, <1>7, <1>8, <1>9 DEF CapacityByTask

\* A batch begins its task `uncordon' with the hosts it may have taken out.
LEMMA CapacityTaskDone ==
    ASSUME TypeOK, RolloutOrder, CapacityByTask, TaskDone \/ EnterRescue
    PROVE  CapacityByTask'
<1>1. /\ UNCHANGED <<play, batch, unschedulable, held, stranded, needsCordoning>>
      /\ task' \notin {"none", "read_ready", "network"}
      /\ task' = "read_schedulable" => task = "read_ready"
      /\ task' \in Block \cup {"uncordon"} => pending' = Targets(task')
  BY DEF TaskDone, EnterRescue, Begin, NextTask, Block, cluster, facts, position
<1>2. task' \in Block => \A g \in pending' : needsCordoning[g]
  BY <1>1 DEF Targets, Block
<1>3. task' = "uncordon" => batch \ pending' \subseteq {n \in batch : ~needsCordoning[n]}
  BY <1>1 DEF Targets
<1> QED
  BY <1>1, <1>2, <1>3 DEF CapacityByTask, Accounted, Out

LEMMA CapacityBatchDone ==
    ASSUME TypeOK, CapacityByTask, BatchDone PROVE CapacityByTask'
<1>1. task \in {"network", "uncordon"}
  BY DEF BatchDone, NextTask, TypeOK, Tasks, Block
<1>2. /\ UNCHANGED <<play, unschedulable, held, stranded, needsCordoning>>
      /\ pending = {} /\ failed = {}
      /\ batch' = {} /\ task' = "none" /\ pending' = {}
  BY DEF BatchDone, NoTask, cluster, facts
<1> QED
  BY <1>1, <1>2 DEF CapacityByTask, Accounted, Out, Block

LEMMA CapacityNextBatch ==
    ASSUME TypeOK, RolloutOrder, CapacityByTask, NextBatch PROVE CapacityByTask'
<1>1. /\ UNCHANGED <<play, unschedulable, held, stranded, needsCordoning>>
      /\ play # "idle" /\ batch = {}
      /\ task' \in {"network", "read_ready"}
      /\ batch' \subseteq Node
  BY DEF NextBatch, FirstTask, Batches, TypeOK, cluster, facts
<1> QED
  BY <1>1 DEF CapacityByTask, Accounted, Out, Block

LEMMA CapacityPlay ==
    ASSUME TypeOK, RolloutOrder, CapacityByTask, PlayDone \/ StartRun \/ EndRun
    PROVE  CapacityByTask'
<1>1. CASE EndRun
  BY <1>1 DEF EndRun, CapacityByTask
<1>2. CASE StartRun
  <2>1. /\ UNCHANGED <<unschedulable, held, task, batch>>
        /\ batch = {} /\ task = "none"
        /\ stranded' = {n \in Node : Out(n)}
    BY <1>2 DEF StartRun, cluster, engine, Out, RolloutOrder, BetweenBatches
  <2> QED
    BY <2>1 DEF CapacityByTask, Accounted, Out, Block
<1>3. CASE PlayDone /\ ~EndRun
  <2>1. /\ UNCHANGED <<unschedulable, held, task, batch, stranded>>
        /\ batch = {} /\ task = "none" /\ play # "idle"
    BY <1>3 DEF PlayDone, cluster, engine, RolloutOrder, BetweenBatches
  <2> QED
    BY <2>1 DEF CapacityByTask, Accounted, Out, Block
<1> QED
  BY <1>1, <1>2, <1>3

LEMMA CapacityEnvironment ==
    ASSUME TypeOK, CapacityByTask, NEW n \in Node,
           Schedule(n) \/ ReadyChanges(n) \/ AdminCordon(n) \/ AdminUncordon(n)
    PROVE  CapacityByTask'
<1>1. UNCHANGED <<play, batch, task, pending, failed, needsCordoning>>
  BY DEF Schedule, ReadyChanges, AdminCordon, AdminUncordon, facts, position, engine
<1>2. \A m \in Node : Out(m)' => Out(m) /\ (m \in stranded => m \in stranded')
  BY DEF Schedule, ReadyChanges, AdminCordon, AdminUncordon, position, Out, TypeOK
<1> QED
  BY <1>1, <1>2 DEF CapacityByTask, Accounted, TypeOK

LEMMA CapacityStep == TypeOK /\ RolloutOrder /\ CapacityByTask /\ [Next]_vars => CapacityByTask'
<1> SUFFICES ASSUME TypeOK, RolloutOrder, CapacityByTask, [Next]_vars PROVE CapacityByTask'
  OBVIOUS
<1>1. CASE UNCHANGED vars
  BY <1>1 DEF vars, cluster, facts, position, engine, CapacityByTask, Accounted, Out
<1> QED
  BY <1>1, CapacityHostTask, CapacityTaskDone, CapacityBatchDone, CapacityNextBatch,
     CapacityPlay, CapacityEnvironment
     DEF Next, Playbook, Environment, Abort, Interrupt

\* Capacity: the nodes out of service on the playbook's account are hosts of
\* the current batch, or were left behind by an earlier run.
THEOREM AtMostOneBatchOut == Spec => []OneBatchOut
<1>1. Init => CapacityByTask
  BY DEF Init, CapacityByTask
<1>2. CapacityByTask => OneBatchOut
  BY DEF CapacityByTask, OneBatchOut, Accounted
<1> QED
  BY <1>1, <1>2, CapacityStep, OrderInit, OrderStep, TypeCorrect, PTL DEF Spec

-----------------------------------------------------------------------------
(* Refinement *)

LEMMA PercentOfMonotonic ==
    ASSUME NEW m \in Nat, NEW n \in Nat, m <= n
    PROVE  PercentOf(m) <= PercentOf(n)
<1>1. m * SerialPercent <= n * SerialPercent
  BY SettingsAssumption
<1>2. m * SerialPercent \in Nat /\ n * SerialPercent \in Nat
  BY SettingsAssumption
<1> DEFINE a == m * SerialPercent
           b == n * SerialPercent
<1>3. a \in Nat /\ b \in Nat /\ a <= b
  BY <1>1, <1>2
<1> HIDE DEF a, b
<1>4. (IF a < 100 THEN 1 ELSE a \div 100) <= (IF b < 100 THEN 1 ELSE b \div 100)
  BY <1>3
<1> QED
  BY <1>4 DEF a, b, PercentOf

\* A batch of the worker play is at most the given percentage of the workers.
LEMMA WorkerBatchSize ==
    ASSUME NEW lim, NEW hosts \in SUBSET Workers, NEW b \in Batches("workers", lim, hosts)
    PROVE  Cardinality(b) <= PercentOf(Cardinality(Workers))
<1>1. IsFiniteSet(Workers) /\ IsFiniteSet(hosts) /\ IsFiniteSet(PlayHosts("workers", lim))
  BY GroupsAssumption, FS_Subset DEF PlayHosts
<1>2. /\ Cardinality(PlayHosts("workers", lim)) <= Cardinality(Workers)
      /\ Cardinality(PlayHosts("workers", lim)) \in Nat
      /\ Cardinality(Workers) \in Nat /\ Cardinality(hosts) \in Nat
  BY <1>1, FS_Subset, FS_CardinalityType DEF PlayHosts
<1>3. BatchSize("workers", lim) = PercentOf(Cardinality(PlayHosts("workers", lim)))
  BY DEF BatchSize
<1>4. BatchSize("workers", lim) <= PercentOf(Cardinality(Workers))
  BY <1>2, <1>3, PercentOfMonotonic
<1>5. /\ BatchSize("workers", lim) \in Int
      /\ PercentOf(Cardinality(Workers)) \in Int
  BY <1>2, <1>3, SettingsAssumption DEF PercentOf
<1>6. Cardinality(b) <= BatchSize("workers", lim)
  BY <1>2, <1>5 DEF Batches
<1> QED
  BY <1>2, <1>4, <1>5, <1>6 DEF Batches

\* A batch of the control plane play is one node.
LEMMA ControlPlaneBatch ==
    ASSUME NEW lim, NEW hosts \in SUBSET CP, hosts # {},
           NEW b \in Batches("control_plane", lim, hosts)
    PROVE  \E c \in CP : b = {c}
<1>1. IsFiniteSet(hosts) /\ IsFiniteSet(b) /\ b \subseteq hosts
  BY GroupsAssumption, FS_Subset DEF Batches
<1>2. Cardinality(hosts) \in Nat /\ Cardinality(hosts) # 0
  BY <1>1, FS_CardinalityType, FS_EmptySet
<1>3. Cardinality(b) = 1
  BY <1>2 DEF Batches, BatchSize
<1> QED
  BY <1>1, <1>3, FS_Singleton

LEMMA RolloutStep ==
    ASSUME TypeOK, RolloutOrder, [Next]_vars
    PROVE  [Rollout!Next]_Rollout!vars
<1> USE DEF Window
<1>1. ASSUME NEW h \in Node, HostTask(h) PROVE [Rollout!Next]_Rollout!vars
  <2>1. UNCHANGED <<play, batch>> /\ h \in batch
    BY <1>1, HostTaskFrame DEF TypeOK
  <2>2. CASE UpgradeNode(h)
    <3>1. Window = batch
      BY <2>1, <2>2 DEF UpgradeNode, AtTask, RolloutOrder, LaterPlays, BetweenBatches, TypeOK, Plays
    <3>2. /\ UNCHANGED api
          /\ \E v \in {kubelet[h], "new"} : kubelet' = [kubelet EXCEPT ![h] = v]
      <4>1. kubelet[h] \in {"old", "new"}
        BY DEF TypeOK, Versions
      <4> QED
        BY <2>2, <4>1 DEF UpgradeNode, Replaced
    <3>3. kubelet' = kubelet \/ kubelet' = [kubelet EXCEPT ![h] = "new"]
      BY <3>2 DEF TypeOK
    <3> QED
      BY <2>1, <3>1, <3>2, <3>3 DEF Rollout!Next, Rollout!vars, Rollout!UpgradeKubelet
  <2>3. CASE UpgradeControlPlane(h)
    <3>1. Window = batch /\ h \in CP
      BY <2>1, <2>3
         DEF UpgradeControlPlane, AtTask, RolloutOrder, ControlPlanePlay, LaterPlays,
             BetweenBatches, TypeOK, Plays
    <3>2. /\ UNCHANGED kubelet
          /\ \E v \in {api[h], "new"} : api' = [api EXCEPT ![h] = v]
      <4>1. api[h] \in {"old", "new"}
        BY <3>1 DEF TypeOK, Versions
      <4> QED
        BY <2>3, <4>1 DEF UpgradeControlPlane, Replaced
    <3>3. api' = api \/ api' = [api EXCEPT ![h] = "new"]
      BY <3>2 DEF TypeOK
    <3> QED
      BY <2>1, <3>1, <3>2, <3>3 DEF Rollout!Next, Rollout!vars, Rollout!UpgradeApi
  <2>4. CASE ~UpgradeNode(h) /\ ~UpgradeControlPlane(h)
    <3>1. UNCHANGED <<kubelet, api>>
      BY <1>1, <2>4
         DEF HostTask, ReadReady, ReadSchedulable, Cordon, Drain, DrainFallback,
             RescueUncordon, FailAfterRescue, UpgradeNetwork, WaitBeforeUncordon, Uncordon,
             KubectlUncordon, Uncordoned, Drained, DrainFailed, SetUnschedulable, cluster
    <3> QED
      BY <2>1, <3>1 DEF Rollout!vars
  <2> QED
    BY <2>2, <2>3, <2>4
<1>2. CASE BatchDone \/ EndRun
  BY <1>2 DEF BatchDone, EndRun, cluster, Rollout!Next, Rollout!vars, Rollout!Close
<1>3. CASE NextBatch
  <2>1. /\ UNCHANGED <<kubelet, api, play>> /\ batch = {} /\ remaining # {}
        /\ batch' \in Batches(play, limit, remaining)
    BY <1>3 DEF NextBatch, cluster
  <2>2. CASE play = "control_plane"
    <3>1. PICK c \in CP : batch' = {c}
      BY <2>1, <2>2, ControlPlaneBatch DEF RolloutOrder, ControlPlanePlay
    <3> QED
      BY <2>1, <2>2, <3>1 DEF Rollout!Next, Rollout!OpenControlPlane
  <2>3. CASE play = "workers"
    <3>1. /\ batch' \in SUBSET Workers
          /\ Cardinality(batch') <= PercentOf(Cardinality(Workers))
      BY <2>1, <2>3, WorkerBatchSize DEF RolloutOrder, LaterPlays, Batches
    <3>2. batch' # {}
      BY <2>1, BatchNotEmpty DEF TypeOK
    <3>3. \A c \in CP : api[c] = "new"
      BY <2>3 DEF RolloutOrder, LaterPlays, ApiNew
    <3>4. Window = {} /\ Window' = batch' /\ UNCHANGED <<kubelet, api>>
      BY <2>1, <2>3
    <3> QED
      BY <3>1, <3>2, <3>3, <3>4 DEF Rollout!Next, Rollout!OpenWorkers, WorkerWindows
  <2>4. CASE play \notin {"control_plane", "workers"}
    BY <2>1, <2>4 DEF Rollout!vars
  <2> QED
    BY <2>2, <2>3, <2>4
<1>4. CASE PlayDone /\ ~EndRun
  BY <1>4 DEF PlayDone, cluster, Rollout!vars
<1>5. CASE TaskDone \/ EnterRescue
  BY <1>5 DEF TaskDone, EnterRescue, cluster, position, Rollout!vars
<1>6. CASE StartRun
  BY <1>6 DEF StartRun, cluster, Rollout!vars, RolloutOrder, BetweenBatches
<1>7. ASSUME NEW n \in Node, Schedule(n) \/ ReadyChanges(n) \/ AdminCordon(n) \/ AdminUncordon(n)
      PROVE  [Rollout!Next]_Rollout!vars
  BY <1>7 DEF Schedule, ReadyChanges, AdminCordon, AdminUncordon, position, Rollout!vars
<1>8. CASE UNCHANGED vars
  BY <1>8 DEF vars, cluster, position, Rollout!vars
<1> QED
  BY <1>1, <1>2, <1>3, <1>4, <1>5, <1>6, <1>7, <1>8
     DEF Next, Playbook, Environment, Abort, Interrupt

\* The playbook implements StagedRollout: the nodes are upgraded in windows of
\* one control plane node, then of at most the serial percentage of the
\* workers, and no version goes back.
THEOREM PlaybookImplementsRollout == Spec => ImplementsStagedRollout
<1>1. Init => Rollout!Init
  BY DEF Init, Rollout!Init, Window
<1> QED
  BY <1>1, RolloutStep, OrderInit, OrderStep, TypeCorrect, PTL
     DEF Spec, Rollout!Spec, ImplementsStagedRollout
=============================================================================
