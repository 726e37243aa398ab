----------------------- MODULE RollingUpgrade_cordons -----------------------
(* Theorems about RollingUpgrade: what needs_cordoning, read once for each  *)
(* batch, does to the administrator's cordons and to the pods of the nodes; *)
(* and what the drain block does when drains fail.                          *)
EXTENDS RollingUpgrade_proofs

(* The hosts of the batch whose fact is of this batch, and those it takes   *)
(* out of service.                                                          *)
Decided ==
    CASE task \in {"none", "read_ready", "network"} -> {}
      [] task = "read_schedulable" -> batch \ pending
      [] OTHER -> batch
Taken == {h \in Decided : needsCordoning[h]}

LEMMA DecidedInBatch == Decided \subseteq batch
BY DEF Decided

\* A cordon is lifted by the two tasks that uncordon only, of their host.
LEMMA WhoUncordons ==
    ASSUME TypeOK, NEW h \in Node, HostTask(h), NEW n \in Node,
           unschedulable[n], ~unschedulable'[n]
    PROVE  n = h /\ task \in {"rescue_uncordon", "uncordon"}
<1>1. ~(Cordon(h) \/ Drain(h) \/ DrainFallback(h))
  BY DEF Cordon, Drain, DrainFallback, Drained, DrainFailed, SetUnschedulable, TypeOK
<1>2. ~(ReadReady(h) \/ ReadSchedulable(h) \/ FailAfterRescue(h) \/ WaitBeforeUncordon(h))
  BY DEF ReadReady, ReadSchedulable, FailAfterRescue, WaitBeforeUncordon, cluster
<1>3. ~(UpgradeNode(h) \/ UpgradeControlPlane(h) \/ UpgradeNetwork(h))
  BY DEF UpgradeNode, UpgradeControlPlane, UpgradeNetwork
<1>4. RescueUncordon(h) \/ Uncordon(h)
  BY <1>1, <1>2, <1>3 DEF HostTask
<1> QED
  BY <1>4 DEF RescueUncordon, Uncordon, KubectlUncordon, Uncordoned, SetUnschedulable,
              AtTask, TypeOK

\* A task of a host decides about this host only, and only at the second read.
LEMMA HostDecides ==
    ASSUME TypeOK, NEW h \in Node, HostTask(h)
    PROVE  /\ \A n \in Decided' : n \in Decided \/ (n = h /\ task = "read_schedulable")
           /\ \A n \in Decided : needsCordoning'[n] = needsCordoning[n]
<1>1. /\ UNCHANGED <<batch, task>> /\ h \in pending
      /\ pending \subseteq pending' \cup {h}
  BY HostTaskFrame
<1>2. ASSUME task = "read_schedulable"
      PROVE  \A n \in Node \ {h} : needsCordoning'[n] = needsCordoning[n]
  BY <1>2 DEF HostTask, ReadReady, ReadSchedulable, Cordon, Drain, DrainFallback,
     RescueUncordon, FailAfterRescue, UpgradeNode, UpgradeControlPlane, UpgradeNetwork,
     WaitBeforeUncordon, Uncordon, AtTask, TypeOK
<1>3. task # "read_schedulable" => UNCHANGED needsCordoning
  BY OutOnlyByBlock
<1>4. \A n \in Decided' : n \in Decided \/ (n = h /\ task = "read_schedulable")
  BY <1>1 DEF Decided
<1>5. \A n \in Decided : needsCordoning'[n] = needsCordoning[n]
  <2>1. CASE task = "read_schedulable"
    BY <1>1, <1>2, <2>1 DEF Decided, TypeOK
  <2> QED
    BY <1>3, <2>1
<1> QED
  BY <1>4, <1>5

\* The engine's next task leaves the decisions as they are.
LEMMA TaskDecides ==
    ASSUME TypeOK, TaskDone \/ EnterRescue
    PROVE  /\ Decided' \subseteq Decided
           /\ UNCHANGED <<cluster, facts, position>>
           /\ pending = {} /\ pending' = Targets(task') /\ failed' = {}
<1>1. /\ UNCHANGED <<cluster, facts, position>> /\ pending = {}
      /\ pending' = Targets(task') /\ failed' = {}
      /\ task \notin {"none", "network"}
      /\ task = "read_ready" => task' = "read_schedulable"
      /\ task' \in Tasks \ {"none", "read_ready", "network"}
  BY DEF TaskDone, EnterRescue, Begin, NextTask, Block, TypeOK, Tasks
<1>2. UNCHANGED batch
  BY <1>1 DEF position
<1>3. task' = "read_schedulable" => pending' = batch
  BY <1>1 DEF Targets
<1> QED
  BY <1>1, <1>2, <1>3 DEF Decided

\* Between batches nothing is decided.
LEMMA BetweenDecides ==
    ASSUME TypeOK, RolloutOrder,
           BatchDone \/ NextBatch \/ PlayDone \/ StartRun \/ EndRun
    PROVE  /\ Decided' = {} /\ UNCHANGED cluster
           /\ task' \in {"none", "read_ready", "network"}
<1>1. CASE BatchDone \/ NextBatch \/ EndRun
  BY <1>1 DEF BatchDone, NextBatch, EndRun, NoTask, FirstTask, Decided, cluster
<1>2. CASE (PlayDone /\ ~EndRun) \/ StartRun
  BY <1>2 DEF PlayDone, StartRun, RolloutOrder, BetweenBatches, Decided, engine, cluster
<1> QED
  BY <1>1, <1>2

-----------------------------------------------------------------------------
(* The administrator's cordons *)

LooksBeforeCordon == ~AlwaysCordon /\ "read" \notin Faults /\ AdminWindow # "any"

(* Only nodes the administrator does not hold are taken out of service.     *)
CordonsApart ==
    /\ \A h \in Taken : ~held[h]
    /\ task \in {"rescue_uncordon", "uncordon"} => pending \subseteq Taken
    /\ AdminCordonKept

LEMMA CordonsApartStep ==
    ASSUME LooksBeforeCordon, TypeOK, RolloutOrder, CordonsApart, [Next]_vars
    PROVE  CordonsApart'
<1>1. ASSUME NEW h \in Node, HostTask(h) PROVE CordonsApart'
  <2>1. /\ UNCHANGED <<batch, task, held>> /\ h \in batch /\ h \in pending
        /\ pending' \subseteq pending
    BY <1>1, HostTaskFrame, OutOnlyByBlock DEF TypeOK
  <2>2. task = "read_schedulable" /\ needsCordoning'[h] => ~held[h]
    BY <1>1, <2>1 DEF HostTask, ReadReady, ReadSchedulable, Cordon, Drain, DrainFallback,
       RescueUncordon, FailAfterRescue, UpgradeNode, UpgradeControlPlane, UpgradeNetwork,
       WaitBeforeUncordon, Uncordon, AtTask, TypeOK, LooksBeforeCordon, Outcomes,
       CordonsApart, AdminCordonKept
  <2>3. \A n \in Taken' : ~held'[n]
    BY <1>1, <2>1, <2>2, HostDecides DEF Taken, CordonsApart
  <2>4. task \in {"rescue_uncordon", "uncordon"} => Taken' = Taken
    BY <1>1, <2>1, HostDecides DEF Taken, Decided
  <2>5. AdminCordonKept'
    BY <1>1, <2>1, WhoUncordons DEF AdminCordonKept, CordonsApart, Taken, TypeOK
  <2> QED
    BY <2>1, <2>3, <2>4, <2>5 DEF CordonsApart
<1>2. ASSUME TaskDone \/ EnterRescue PROVE CordonsApart'
  <2>1. task' \in {"rescue_uncordon", "uncordon"} =>
          Decided' = batch' /\ pending' \subseteq {h \in batch : needsCordoning[h]}
    BY <1>2, TaskDecides DEF Decided, Targets
  <2> QED
    BY <1>2, <2>1, TaskDecides
       DEF CordonsApart, AdminCordonKept, Taken, cluster, facts, position
<1>3. ASSUME BatchDone \/ NextBatch \/ PlayDone \/ StartRun \/ EndRun PROVE CordonsApart'
  BY <1>3, BetweenDecides DEF CordonsApart, AdminCordonKept, Taken, cluster
<1>4. ASSUME NEW n \in Node,
             Schedule(n) \/ ReadyChanges(n) \/ AdminCordon(n) \/ AdminUncordon(n)
      PROVE  CordonsApart'
  <2>1. UNCHANGED <<batch, task, pending, needsCordoning>>
    BY <1>4 DEF Schedule, ReadyChanges, AdminCordon, AdminUncordon, facts, position, engine
  <2>2. /\ \A m \in Node : held'[m] => unschedulable'[m]
        /\ \A m \in batch : held'[m] = held[m]
    BY <1>4 DEF Schedule, ReadyChanges, AdminCordon, AdminUncordon, AdminActs,
                LooksBeforeCordon, CordonsApart, AdminCordonKept, TypeOK, AdminWindows
  <2> QED
    BY <2>1, <2>2, DecidedInBatch DEF CordonsApart, AdminCordonKept, Taken, Decided
<1>5. ASSUME UNCHANGED vars PROVE CordonsApart'
  BY <1>5 DEF vars, cluster, facts, position, engine, CordonsApart, AdminCordonKept,
              Taken, Decided
<1> QED
  BY <1>1, <1>2, <1>3, <1>4, <1>5
     DEF Next, Playbook, Environment, Abort, Interrupt

\* The playbook never lifts a cordon of the administrator, in any number of
\* failed and interrupted runs, when its reads answer and
\* upgrade_node_always_cordon is off.
THEOREM AdminCordonsRespected == LooksBeforeCordon => (Spec => []AdminCordonKept)
<1> SUFFICES ASSUME LooksBeforeCordon PROVE Spec => []AdminCordonKept
  OBVIOUS
<1>1. Init => CordonsApart
  BY DEF Init, CordonsApart, AdminCordonKept, Taken, Decided
<1>2. TypeOK /\ RolloutOrder /\ CordonsApart /\ [Next]_vars => CordonsApart'
  BY CordonsApartStep
<1>3. CordonsApart => AdminCordonKept
  BY DEF CordonsApart
<1> QED
  BY <1>1, <1>2, <1>3, OrderInit, OrderStep, TypeCorrect, PTL DEF Spec

-----------------------------------------------------------------------------
(* The pods of the nodes *)

DrainsOrFails == DrainNodes /\ FailIfDrainFails /\ AdminWindow # "any"

(* Why a host of the batch is left in service.                              *)
Excepted(h) == ~AlwaysCordon /\ (~sawReady[h] \/ held[h] \/ h \in stranded)

(* How far the drain block has come with the hosts it takes out of service: *)
(* a host is cordoned, then drained, and who gives up does not go on.       *)
ServiceByTask ==
    /\ \A h \in Decided \ Taken : Excepted(h)
    /\ task \in {"rescue_uncordon", "uncordon"} => pending \subseteq Taken
    /\ task = "cordon" => \A h \in Taken \ (pending \cup failed) : unschedulable[h]
    /\ task \in {"drain", "drain_fallback", "node"} => \A h \in Taken : unschedulable[h]
    /\ task = "drain" =>
         \A h \in Taken \ (pending \cup failed) :
           ~pods[h] \/ (FallbackEnabled /\ h \in undrained)
    /\ task = "drain_fallback" => \A h \in Taken \ (pending \cup failed) : ~pods[h]
    /\ task = "rescue_fail" => Taken \subseteq pending \cup failed
    /\ task = "node" => \A h \in Taken : ~pods[h]

\* The reads: a host that is not taken out of service is excepted.
LEMMA ReadsDecide ==
    ASSUME TypeOK, CapacityByTask, play # "idle", NEW h \in Node,
           ReadReady(h) \/ ReadSchedulable(h), ServiceByTask
    PROVE  ServiceByTask'
<1>1. CASE ReadReady(h)
  BY <1>1 DEF ReadReady, AtTask, Ran, position, ServiceByTask, Taken, Decided
<1>2. CASE ReadSchedulable(h)
  <2>1. /\ UNCHANGED <<batch, sawReady, held, stranded>>
        /\ task = "read_schedulable" /\ task' = task
    BY <1>2 DEF ReadSchedulable, AtTask, Ran, cluster, position
  <2>2. ~needsCordoning'[h] => Excepted(h)
    <3>1. unschedulable[h] => held[h] \/ h \in stranded
      BY <2>1 DEF CapacityByTask, Accounted, Out
    <3> QED
      BY <1>2, <3>1, SettingsAssumption DEF ReadSchedulable, Excepted, TypeOK
  <2>3. \A n \in Decided' \ Taken' : n \in Decided \ Taken \/ n = h
    BY <1>2, HostDecides DEF Taken, HostTask
  <2>4. \A n \in Decided' \ Taken' : Excepted(n)
    BY <2>2, <2>3 DEF ServiceByTask, Taken
  <2> QED
    BY <2>1, <2>4 DEF ServiceByTask, Excepted
<1> QED
  BY <1>1, <1>2

\* The drain block.
LEMMA BlockServes ==
    ASSUME TypeOK, ServiceByTask, NEW h \in Node,
           Cordon(h) \/ Drain(h) \/ DrainFallback(h)
    PROVE  ServiceByTask'
<1>1. /\ UNCHANGED <<batch, task, held, stranded, sawReady, needsCordoning>>
      /\ task \in Block
  BY DEF Cordon, Drain, DrainFallback, AtTask, Ran, TryAgain, Drained, DrainFailed,
         SetUnschedulable, facts, position, Block
<1>2. Decided = batch /\ Decided' = batch /\ Taken' = Taken /\ Taken \subseteq Node
  BY <1>1 DEF Decided, Taken, Block, TypeOK
<1>3. \A n \in Decided' \ Taken' : Excepted(n)'
  BY <1>1, <1>2 DEF ServiceByTask, Excepted
<1>4. CASE Cordon(h)
  <2>1. \A n \in Taken' \ (pending' \cup failed') : unschedulable'[n]
    BY <1>2, <1>4 DEF Cordon, AtTask, Ran, SetUnschedulable, ServiceByTask, TypeOK
  <2> QED
    BY <1>1, <1>3, <1>4, <2>1 DEF ServiceByTask, Cordon, AtTask
<1>5. CASE Drain(h)
  <2>1. task = "drain" /\ \A n \in Taken : unschedulable[n]
    BY <1>5 DEF Drain, AtTask, ServiceByTask
  <2>2. \A n \in Taken' : unschedulable'[n]
    BY <1>2, <1>5, <2>1 DEF Drain, Drained, DrainFailed, SetUnschedulable, TypeOK
  <2>3. \A n \in Taken' \ (pending' \cup failed') :
          ~pods'[n] \/ (FallbackEnabled /\ n \in undrained')
    <3>1. CASE Drained(h) /\ Ran(h, TRUE) /\ UNCHANGED undrained
      BY <1>2, <2>1, <3>1 DEF Drained, Ran, ServiceByTask, TypeOK
    <3>2. CASE DrainFailed(h) /\ TryAgain(h) /\ UNCHANGED undrained
      BY <1>2, <2>1, <3>2 DEF DrainFailed, TryAgain, ServiceByTask, TypeOK
    <3>3. CASE /\ DrainFailed(h) /\ Ran(h, DrainRetries = 0 /\ FallbackEnabled)
               /\ undrained' = undrained \cup {h}
      BY <1>2, <2>1, <3>3 DEF DrainFailed, Ran, ServiceByTask, TypeOK
    <3> QED
      BY <1>5, <3>1, <3>2, <3>3 DEF Drain
  <2> QED
    BY <1>1, <1>3, <2>1, <2>2, <2>3 DEF ServiceByTask
<1>6. CASE DrainFallback(h)
  <2>1. task = "drain_fallback" /\ \A n \in Taken : unschedulable[n]
    BY <1>6 DEF DrainFallback, AtTask, ServiceByTask
  <2>2. \A n \in Taken' : unschedulable'[n]
    BY <1>2, <1>6, <2>1 DEF DrainFallback, Drained, DrainFailed, SetUnschedulable, TypeOK
  <2>3. \A n \in Taken' \ (pending' \cup failed') : ~pods'[n]
    <3>1. CASE Drained(h) /\ Ran(h, TRUE)
      BY <1>2, <2>1, <3>1 DEF Drained, Ran, ServiceByTask, TypeOK
    <3>2. CASE DrainFailed(h) /\ TryAgain(h)
      BY <1>2, <2>1, <3>2 DEF DrainFailed, TryAgain, ServiceByTask, TypeOK
    <3>3. CASE DrainFailed(h) /\ Ran(h, FALSE)
      BY <1>2, <2>1, <3>3 DEF DrainFailed, Ran, ServiceByTask, TypeOK
    <3> QED
      BY <1>6, <3>1, <3>2, <3>3 DEF DrainFallback
  <2> QED
    BY <1>1, <1>3, <2>1, <2>2, <2>3 DEF ServiceByTask
<1> QED
  BY <1>4, <1>5, <1>6

\* The tasks after the drain block, and the rescue section.
LEMMA LaterTasksServe ==
    ASSUME TypeOK, ServiceByTask, NEW h \in Node,
           \/ RescueUncordon(h) \/ FailAfterRescue(h) \/ UpgradeNode(h)
           \/ UpgradeControlPlane(h) \/ UpgradeNetwork(h) \/ WaitBeforeUncordon(h)
           \/ Uncordon(h)
    PROVE  ServiceByTask'
<1>1. /\ UNCHANGED <<batch, task, held, sawReady, needsCordoning, pods>>
      /\ h \in pending /\ pending' = pending \ {h}
      /\ task \in {"rescue_uncordon", "rescue_fail", "node", "control_plane", "network",
                  "wait", "uncordon"}
  BY DEF RescueUncordon, FailAfterRescue, UpgradeNode, UpgradeControlPlane,
         UpgradeNetwork, WaitBeforeUncordon, Uncordon, KubectlUncordon, Uncordoned,
         SetUnschedulable, AtTask, Ran, cluster, facts, position
<1>2. Decided' = Decided /\ Taken' = Taken
  BY <1>1 DEF Decided, Taken
<1>3. \A n \in Decided' \ Taken' : Excepted(n)'
  <2>1. \A n \in stranded : n \in stranded' \/ (n = h /\ task \in {"rescue_uncordon", "uncordon"})
    BY DEF RescueUncordon, FailAfterRescue, UpgradeNode, UpgradeControlPlane,
           UpgradeNetwork, WaitBeforeUncordon, Uncordon, KubectlUncordon, Uncordoned,
           AtTask, position
  <2> QED
    BY <1>1, <1>2, <2>1 DEF ServiceByTask, Excepted
<1>4. task = "node" => UNCHANGED unschedulable
  BY DEF RescueUncordon, FailAfterRescue, UpgradeNode, UpgradeControlPlane,
         UpgradeNetwork, WaitBeforeUncordon, Uncordon, AtTask
<1>5. task = "rescue_fail" => failed' = failed \cup {h}
  BY DEF RescueUncordon, FailAfterRescue, UpgradeNode, UpgradeControlPlane,
         UpgradeNetwork, WaitBeforeUncordon, Uncordon, AtTask, Ran
<1> QED
  BY <1>1, <1>2, <1>3, <1>4, <1>5 DEF ServiceByTask

\* The engine goes on when nobody failed, and takes a failed batch to the
\* rescue section, which fails every host it gives back.
LEMMA TasksServe ==
    ASSUME DrainsOrFails, TypeOK, ServiceByTask, TaskDone \/ EnterRescue
    PROVE  ServiceByTask'
<1>1. /\ Decided' \subseteq Decided
      /\ UNCHANGED <<batch, unschedulable, pods, held, stranded, sawReady, needsCordoning,
                     undrained>>
      /\ pending = {} /\ pending' = Targets(task') /\ failed' = {}
  BY TaskDecides DEF cluster, facts, position
<1>2. Taken' \subseteq Taken /\ \A n \in Decided' \ Taken' : n \in Decided \ Taken
  BY <1>1 DEF Taken
<1>3. task' \in Block \cup {"rescue_uncordon", "rescue_fail", "node", "uncordon"} =>
        Taken' = {h \in batch : needsCordoning[h]}
  BY <1>1 DEF Taken, Decided, Block
<1>4. CASE EnterRescue
  BY <1>1, <1>2, <1>3, <1>4 DEF EnterRescue, Begin, Targets, ServiceByTask, Excepted
<1>5. CASE TaskDone
  <2>1. /\ failed = {} /\ task' = NextTask(task)
    BY <1>5 DEF TaskDone, Begin
  <2>2. \A n \in Decided' \ Taken' : Excepted(n)'
    BY <1>1, <1>2 DEF ServiceByTask, Excepted
  <2>3. task' = "cordon" => pending' = Taken'
    BY <1>1, <1>3 DEF Targets, Block
  <2>4. CASE task' = "drain"
    <3>1. task = "cordon"
      BY <2>1, <2>4 DEF NextTask
    <3>2. pending' = Taken'
      BY <1>1, <1>3, <2>4 DEF Targets, Block, DrainsOrFails
    <3> QED
      BY <1>1, <1>2, <2>1, <2>2, <2>4, <3>1, <3>2 DEF ServiceByTask
  <2>5. CASE task' = "drain_fallback"
    <3>1. task = "drain"
      BY <2>1, <2>5 DEF NextTask
    <3>2. pending' = {h \in Taken' : FallbackEnabled /\ h \in undrained}
      BY <1>1, <1>3, <2>5 DEF Targets, Block, DrainsOrFails
    <3> QED
      BY <1>1, <1>2, <2>1, <2>2, <2>5, <3>1, <3>2 DEF ServiceByTask
  <2>6. CASE task' = "node"
    <3>1. task \in {"drain_fallback", "rescue_fail"}
      BY <2>1, <2>6 DEF NextTask
    <3> QED
      BY <1>1, <1>2, <2>1, <2>2, <2>6, <3>1 DEF ServiceByTask
  <2>7. CASE task' \in {"rescue_uncordon", "rescue_fail", "uncordon"}
    <3>1. task' = "rescue_fail" => Taken' \subseteq pending'
      BY <1>1, <1>3 DEF Targets, DrainsOrFails
    <3>2. task' \in {"rescue_uncordon", "uncordon"} => pending' \subseteq Taken'
      BY <1>1, <1>3 DEF Targets
    <3> QED
      BY <2>2, <2>7, <3>1, <3>2 DEF ServiceByTask
  <2> QED
    BY <2>2, <2>3, <2>4, <2>5, <2>6, <2>7 DEF ServiceByTask
<1> QED
  BY <1>4, <1>5

LEMMA ServiceStep ==
    ASSUME DrainsOrFails, TypeOK, RolloutOrder, CapacityByTask, ServiceByTask, [Next]_vars
    PROVE  ServiceByTask'
<1>1. ASSUME NEW h \in Node, HostTask(h) PROVE ServiceByTask'
  <2>1. play # "idle"
    BY <1>1, HostTaskFrame DEF RolloutOrder, BetweenBatches, TypeOK
  <2> QED
    BY <1>1, <2>1, ReadsDecide, BlockServes, LaterTasksServe DEF HostTask
<1>2. ASSUME BatchDone \/ NextBatch \/ PlayDone \/ StartRun \/ EndRun PROVE ServiceByTask'
  BY <1>2, BetweenDecides DEF ServiceByTask, Taken
<1>3. ASSUME NEW n \in Node,
             Schedule(n) \/ ReadyChanges(n) \/ AdminCordon(n) \/ AdminUncordon(n)
      PROVE  ServiceByTask'
  <2>1. UNCHANGED <<batch, task, pending, failed, needsCordoning, sawReady, undrained>>
    BY <1>3 DEF Schedule, ReadyChanges, AdminCordon, AdminUncordon, facts, position, engine
  <2>2. Decided' = Decided /\ Taken' = Taken /\ Decided \subseteq batch /\ batch \subseteq Node
    BY <2>1, DecidedInBatch DEF Decided, Taken, TypeOK
  <2>3. \A h \in batch : /\ held'[h] = held[h] /\ unschedulable'[h] = unschedulable[h]
                         /\ h \in stranded => h \in stranded'
                         /\ pods'[h] => pods[h] \/ ~unschedulable[h]
    BY <1>3, <2>2 DEF Schedule, ReadyChanges, AdminCordon, AdminUncordon, AdminActs,
                      DrainsOrFails, position, TypeOK, AdminWindows
  <2>4. \A h \in Decided' \ Taken' : Excepted(h)'
    BY <2>1, <2>2, <2>3 DEF ServiceByTask, Excepted
  <2>5. Taken \subseteq batch
    BY <2>2 DEF Taken
  <2> QED
    BY <2>1, <2>2, <2>3, <2>4, <2>5 DEF ServiceByTask
<1>4. ASSUME UNCHANGED vars PROVE ServiceByTask'
  BY <1>4 DEF vars, cluster, facts, position, engine, ServiceByTask, Taken, Decided, Excepted
<1> QED
  BY <1>1, <1>2, <1>3, <1>4, TasksServe
     DEF Next, Playbook, Environment, Abort, Interrupt

\* Only the upgrade of a node replaces its kubelet, at a task of its batch.
LEMMA WhoUpgrades ==
    ASSUME TypeOK, [Next]_vars, NEW n \in Node, kubelet'[n] # kubelet[n]
    PROVE  task = "node" /\ n \in batch
<1>1. PICK h \in Node : HostTask(h)
  BY DEF Next, Playbook, Environment, TaskDone, EnterRescue, BatchDone, Abort, NextBatch,
         PlayDone, StartRun, Interrupt, EndRun, Schedule, ReadyChanges, AdminCordon,
         AdminUncordon, cluster, vars
<1>2. UpgradeNode(h)
  BY <1>1 DEF HostTask, ReadReady, ReadSchedulable, Cordon, Drain, DrainFallback,
     RescueUncordon, FailAfterRescue, UpgradeControlPlane, UpgradeNetwork,
     WaitBeforeUncordon, Uncordon, KubectlUncordon, Uncordoned, Drained, DrainFailed,
     SetUnschedulable, cluster
<1> QED
  BY <1>2 DEF UpgradeNode, AtTask, TypeOK

LEMMA ServiceInvariant == DrainsOrFails => (Spec => [](TypeOK /\ ServiceByTask))
<1> SUFFICES ASSUME DrainsOrFails PROVE Spec => [](TypeOK /\ ServiceByTask)
  OBVIOUS
<1>1. Init => ServiceByTask /\ CapacityByTask
  BY DEF Init, ServiceByTask, Taken, Decided, CapacityByTask
<1>2. TypeOK /\ RolloutOrder /\ CapacityByTask /\ ServiceByTask /\ [Next]_vars => ServiceByTask'
  BY ServiceStep
<1> QED
  BY <1>1, <1>2, CapacityStep, OrderInit, OrderStep, TypeCorrect, PTL DEF Spec

\* A node is upgraded under its pods only when the playbook saw it not Ready,
\* the administrator holds it or an earlier run left it cordoned; over failed
\* drains, fallbacks, failing reads and interrupted runs.
THEOREM OnlyExceptionsDisrupted == DrainsOrFails => (Spec => DisruptOnlyDrained)
<1> SUFFICES ASSUME DrainsOrFails PROVE Spec => DisruptOnlyDrained
  OBVIOUS
<1>1. TypeOK /\ ServiceByTask /\ [Next]_vars =>
        [\A n \in Node : kubelet'[n] # kubelet[n] /\ pods[n] =>
           ~sawReady[n] \/ held[n] \/ n \in stranded]_vars
  BY WhoUpgrades DEF ServiceByTask, Excepted, Taken, Decided
<1> QED
  BY <1>1, ServiceInvariant, PTL DEF Spec, DisruptOnlyDrained

\* With upgrade_node_always_cordon every node is drained before its upgrade.
THEOREM AlwaysCordonDrains == DrainsOrFails /\ AlwaysCordon => (Spec => EveryUpgradeDrained)
<1> SUFFICES ASSUME DrainsOrFails, AlwaysCordon PROVE Spec => EveryUpgradeDrained
  OBVIOUS
<1>1. TypeOK /\ ServiceByTask /\ [Next]_vars =>
        [\A n \in Node : kubelet'[n] # kubelet[n] => ~pods[n]]_vars
  BY WhoUpgrades DEF ServiceByTask, Excepted, Taken, Decided
<1> QED
  BY <1>1, ServiceInvariant, PTL DEF Spec, EveryUpgradeDrained

-----------------------------------------------------------------------------
(* The rescue section *)

RescueSucceeds ==
    UncordonAfterDrainFailure /\ Faults \cap {"kubectl", "upgrade", "interrupt"} = {}

(* Only a drain fails, so that every batch that gives up passes the rescue   *)
(* section; the nodes it has given back, and the rest of the cluster, are in *)
(* service or held by the administrator.                                     *)
GivenBack ==
    /\ NothingStranded
    /\ stranded = {}
    /\ failed # {} => task \in {"drain", "drain_fallback", "rescue_fail"}
    /\ task = "rescue_uncordon" => Accounted(batch \ pending)
    /\ task = "rescue_fail" => Accounted(batch)

\* A run ends only where no node is out of service.
LEMMA IdleGivenBack ==
    ASSUME Accounted(Node), GivenBack, EndRun
    PROVE  GivenBack'
BY DEF EndRun, NoTask, cluster, GivenBack, NothingStranded, Accounted, Out

LEMMA HostsGivenBack ==
    ASSUME RescueSucceeds, TypeOK, RolloutOrder, GivenBack, NEW h \in Node, HostTask(h)
    PROVE  GivenBack'
<1>1. /\ UNCHANGED <<play, batch, task, held>> /\ h \in pending /\ h \in batch
      /\ pending \subseteq pending' \cup {h}
  BY HostTaskFrame, OutOnlyByBlock DEF TypeOK
<1>2. play # "idle"
  BY <1>1 DEF RolloutOrder, BetweenBatches
<1>3. stranded' \subseteq stranded
  BY DEF HostTask, ReadReady, ReadSchedulable, Cordon, Drain, DrainFallback, RescueUncordon,
     FailAfterRescue, UpgradeNode, UpgradeControlPlane, UpgradeNetwork, WaitBeforeUncordon,
     Uncordon, KubectlUncordon, Uncordoned, position
<1>4. failed' # failed => task \in {"drain", "drain_fallback", "rescue_fail"}
  <2>1. ~(Drain(h) \/ DrainFallback(h) \/ FailAfterRescue(h)) => Ran(h, TRUE)
    BY DEF HostTask, ReadReady, ReadSchedulable, Cordon, RescueUncordon, UpgradeNode,
       UpgradeControlPlane, UpgradeNetwork, WaitBeforeUncordon, Uncordon, KubectlUncordon,
       Outcomes, RescueSucceeds
  <2> QED
    BY <2>1 DEF Ran, Drain, DrainFallback, FailAfterRescue, AtTask
<1>5. task \in {"rescue_uncordon", "rescue_fail"} =>
        \A n \in batch : n \in Node /\ (unschedulable'[n] => unschedulable[n])
  BY OutOnlyByBlock DEF TypeOK, Block
<1>6. task = "rescue_uncordon" => ~unschedulable'[h]
  <2>1. task = "rescue_uncordon" => RescueUncordon(h)
    BY DEF HostTask, ReadReady, ReadSchedulable, Cordon, Drain, DrainFallback,
     FailAfterRescue, UpgradeNode, UpgradeControlPlane, UpgradeNetwork, WaitBeforeUncordon,
     Uncordon, AtTask
  <2> QED
    BY <2>1 DEF RescueUncordon, KubectlUncordon, Uncordoned, SetUnschedulable, Outcomes,
                RescueSucceeds, TypeOK
<1>7. task = "rescue_uncordon" => Accounted(batch \ pending)'
  BY <1>1, <1>3, <1>5, <1>6 DEF GivenBack, Accounted, Out
<1>8. task = "rescue_fail" => Accounted(batch)'
  BY <1>1, <1>3, <1>5 DEF GivenBack, Accounted, Out
<1> QED
  BY <1>1, <1>2, <1>3, <1>4, <1>7, <1>8 DEF GivenBack, NothingStranded

\* The rescue section starts with the hosts the block took out of service and
\* is over when they are back.
LEMMA TasksGiveBack ==
    ASSUME RescueSucceeds, TypeOK, RolloutOrder, CapacityByTask, GivenBack,
           TaskDone \/ EnterRescue
    PROVE  GivenBack'
<1>1. /\ UNCHANGED <<play, batch, unschedulable, held, stranded, needsCordoning>>
      /\ pending = {} /\ pending' = Targets(task') /\ failed' = {}
  BY TaskDecides DEF cluster, facts, position
<1>2. /\ task # "none"
      /\ task' = "rescue_fail" => task = "rescue_uncordon"
  BY DEF TaskDone, EnterRescue, Begin, NextTask, Block, TypeOK, Tasks
<1>3. play # "idle"
  BY <1>2 DEF RolloutOrder, BetweenBatches
<1>4. task' = "rescue_uncordon" => Accounted(batch \ pending)'
  BY <1>1, <1>3 DEF Targets, RescueSucceeds, CapacityByTask, Accounted, Out
<1>5. task' = "rescue_fail" => Accounted(batch)'
  BY <1>1, <1>2 DEF GivenBack, Accounted, Out
<1> QED
  BY <1>1, <1>3, <1>4, <1>5 DEF GivenBack, NothingStranded

LEMMA EngineGivesBack ==
    ASSUME RescueSucceeds, TypeOK, RolloutOrder, CapacityByTask, GivenBack,
           BatchDone \/ Abort \/ NextBatch \/ PlayDone \/ StartRun
    PROVE  GivenBack'
<1>1. CASE Abort
  <2>1. task = "rescue_fail"
    BY <1>1 DEF Abort, GivenBack, Block
  <2>2. Accounted(Node)
    BY <2>1 DEF GivenBack, CapacityByTask, Accounted, RolloutOrder, BetweenBatches
  <2> QED
    BY <1>1, <2>2, IdleGivenBack DEF Abort
<1>2. CASE PlayDone
  <2>1. batch = {} /\ play # "idle"
    BY <1>2 DEF PlayDone
  <2>2. CASE EndRun
    BY <2>1, <2>2, IdleGivenBack DEF CapacityByTask, Accounted
  <2>3. CASE ~EndRun
    BY <1>2, <2>1, <2>3
       DEF PlayDone, engine, GivenBack, NothingStranded, RolloutOrder, BetweenBatches
  <2> QED
    BY <2>2, <2>3
<1>3. CASE StartRun
  BY <1>3 DEF StartRun, engine, cluster, GivenBack, NothingStranded, RolloutOrder, BetweenBatches
<1>4. CASE BatchDone \/ NextBatch
  <2>1. play' # "idle" /\ failed' = {} /\ stranded' = stranded
    BY <1>4 DEF BatchDone, NextBatch, NoTask, RolloutOrder, BetweenBatches
  <2>2. task' \in {"none", "network", "read_ready"}
    BY <1>4 DEF BatchDone, NextBatch, NoTask, FirstTask
  <2> QED
    BY <2>1, <2>2 DEF GivenBack, NothingStranded
<1> QED
  BY <1>1, <1>2, <1>3, <1>4

LEMMA EnvironmentGivesBack ==
    ASSUME TypeOK, GivenBack, NEW n \in Node,
           Schedule(n) \/ ReadyChanges(n) \/ AdminCordon(n) \/ AdminUncordon(n)
    PROVE  GivenBack'
<1>1. /\ UNCHANGED <<play, batch, task, pending, failed>>
      /\ stranded' \subseteq stranded
  BY DEF Schedule, ReadyChanges, AdminCordon, AdminUncordon, position, engine
<1>2. \A m \in Node : Out(m)' => Out(m)
  BY DEF Schedule, ReadyChanges, AdminCordon, AdminUncordon, Out, TypeOK
<1> QED
  BY <1>1, <1>2 DEF GivenBack, NothingStranded, Accounted, Out, TypeOK

LEMMA GivenBackStep ==
    ASSUME RescueSucceeds, TypeOK, RolloutOrder, CapacityByTask, GivenBack, [Next]_vars
    PROVE  GivenBack'
<1>1. ~Interrupt
  BY DEF Interrupt, RescueSucceeds
<1>2. ASSUME UNCHANGED vars PROVE GivenBack'
  BY <1>2 DEF vars, cluster, position, engine, GivenBack, NothingStranded, Accounted, Out
<1> QED
  BY <1>1, <1>2, HostsGivenBack, TasksGiveBack, EngineGivesBack, EnvironmentGivesBack
     DEF Next, Playbook, Environment

\* After a run that was given up because nodes could not be drained, and after
\* one that was finished, no node is out of service on the playbook's account,
\* whatever batch sizes, retries, fallbacks and failing reads it went through
\* and whatever the administrator did meanwhile.
THEOREM RescueLeavesNothing == RescueSucceeds => (Spec => []NothingStranded)
<1> SUFFICES ASSUME RescueSucceeds PROVE Spec => []NothingStranded
  OBVIOUS
<1>1. Init => GivenBack /\ CapacityByTask
  BY DEF Init, GivenBack, NothingStranded, CapacityByTask
<1>2. TypeOK /\ RolloutOrder /\ CapacityByTask /\ GivenBack /\ [Next]_vars => GivenBack'
  BY GivenBackStep
<1>3. GivenBack => NothingStranded
  BY DEF GivenBack
<1> QED
  BY <1>1, <1>2, <1>3, CapacityStep, OrderInit, OrderStep, TypeCorrect, PTL DEF Spec

-----------------------------------------------------------------------------
(* The fallback drain *)

\* Without retries a failed drain does not fail its host when a fallback is to
\* follow, so the rescue section is entered only after the fallback.
DrainNotFailed == task = "drain" /\ FallbackEnabled => failed = {}

LEMMA DrainNotFailedStep ==
    ASSUME DrainRetries = 0, DrainNotFailed, [Next]_vars
    PROVE  DrainNotFailed'
<1> SUFFICES ASSUME task' = "drain", FallbackEnabled PROVE failed' = {}
  BY DEF DrainNotFailed
<1>1. ASSUME NEW h \in Node, HostTask(h) PROVE failed' = {}
  <2>1. task = "drain" /\ failed = {}
    BY <1>1, HostTaskFrame DEF DrainNotFailed
  <2>2. Drain(h)
    BY <1>1, <2>1
       DEF HostTask, AtTask, ReadReady, ReadSchedulable, Cordon, DrainFallback,
           RescueUncordon, FailAfterRescue, UpgradeNode, UpgradeControlPlane,
           UpgradeNetwork, WaitBeforeUncordon, Uncordon
  <2> QED
    BY <2>1, <2>2 DEF Drain, Ran, TryAgain
<1>2. ASSUME UNCHANGED <<task, failed>> PROVE failed' = {}
  BY <1>2 DEF DrainNotFailed
<1>3. CASE TaskDone \/ EnterRescue \/ BatchDone \/ Abort \/ NextBatch \/ Interrupt
  BY <1>3 DEF TaskDone, EnterRescue, BatchDone, Abort, NextBatch, Interrupt, Begin, NoTask, EndRun
<1>4. CASE PlayDone \/ StartRun
  BY <1>2, <1>4 DEF PlayDone, StartRun, EndRun, NoTask, engine
<1>5. ASSUME NEW n \in Node, Schedule(n) \/ ReadyChanges(n) \/ AdminCordon(n) \/ AdminUncordon(n)
      PROVE  failed' = {}
  BY <1>2, <1>5 DEF Schedule, ReadyChanges, AdminCordon, AdminUncordon, engine
<1>6. CASE UNCHANGED vars
  BY <1>2, <1>6 DEF vars, engine
<1> QED
  BY <1>1, <1>3, <1>4, <1>5, <1>6 DEF Next, Playbook, Environment

\* With drain_retries: 0 the drain block is given up only after the fallback.
THEOREM FallbackBeforeRescue == DrainRetries = 0 => (Spec => RescueOnlyAfterFallback)
<1> SUFFICES ASSUME DrainRetries = 0 PROVE Spec => RescueOnlyAfterFallback
  OBVIOUS
<1>1. Init => DrainNotFailed
  BY DEF Init, DrainNotFailed
<1>2. DrainNotFailed /\ [Next]_vars => DrainNotFailed'
  BY DrainNotFailedStep
<1>3. TypeOK /\ DrainNotFailed /\ [Next]_vars =>
        [task = "drain" /\ task' = "rescue_uncordon" => ~FallbackEnabled]_vars
  <2> SUFFICES ASSUME DrainNotFailed, [Next]_vars, task = "drain", task' = "rescue_uncordon",
                      FallbackEnabled
               PROVE  FALSE
    OBVIOUS
  <2>1. failed = {}
    BY DEF DrainNotFailed
  <2>2. \A h \in Node : ~HostTask(h)
    BY HostTaskFrame
  <2> QED
    BY <2>1, <2>2
       DEF Next, Playbook, Environment, TaskDone, EnterRescue, BatchDone, Abort, NextBatch,
           PlayDone, Interrupt, Begin, NextTask, NoTask, EndRun, FirstTask, StartRun,
           Schedule, ReadyChanges, AdminCordon, AdminUncordon, engine, vars
<1> QED
  BY <1>1, <1>2, <1>3, TypeCorrect, PTL DEF Spec, RescueOnlyAfterFallback

\* With retries a host that was not drained has failed before the fallback
\* begins: the hosts in `undrained' are behind the run.
UndrainedByPlay ==
    /\ batch \cap remaining = {}
    /\ play = "idle" => undrained = {}
    /\ play = "control_plane" => undrained \subseteq CP /\ undrained \cap remaining = {}
    /\ play = "network" => undrained \subseteq CP
    /\ play = "workers" => undrained \cap remaining = {}
UndrainedByTask ==
    /\ task \in {"read_ready", "read_schedulable", "cordon"} => undrained \cap batch = {}
    /\ task = "drain" => undrained \cap batch \subseteq failed
FallbackIdle == task = "drain_fallback" => pending = {}
Undrained == UndrainedByPlay /\ UndrainedByTask /\ FallbackIdle

LEMMA UndrainedHostTask ==
    ASSUME DrainRetries # 0, TypeOK, RolloutOrder, Undrained, NEW h \in Node, HostTask(h)
    PROVE  Undrained'
<1>1. /\ UNCHANGED <<play, remaining, batch, task>> /\ h \in pending
      /\ pending' \subseteq pending /\ failed \subseteq failed'
  BY HostTaskFrame
<1>2. CASE Drain(h)
  <2>1. task = "drain" /\ h \in batch /\ h \notin remaining
    BY <1>1, <1>2 DEF Drain, AtTask, TypeOK, Undrained, UndrainedByPlay
  <2>2. play \in {"control_plane", "workers"} /\ (play = "control_plane" => h \in CP)
    BY <2>1 DEF RolloutOrder, BetweenBatches, ControlPlanePlay, LaterPlays, TypeOK, Plays
  <2>3. undrained' = undrained \/ (undrained' = undrained \cup {h} /\ h \in failed')
    BY <1>2 DEF Drain, Ran
  <2> QED
    BY <1>1, <2>1, <2>2, <2>3 DEF Undrained, UndrainedByPlay, UndrainedByTask, FallbackIdle
<1>3. CASE ~Drain(h)
  <2>1. UNCHANGED undrained
    BY <1>3 DEF HostTask, ReadReady, ReadSchedulable, Cordon, DrainFallback, RescueUncordon,
                FailAfterRescue, UpgradeNode, UpgradeControlPlane, UpgradeNetwork,
                WaitBeforeUncordon, Uncordon, KubectlUncordon, facts
  <2> QED
    BY <1>1, <2>1 DEF Undrained, UndrainedByPlay, UndrainedByTask, FallbackIdle
<1> QED
  BY <1>2, <1>3

LEMMA UndrainedEndRun == ASSUME EndRun PROVE Undrained'
BY DEF EndRun, NoTask, Undrained, UndrainedByPlay, UndrainedByTask, FallbackIdle

LEMMA UndrainedEngine ==
    ASSUME TypeOK, RolloutOrder, Undrained,
           TaskDone \/ EnterRescue \/ BatchDone \/ NextBatch \/ PlayDone \/ StartRun
    PROVE  Undrained'
<1>1. CASE TaskDone \/ EnterRescue
  <2>1. UNCHANGED <<play, remaining, batch, undrained>>
    BY <1>1 DEF TaskDone, EnterRescue, facts, position
  <2>2. CASE task' = "drain_fallback"
    <3>1. task = "drain" /\ failed = {} /\ pending' = Targets("drain_fallback")
      BY <1>1, <2>2 DEF TaskDone, EnterRescue, Begin, NextTask
    <3>2. Targets("drain_fallback") \subseteq undrained \cap batch
      BY DEF Targets
    <3> QED
      BY <2>1, <2>2, <3>1, <3>2 DEF Undrained, UndrainedByPlay, UndrainedByTask, FallbackIdle
  <2>3. CASE task' # "drain_fallback"
    <3>1. /\ task' = "read_schedulable" => task = "read_ready"
          /\ task' = "cordon" => task = "read_schedulable"
          /\ task' = "drain" => task = "cordon"
          /\ task' # "read_ready"
      BY <1>1 DEF TaskDone, EnterRescue, Begin, NextTask
    <3> QED
      BY <2>1, <2>3, <3>1 DEF Undrained, UndrainedByPlay, UndrainedByTask, FallbackIdle
  <2> QED
    BY <2>2, <2>3
<1>2. CASE BatchDone
  BY <1>2 DEF BatchDone, NoTask, facts, Undrained, UndrainedByPlay, UndrainedByTask, FallbackIdle
<1>3. CASE NextBatch
  <2>1. /\ UNCHANGED <<play, undrained>> /\ play # "idle"
        /\ batch' \subseteq remaining /\ remaining' = remaining \ batch'
        /\ task' = IF play = "network" THEN "network" ELSE "read_ready"
    BY <1>3 DEF NextBatch, Batches, FirstTask, facts
  <2> QED
    BY <2>1 DEF Undrained, UndrainedByPlay, UndrainedByTask, FallbackIdle, TypeOK, Plays
<1>4. CASE PlayDone
  <2>1. CASE NextPlay(play) = "idle"
    BY <1>4, <2>1, UndrainedEndRun DEF PlayDone
  <2>2. CASE NextPlay(play) # "idle"
    <3>1. /\ UNCHANGED <<undrained, task, pending, batch, failed>> /\ batch = {} /\ task = "none"
          /\ play' = NextPlay(play) /\ remaining' = PlayHosts(play', limit)
      BY <1>4, <2>2 DEF PlayDone, facts, engine, RolloutOrder, BetweenBatches
    <3>2. \/ play = "control_plane" /\ play' = "network"
          \/ play = "network" /\ play' = "workers" /\ remaining' \subseteq Workers
      BY <2>2, <3>1 DEF NextPlay, PlayHosts
    <3> QED
      BY <3>1, <3>2, GroupsAssumption
         DEF Undrained, UndrainedByPlay, UndrainedByTask, FallbackIdle
  <2> QED
    BY <2>1, <2>2
<1>5. CASE StartRun
  BY <1>5 DEF StartRun, facts, engine, RolloutOrder, BetweenBatches,
              Undrained, UndrainedByPlay, UndrainedByTask, FallbackIdle
<1> QED
  BY <1>1, <1>2, <1>3, <1>4, <1>5

\* With drain_retries above 0 the fallback drain has no host to run on, in any
\* batch of any run, also where the run goes on after drains that failed.
THEOREM FallbackNeverRuns == DrainRetries # 0 => (Spec => []FallbackIdle)
<1> SUFFICES ASSUME DrainRetries # 0 PROVE Spec => []FallbackIdle
  OBVIOUS
<1>1. Init => Undrained
  BY DEF Init, Undrained, UndrainedByPlay, UndrainedByTask, FallbackIdle
<1>2. TypeOK /\ RolloutOrder /\ Undrained /\ [Next]_vars => Undrained'
  <2> SUFFICES ASSUME TypeOK, RolloutOrder, Undrained, [Next]_vars PROVE Undrained'
    OBVIOUS
  <2>1. ASSUME UNCHANGED <<play, remaining, batch, task, pending, failed, undrained>>
        PROVE  Undrained'
    BY <2>1 DEF Undrained, UndrainedByPlay, UndrainedByTask, FallbackIdle
  <2>2. ASSUME NEW n \in Node, Schedule(n) \/ ReadyChanges(n) \/ AdminCordon(n) \/ AdminUncordon(n)
        PROVE  Undrained'
    BY <2>1, <2>2 DEF Schedule, ReadyChanges, AdminCordon, AdminUncordon, facts, position, engine
  <2>3. CASE UNCHANGED vars
    BY <2>1, <2>3 DEF vars, facts, position, engine
  <2> QED
    BY <2>2, <2>3, UndrainedHostTask, UndrainedEndRun, UndrainedEngine
       DEF Next, Playbook, Environment, Abort, Interrupt
<1>3. Undrained => FallbackIdle
  BY DEF Undrained
<1> QED
  BY <1>1, <1>2, <1>3, OrderInit, OrderStep, TypeCorrect, PTL DEF Spec
=============================================================================
