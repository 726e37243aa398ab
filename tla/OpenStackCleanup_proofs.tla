----------------------- MODULE OpenStackCleanup_proofs -----------------------
(* Theorems about OpenStackCleanup, for every project, every choice of old  *)
(* resources and every number of runs and failing calls.                    *)
EXTENDS OpenStackCleanup, TLAPS

Loops == {"servers", "ports", "repair_subnets", "repair_ips", "ports_again",
          "groups", "group_ports", "groups_again", "subnets", "networks", "keypairs"}

(* The kinds no old resource of which is left when a loop is entered.       *)
Finished(p) ==
  CASE p = "servers" -> {}
    [] p \in {"ports", "repair_subnets", "repair_ips", "ports_again"} -> {"server"}
    [] p \in {"groups", "group_ports", "groups_again"} -> {"server", "port"}
    [] p = "subnets" -> {"server", "port", "group"}
    [] p = "networks" -> {"server", "port", "group", "subnet"}
    [] p = "keypairs" -> {"server", "port", "group", "subnet", "network"}

\* The loops follow each other as main lists them.
LEMMA LoopTypes ==
  /\ DOMAIN KindOf = Loops
  /\ \A p \in Loops : KindOf[p] \in Kinds
  /\ \A p \in Loops : After[p] \in Loops \cup {"idle"}
  /\ \A p \in Loops : Handler[p] \in Loops \cup {"idle"}
BY DEF KindOf, After, Handler, Loops, Kinds

\* Every kind is finished at the end, floating IPs aside, and no handler
\* leads past a kind.
LEMMA LoopOrder ==
  /\ \A p \in Loops \ {"repair_subnets", "keypairs"} :
       Finished(After[p]) \subseteq Finished(p) \cup {KindOf[p]}
  /\ Finished(After["repair_subnets"]) = Finished("repair_subnets")
  /\ \A p \in Loops : Handler[p] # "idle" => Finished(Handler[p]) = Finished(p)
  /\ Finished("keypairs") \cup {KindOf["keypairs"]} = Kinds \ {"ip"}
  /\ \A p \in Loops : After[p] = "idle" <=> p = "keypairs"
BY DEF KindOf, After, Handler, Loops, Kinds, Finished

-----------------------------------------------------------------------------
\* Types of the project and of the run; only old servers are being deleted,
\* and a loop goes through resources of its kind.
THEOREM TypeCorrect == Spec => []TypeOK
<1>1. Init => TypeOK
  <2> SUFFICES ASSUME Init PROVE TypeOK
    OBVIOUS
  <2>1. alive \subseteq Resources
    BY ResourcesAssumption DEF Init
  <2>2. 0 \in 0 .. MaxRuns /\ 0 \in 0 .. MaxFaults
    BY BoundsAssumption
  <2> QED
    BY <2>1, <2>2 DEF Init, TypeOK
<1>2. TypeOK /\ [Next]_vars => TypeOK'
  <2> SUFFICES ASSUME TypeOK, [Next]_vars PROVE TypeOK'
    OBVIOUS
  <2>1. ASSUME NEW p \in Loops \cup {"idle"}, Enter(p),
               alive' \subseteq Resources
        PROVE  /\ pc' \in DOMAIN KindOf \cup {"idle"}
               /\ todo' \subseteq (IF pc' = "idle" THEN {}
                                   ELSE {r \in Resources : Kind[r] = KindOf[pc']})
    BY <2>1, LoopTypes DEF Enter, Listed, TypeOK
  <2>2. ASSUME NEW d \in BOOLEAN, Start(d) PROVE TypeOK'
    BY <2>1, <2>2, BoundsAssumption DEF TypeOK, Start, Loops, project
  <2>3. ASSUME NEW r \in todo, Pass(r) PROVE TypeOK'
    BY <2>3 DEF TypeOK, Pass, project
  <2>4. ASSUME NEW r \in todo, Delete(r) PROVE TypeOK'
    BY <2>4 DEF TypeOK, Delete, Chosen
  <2>5. ASSUME NEW r \in todo, Detach(r) PROVE TypeOK'
    BY <2>5 DEF TypeOK, Detach
  <2>6. ASSUME NEW r \in todo, Conflict(r) PROVE TypeOK'
    <3>1. Handler[pc] \in Loops \cup {"idle"}
      BY <2>6, LoopTypes DEF TypeOK
    <3> QED
      BY <2>1, <2>6, <3>1 DEF TypeOK, Conflict, project
  <2>7. CASE NextLoop
    <3>1. After[pc] \in Loops \cup {"idle"}
      BY <2>7, LoopTypes DEF TypeOK, NextLoop
    <3> QED
      BY <2>1, <2>7, <3>1 DEF TypeOK, NextLoop, project
  <2>8. CASE Crash
    BY <2>1, <2>8, BoundsAssumption DEF TypeOK, Crash, project
  <2>9. ASSUME NEW s \in deleting, ServerGone(s) PROVE TypeOK'
    BY <2>9 DEF TypeOK, ServerGone
  <2>10. ASSUME NEW r \in Resources, Create(r) PROVE TypeOK'
    BY <2>10 DEF TypeOK, Create
  <2>11. CASE UNCHANGED vars
    BY <2>11 DEF TypeOK, vars, project
  <2> QED
    BY <2>2, <2>3, <2>4, <2>5, <2>6, <2>7, <2>8, <2>9, <2>10, <2>11 DEF Next, Step
<1> QED
  BY <1>1, <1>2, PTL DEF Spec

-----------------------------------------------------------------------------
\* What a step takes from the project: old resources, and what OpenStack
\* deletes along with them.
LEMMA WhoDeletes ==
  ASSUME TypeOK, [Next]_vars
  PROVE  \/ alive \subseteq alive' /\ deleting' \subseteq deleting
         \/ ~dry /\ pc # "idle" /\ \E r \in todo : Delete(r) \/ Detach(r)
         \/ \E s \in deleting : ServerGone(s)
BY DEF Next, Step, Start, Pass, Conflict, NextLoop, Crash, Create, Delete, Detach,
       Chosen, vars, project, TypeOK

\* Nothing young is lost but the ports of old servers, the interfaces of old
\* subnets and the subnets of old networks.
THEOREM YoungSafe == Spec => YoungKept
<1>1. TypeOK /\ [Next]_vars => [\A r \in alive \ alive' : Lost(r)]_vars
  <2> SUFFICES ASSUME TypeOK, [Next]_vars, NEW x \in alive \ alive' PROVE Lost(x)
    OBVIOUS
  <2>1. ASSUME NEW r \in todo, Delete(r) PROVE Lost(x)
    <3>1. r \in Doomed /\ x \in Gone(r)
      BY <2>1 DEF Delete, Chosen
    <3> QED
      BY <3>1 DEF Gone, Lost
  <2>2. ASSUME NEW s \in todo, Detach(s) PROVE Lost(x)
    BY <2>2 DEF Detach, Chosen, Interfaces, Lost
  <2>3. ASSUME NEW s \in deleting, ServerGone(s) PROVE Lost(x)
    BY <2>3 DEF ServerGone, Lost, TypeOK
  <2> QED
    BY <2>1, <2>2, <2>3, WhoDeletes
<1> QED
  BY <1>1, TypeCorrect, PTL DEF Spec, YoungKept

\* A dry run deletes nothing: what goes meanwhile are servers deleted before.
THEOREM DryRunSafe == Spec => DryRunKeepsAll
<1> DEFINE Kept ==
      dry /\ pc # "idle" =>
        /\ deleting' \subseteq deleting
        /\ \A r \in alive \ alive' : (deleting \ deleting') \cap {r, Owner[r]} # {}
<1>1. TypeOK /\ [Next]_vars => [Kept]_vars
  <2> SUFFICES ASSUME TypeOK, [Next]_vars, dry, pc # "idle" PROVE Kept
    OBVIOUS
  <2>1. ASSUME NEW s \in deleting, ServerGone(s) PROVE Kept
    BY <2>1 DEF ServerGone
  <2> QED
    BY <2>1, WhoDeletes
<1> QED
  BY <1>1, TypeCorrect, PTL DEF Spec, DryRunKeepsAll

-----------------------------------------------------------------------------
(* The inductive invariant of a run: no old resource of a kind it has       *)
(* finished is left, and those of the kind at hand are still to come; the   *)
(* subnets of the repair may stay.                                          *)
Remaining ==
  ~dry /\ pc # "idle" =>
    \A r \in (alive \cap Doomed) \ deleting :
      /\ Kind[r] \notin Finished(pc)
      /\ pc # "repair_subnets" /\ Kind[r] = KindOf[pc] => r \in todo

\* A loop that is entered has all resources of its kind to go through.
LEMMA EnterKeeps ==
  ASSUME TypeOK, NEW p \in Loops, Enter(p), UNCHANGED project, ~dry,
         \A r \in (alive \cap Doomed) \ deleting : Kind[r] \notin Finished(p)
  PROVE  Remaining'
BY LoopTypes DEF Enter, Listed, Remaining, project, Loops

LEMMA RemainingInvariant == Spec => []Remaining
<1>1. Init => Remaining
  BY DEF Init, Remaining
<1>2. TypeOK /\ Remaining /\ [Next]_vars => Remaining'
  <2> SUFFICES ASSUME TypeOK, Remaining, [Next]_vars PROVE Remaining'
    OBVIOUS
  <2>1. ASSUME NEW d \in BOOLEAN, Start(d) PROVE Remaining'
    BY <2>1, LoopTypes DEF Start, Enter, Listed, Remaining, project, Loops, Finished
  <2>2. ASSUME NEW r \in todo, Pass(r) PROVE Remaining'
    BY <2>2 DEF Pass, Chosen, Remaining, project
  <2>3. ASSUME NEW r \in todo, Delete(r) PROVE Remaining'
    <3>1. r \notin alive' \/ r \in deleting'
      BY <2>3 DEF Delete, Gone
    <3> QED
      BY <2>3, <3>1 DEF Delete, Remaining
  <2>4. ASSUME NEW s \in todo, Detach(s) PROVE Remaining'
    BY <2>4 DEF Detach, Remaining
  <2>5. ASSUME NEW r \in todo, Conflict(r) PROVE Remaining'
    <3>1. pc \in Loops
      BY LoopTypes DEF TypeOK
    <3>2. CASE Handler[pc] = "idle"
      BY <2>5, <3>2 DEF Conflict, Enter, Remaining
    <3>3. CASE Handler[pc] # "idle"
      BY <2>5, <3>1, <3>3, LoopTypes, LoopOrder, EnterKeeps
         DEF Conflict, Chosen, Remaining, project, Loops
    <3> QED
      BY <3>2, <3>3
  <2>6. CASE NextLoop
    <3>1. pc \in Loops
      BY <2>6, LoopTypes DEF TypeOK, NextLoop
    <3>2. CASE After[pc] = "idle" \/ dry
      BY <2>6, <3>2 DEF NextLoop, Enter, Remaining
    <3>3. CASE After[pc] # "idle" /\ ~dry
      <4>1. After[pc] \in Loops /\ pc # "keypairs"
        BY <3>1, <3>3, LoopTypes, LoopOrder
      <4>2. Finished(After[pc]) \subseteq Finished(pc) \cup
              (IF pc = "repair_subnets" THEN {} ELSE {KindOf[pc]})
        BY <3>1, <4>1, LoopOrder
      <4>3. \A r \in (alive \cap Doomed) \ deleting : Kind[r] \notin Finished(After[pc])
        BY <2>6, <3>1, <3>3, <4>2 DEF NextLoop, Remaining, Loops
      <4> QED
        BY <2>6, <3>3, <4>1, <4>3, EnterKeeps DEF NextLoop
    <3> QED
      BY <3>2, <3>3
  <2>7. CASE Crash
    BY <2>7 DEF Crash, Enter, Remaining
  <2>8. ASSUME NEW s \in deleting, ServerGone(s) PROVE Remaining'
    BY <2>8 DEF ServerGone, Remaining
  <2>9. ASSUME NEW r \in Resources, Create(r) PROVE Remaining'
    BY <2>9 DEF Create, Remaining, Doomed
  <2>10. CASE UNCHANGED vars
    BY <2>10 DEF Remaining, vars, project
  <2> QED
    BY <2>1, <2>2, <2>3, <2>4, <2>5, <2>6, <2>7, <2>8, <2>9, <2>10 DEF Next, Step
<1> QED
  BY <1>1, <1>2, TypeCorrect, PTL DEF Spec

\* A run that reaches its end left nothing old, floating IPs aside.
THEOREM DoneIsClean == Spec => DoneMeansClean
<1>1. TypeOK /\ Remaining /\ [Next]_vars =>
        [pc = "keypairs" /\ NextLoop /\ ~dry => Clean']_vars
  <2> SUFFICES ASSUME TypeOK, Remaining, pc = "keypairs", NextLoop, ~dry PROVE Clean'
    OBVIOUS
  <2>1. todo = {} /\ UNCHANGED <<alive, deleting>>
    BY DEF NextLoop, project
  <2>2. \A r \in (alive \cap Doomed) \ deleting : Kind[r] \notin Kinds \ {"ip"}
    BY <2>1, LoopOrder DEF Remaining
  <2>3. \A r \in alive : Kind[r] \in Kinds
    BY ResourcesAssumption DEF TypeOK
  <2> QED
    BY <2>1, <2>2, <2>3 DEF Clean
<1> QED
  BY <1>1, TypeCorrect, RemainingInvariant, PTL DEF Spec, DoneMeansClean

-----------------------------------------------------------------------------
(* Two runs.  The hypothesis: no young resource goes with an old server.    *)
YoungOnTheirOwn == \A r \in Resources \ Doomed : Owner[r] \notin Doomed

OldPorts == {p \in alive \cap Doomed : Kind[p] = "port"}
OldIps == {i \in alive \cap Doomed : Kind[i] = "ip"}
OldInterfaces == OldPorts \cap RouterPorts
YoungOnes == alive \ Doomed
OnOld(r) == Uses[r] \cap Doomed # {}
Closed == \A p \in alive : Kind[p] = "port" => Uses[p] \subseteq alive

\* What leaves the project, and what arrives.
LEMMA Departs ==
  ASSUME YoungOnTheirOwn, TypeOK, [Next]_vars, NEW x \in alive \ alive'
  PROVE  /\ x \in RouterPorts => pc = "repair_subnets" /\ OnOld(x)
         /\ Kind[x] \in {"port", "ip"} /\ x \notin RouterPorts => x \in Doomed
         /\ Kind[x] \in {"subnet", "group", "network"} => PortsOn(x) = {}
<1> DEFINE Justified ==
      /\ x \in RouterPorts => pc = "repair_subnets" /\ OnOld(x)
      /\ Kind[x] \in {"port", "ip"} /\ x \notin RouterPorts => x \in Doomed
      /\ Kind[x] \in {"subnet", "group", "network"} => PortsOn(x) = {}
<1>0. /\ x \in Resources /\ alive \subseteq Resources /\ todo \subseteq Resources
      /\ Kind[x] \in Kinds /\ Doomed \subseteq Resources
  BY ResourcesAssumption DEF TypeOK, Doomed
<1>1. ASSUME NEW r \in todo, Delete(r) PROVE Justified
  <2>1. r \in alive /\ r \in Doomed /\ ~Refused(r) /\ x \in Gone(r)
    BY <1>1 DEF Delete, Chosen
  <2>2. CASE x = r
    BY <2>1, <2>2, ResourcesAssumption DEF Refused
  <2>3. CASE x # r
    <3>1. Kind[r] = "network" /\ Kind[x] = "subnet" /\ r \in Uses[x]
      BY <2>1, <2>3 DEF Gone
    <3>2. PortsOn(r) = {}
      BY <2>1, <3>1 DEF Refused
    <3>3. \A p \in alive : Kind[p] = "port" => x \notin Uses[p]
      BY <3>1, <3>2 DEF PortsOn
    <3>4. \A p \in alive, s \in Resources :
            Kind[p] = "port" /\ s \in Uses[p] => x \notin Uses[s]
      BY <1>0, <3>1, UsesAssumption
    <3>5. PortsOn(x) = {}
      BY <1>0, <3>3, <3>4, ResourcesAssumption DEF PortsOn
    <3> QED
      BY <3>1, <3>5, ResourcesAssumption
  <2> QED
    BY <2>2, <2>3
<1>2. ASSUME NEW s \in todo, Detach(s) PROVE Justified
  BY <1>2, ResourcesAssumption DEF Detach, Chosen, Interfaces, OnOld
<1>3. ASSUME NEW s \in deleting, ServerGone(s) PROVE Justified
  <2>1. s \in Doomed /\ Kind[s] = "server" /\ (x = s \/ Owner[x] = s)
    BY <1>3 DEF ServerGone, TypeOK
  <2>2. CASE x = s
    BY <2>1, <2>2, ResourcesAssumption
  <2>3. CASE Owner[x] = s
    <3>1. Owner[x] # NoOwner
      BY <1>0, <2>1, <2>3, ResourcesAssumption
    <3> QED
      BY <1>0, <2>1, <2>3, <3>1, UsesAssumption DEF YoungOnTheirOwn
  <2> QED
    BY <2>1, <2>2, <2>3
<1> QED
  BY <1>1, <1>2, <1>3, WhoDeletes

LEMMA Arrives ==
  ASSUME [Next]_vars, NEW x \in alive' \ alive
  PROVE  /\ x \in Resources /\ x \notin Doomed
         /\ Uses[x] \subseteq alive /\ alive \subseteq alive'
<1>1. PICK r \in Resources : Create(r)
  BY DEF Next, Step, Start, Pass, Delete, Detach, Conflict, NextLoop, Crash, ServerGone,
         vars, project
<1> QED
  BY <1>1 DEF Create, Doomed

\* The old resources only become fewer.
LEMMA OldGoes ==
  ASSUME [Next]_vars
  PROVE  /\ OldPorts' \subseteq OldPorts /\ OldIps' \subseteq OldIps
         /\ OldInterfaces' \subseteq OldInterfaces
BY Arrives DEF OldPorts, OldIps, OldInterfaces, Doomed

LEMMA ClosedStep ==
  ASSUME YoungOnTheirOwn, TypeOK, Closed, [Next]_vars PROVE Closed'
<1> SUFFICES ASSUME NEW p \in alive', Kind[p] = "port", NEW u \in Uses[p] PROVE u \in alive'
  BY DEF Closed
<1>1. CASE p \notin alive
  BY <1>1, Arrives
<1>2. CASE p \in alive
  <2>1. u \in alive /\ p \in PortsOn(u)
    BY <1>2 DEF Closed, PortsOn
  <2>2. Kind[u] \in {"subnet", "group"}
    BY <1>2, <2>1, UsesAssumption DEF TypeOK
  <2> QED
    BY <2>1, <2>2, Departs
<1> QED
  BY <1>1, <1>2

\* Once the old ports are gone no run comes to the repair of the subnets.
NoRepair == pc # "repair_subnets" /\ OldPorts = {}

LEMMA NoRepairStep == ASSUME TypeOK, NoRepair, [Next]_vars PROVE NoRepair'
<1>1. OldPorts' = {}
  BY OldGoes DEF NoRepair
<1>2. ASSUME NEW r \in todo, Conflict(r) PROVE pc' # "repair_subnets"
  <2>1. pc # "ports"
    BY <1>2 DEF Conflict, Chosen, NoRepair, OldPorts, TypeOK, KindOf
  <2> QED
    BY <1>2, <2>1, LoopTypes DEF Conflict, Enter, Handler, TypeOK
<1>3. ASSUME NextLoop PROVE pc' # "repair_subnets"
  BY <1>3, LoopTypes DEF NextLoop, Enter, After, TypeOK, Loops
<1>4. pc' # "repair_subnets"
  BY <1>2, <1>3 DEF Next, Step, Start, Enter, Pass, Delete, Detach, Crash, ServerGone,
                    Create, vars, NoRepair
<1> QED
  BY <1>1, <1>4 DEF NoRepair

(* Why no run can clean the project: an old interface on young subnets, a   *)
(* young floating IP or port on an old resource, or, once the repair is     *)
(* over, any young port on one, or on a subnet on one.                      *)
Blocked ==
  \/ \E p \in OldInterfaces : ~OnOld(p)
  \/ \E i \in YoungOnes : Kind[i] = "ip" /\ OnOld(i)
  \/ \E p \in YoungOnes \ RouterPorts : Kind[p] = "port" /\ OnOld(p)
  \/ NoRepair /\ \E p \in YoungOnes :
       Kind[p] = "port" /\ (OnOld(p) \/ \E s \in Uses[p] \ Doomed : OnOld(s))

LEMMA BlockedStep ==
  ASSUME YoungOnTheirOwn, TypeOK, Blocked, [Next]_vars PROVE Blocked'
<1>1. ASSUME NEW p \in OldInterfaces, ~OnOld(p) PROVE Blocked'
  BY <1>1, Departs DEF OldInterfaces, OldPorts, Blocked
<1>2. ASSUME NEW x \in YoungOnes,
             x \notin RouterPorts \/ pc # "repair_subnets", Kind[x] \in {"ip", "port"}
      PROVE  x \in YoungOnes'
  BY <1>2, Departs DEF YoungOnes, Doomed
<1>3. \A i \in YoungOnes : Kind[i] = "ip" => i \notin RouterPorts
  BY ResourcesAssumption
<1>4. ASSUME NoRepair, NEW p \in YoungOnes, Kind[p] = "port",
             OnOld(p) \/ \E s \in Uses[p] \ Doomed : OnOld(s)
      PROVE  Blocked'
  <2>1. p \in YoungOnes'
    BY <1>2, <1>4 DEF NoRepair
  <2> QED
    BY <1>4, <2>1, NoRepairStep DEF Blocked, OnOld, Doomed
<1> QED
  BY <1>1, <1>2, <1>3, <1>4 DEF Blocked, OnOld, Doomed

LEMMA BlockedIsStuck == ASSUME Closed, Blocked PROVE Stuck
BY DEF Blocked, Stuck, OldInterfaces, OldPorts, YoungOnes, OnOld, Closed

-----------------------------------------------------------------------------
(* What the first run has done, over or followed by dry runs only, and what *)
(* a later run still has to do.                                             *)
RepairDone == OldIps = {} \/ OldPorts = {}
Past(n) == faults = 0 /\ (runs > n \/ (runs = n /\ (pc = "idle" \/ dry)))
Again == faults = 0 /\ runs >= 2 /\ ~dry /\ ~Blocked

RunByRun ==
  /\ ~dry /\ pc = "ports_again" => OldIps = {}
  /\ Past(1) => RepairDone
  /\ Again /\ pc = "repair_subnets" =>
       \A p \in OldInterfaces : Uses[p] \cap Doomed \subseteq todo
  /\ Again /\ pc \in {"repair_ips", "ports_again"} => OldInterfaces = {}
  /\ Past(2) => Clean \/ Blocked

\* Past the loops of the ports no old port is left.
LEMMA PortsFinished ==
  ASSUME TypeOK, Remaining, ~dry, pc \in Loops, "port" \in Finished(pc)
  PROVE  OldPorts = {}
BY DEF Remaining, TypeOK, OldPorts, Loops

LEMMA AfterPorts ==
  \A p \in {"groups", "group_ports", "groups_again", "subnets", "networks", "keypairs"} :
    p \in Loops /\ "port" \in Finished(p)
BY DEF Loops, Finished

\* Where a run may end early: on a router's port that the repair left, or on
\* an old resource that a port still uses when the old ports are gone.
LEMMA EarlyEnd ==
  ASSUME TypeOK, Remaining, NEW r \in todo, Conflict(r), pc' = "idle"
  PROVE  \/ pc = "ports_again" /\ r \in OldInterfaces
         \/ OldPorts = {} /\ PortsOn(r) # {}
<1>1. /\ pc \in Loops /\ Kind[r] = KindOf[pc] /\ r \in alive /\ r \in Doomed /\ ~dry
      /\ Refused(r) /\ Handler[pc] = "idle" /\ pc # "repair_subnets"
  BY LoopTypes DEF TypeOK, Conflict, Chosen, Enter
<1>2. pc \notin {"ports", "groups"}
  BY <1>1 DEF Handler, KindOf
<1>3. CASE pc = "ports_again"
  BY <1>1, <1>3 DEF Refused, KindOf, OldInterfaces, OldPorts
<1>4. CASE pc \in {"servers", "repair_ips", "keypairs"}
  BY <1>1, <1>4, ResourcesAssumption DEF Refused, KindOf
<1>5. CASE pc \in {"group_ports", "groups_again", "subnets", "networks"}
  <2>1. OldPorts = {}
    BY <1>1, <1>5, AfterPorts, PortsFinished
  <2>2. r \notin RouterPorts
    BY <1>1, <2>1, ResourcesAssumption DEF OldPorts
  <2> QED
    BY <1>1, <2>1, <2>2 DEF Refused
<1> QED
  BY <1>1, <1>2, <1>3, <1>4, <1>5 DEF Loops

\* In the second case a young port keeps the resource for good.
LEMMA EarlyEndBlocks ==
  ASSUME NEW r \in todo, Conflict(r), pc' = "idle", OldPorts = {}, PortsOn(r) # {}
  PROVE  Blocked'
<1>1. PICK p \in alive : /\ Kind[p] = "port"
                         /\ r \in Uses[p] \/ \E s \in Uses[p] : r \in Uses[s]
  BY DEF PortsOn
<1>2. r \in Doomed /\ UNCHANGED alive
  BY DEF Conflict, Chosen, project
<1>3. p \notin Doomed
  BY <1>1 DEF OldPorts
<1>4. OnOld(p) \/ \E s \in Uses[p] \ Doomed : OnOld(s)
  BY <1>1, <1>2 DEF OnOld
<1>5. NoRepair' /\ p \in YoungOnes'
  BY <1>2, <1>3 DEF NoRepair, OldPorts, YoungOnes, Doomed
<1> QED
  BY <1>1, <1>4, <1>5 DEF Blocked, OnOld, Doomed

\* A subnet that the repair leaves on its routers is needed by what blocks.
LEMMA NeededBlocks ==
  ASSUME TypeOK, RepairDone, OldPorts # {}, NEW s \in todo, Detach(s), Needed(s)
  PROVE  Blocked
<1>1. PICK i \in alive, p \in PortsOn(s) : Kind[i] = "ip" /\ p \in Uses[i]
  BY DEF Needed
<1>2. /\ i \in YoungOnes /\ i \in Resources /\ p \in alive /\ p \in Resources
      /\ Kind[p] = "port" /\ s \in Doomed /\ Kind[s] = "subnet"
  BY <1>1, LoopTypes DEF RepairDone, OldIps, YoungOnes, PortsOn, TypeOK, Detach, Chosen, KindOf, Loops
<1>3. CASE p \in Doomed
  BY <1>1, <1>2, <1>3 DEF Blocked, OnOld
<1>4. CASE p \notin Doomed
  <2>1. p \notin RouterPorts
    BY <1>1, <1>2, UsesAssumption
  <2>2. s \in Uses[p]
    BY <1>1, <1>2, UsesAssumption, ResourcesAssumption DEF PortsOn, TypeOK
  <2> QED
    BY <1>2, <1>4, <2>1, <2>2 DEF Blocked, OnOld, YoungOnes
<1> QED
  BY <1>3, <1>4

LEMMA CleanStep == ASSUME TypeOK, Clean, [Next]_vars PROVE Clean'
<1>1. \A r \in deleting : r \in deleting' \/ r \notin alive'
  BY DEF Next, Step, Start, Pass, Delete, Detach, Conflict, NextLoop, Crash, ServerGone,
         Create, vars, project
<1> QED
  BY <1>1, Arrives DEF Clean, Doomed

\* The steps that stay in their loop.
LEMMA SameLoop ==
  ASSUME YoungOnTheirOwn, TypeOK, Remaining, Closed, RunByRun, [Next]_vars,
         UNCHANGED <<pc, dry, runs, faults>>
  PROVE  RunByRun'
<1>1. Blocked => Blocked'
  BY BlockedStep
<1>2. /\ OldIps' \subseteq OldIps /\ OldPorts' \subseteq OldPorts
      /\ OldInterfaces' \subseteq OldInterfaces /\ (Clean => Clean')
  BY OldGoes, CleanStep
<1>3. ASSUME Again, pc = "repair_subnets", NEW p \in OldInterfaces',
             NEW u \in Uses[p] \cap Doomed, u \notin todo'
      PROVE  Blocked
  <2> SUFFICES ASSUME ~Blocked PROVE FALSE
    OBVIOUS
  <2>1. /\ p \in OldInterfaces /\ p \in alive' /\ p \in alive /\ Kind[p] = "port"
        /\ p \in RouterPorts
    BY <1>2 DEF OldInterfaces, OldPorts
  <2>2. u \in todo /\ u \in alive /\ p \in PortsOn(u)
    BY <1>3, <2>1 DEF RunByRun, Closed, PortsOn
  <2>3. Chosen(u) /\ RepairDone /\ OldPorts # {}
    <3>1. runs \in Nat
      BY BoundsAssumption DEF TypeOK
    <3>2. Past(1)
      BY <1>3, <3>1 DEF Again, Past
    <3>3. Chosen(u)
      BY <1>3 DEF Again, Chosen
    <3>4. RepairDone
      BY <3>2 DEF RunByRun
    <3> QED
      BY <2>1, <3>3, <3>4 DEF OldInterfaces
  <2>4. \A r \in todo : (Pass(r) \/ Delete(r) \/ Detach(r)) => r = u
    BY <1>3, <2>2 DEF Pass, Delete, Detach
  <2>5. Pass(u) \/ Delete(u) \/ Detach(u)
    BY <1>3, <2>2, <2>4
       DEF Next, Step, Start, Enter, Conflict, NextLoop, Crash, ServerGone, Create, vars
  <2>6. Detach(u)
    <3>1. Kind[u] = "subnet"
      BY <1>3, <2>2, LoopTypes DEF TypeOK, KindOf
    <3>2. Refused(u)
      BY <2>2, <3>1 DEF Refused
    <3> QED
      BY <2>2, <2>3, <2>5, <3>2 DEF Pass, Delete
  <2>7. ~Needed(u)
    BY <2>2, <2>3, <2>6, NeededBlocks
  <2>8. alive' = alive \ Interfaces(u)
    BY <2>6, <2>7 DEF Detach
  <2> QED
    BY <1>3, <2>1, <2>8 DEF Interfaces
<1>4. Again' => Again
  BY <1>1 DEF Again
<1>5. Again' /\ pc' = "repair_subnets" =>
        \A p \in OldInterfaces' : Uses[p] \cap Doomed' \subseteq todo'
  BY <1>1, <1>3, <1>4 DEF Again, Doomed
<1> QED
  BY <1>1, <1>2, <1>4, <1>5 DEF RunByRun, Past, RepairDone

\* A run that starts, and one that ends or goes to another loop.
LEMMA StartByRun ==
  ASSUME TypeOK, RunByRun, NEW d \in BOOLEAN, Start(d) PROVE RunByRun'
<1>1. /\ pc = "idle" /\ pc' = "servers" /\ dry' = d /\ UNCHANGED <<alive, deleting, faults>>
      /\ runs' = runs + (IF d THEN 0 ELSE 1) /\ runs \in Nat
  BY BoundsAssumption DEF Start, Enter, project, TypeOK
<1>2. (Past(1)' => Past(1)) /\ (Past(2)' => Past(2))
  BY <1>1 DEF Past
<1>3. /\ OldIps' = OldIps /\ OldPorts' = OldPorts /\ Clean' = Clean
      /\ Blocked => Blocked'
  BY <1>1 DEF OldIps, OldPorts, Clean, Blocked, OldInterfaces, YoungOnes, NoRepair, OnOld,
              Doomed
<1> QED
  BY <1>1, <1>2, <1>3 DEF RunByRun, RepairDone

LEMMA ConflictByRun ==
  ASSUME YoungOnTheirOwn, TypeOK, Remaining, Closed, RunByRun,
         NEW r \in todo, Conflict(r)
  PROVE  RunByRun'
<1>1. /\ pc \in Loops /\ ~dry /\ UNCHANGED <<alive, deleting, dry, runs, faults>>
      /\ pc' = Handler[pc] /\ todo' = Listed(pc') /\ runs \in Nat
  BY LoopTypes, BoundsAssumption DEF Conflict, Chosen, Enter, project, TypeOK
<1>2. /\ OldIps' = OldIps /\ OldPorts' = OldPorts /\ OldInterfaces' = OldInterfaces
      /\ Clean' = Clean
  BY <1>1 DEF OldIps, OldPorts, OldInterfaces, Clean, Doomed
<1>3. [Next]_vars
  BY DEF Next, Step
<1>4. Blocked => Blocked'
  BY <1>3, BlockedStep
<1>5. pc' \in {"idle", "repair_subnets", "group_ports"}
  BY <1>1, LoopTypes DEF Handler
<1>6. CASE pc' = "repair_subnets"
  <2>1. \A p \in OldInterfaces : Uses[p] \cap Doomed \subseteq todo'
    <3> SUFFICES ASSUME NEW p \in OldInterfaces, NEW u \in Uses[p] \cap Doomed
                 PROVE  u \in todo'
      OBVIOUS
    <3>1. p \in alive /\ p \in RouterPorts /\ Kind[p] = "port" /\ u \in alive
      BY DEF OldInterfaces, OldPorts, Closed
    <3>2. Kind[u] = "subnet"
      BY <3>1, UsesAssumption DEF TypeOK
    <3> QED
      BY <1>1, <1>6, <3>1, <3>2 DEF Listed, KindOf
  <2> QED
    BY <1>1, <1>2, <1>4, <1>6, <2>1 DEF RunByRun, Past, RepairDone, Again, Doomed
<1>7. CASE pc' = "group_ports"
  BY <1>1, <1>2, <1>4, <1>7 DEF RunByRun, Past, RepairDone
<1>8. CASE pc' = "idle"
  <2>1. CASE pc = "ports_again" /\ r \in OldInterfaces
    <3>1. OldIps = {}
      BY <1>1, <2>1 DEF RunByRun
    <3>2. faults = 0 /\ runs >= 2 => Blocked
      BY <1>1, <2>1 DEF RunByRun, Again
    <3> QED
      BY <1>1, <1>2, <1>4, <1>8, <3>1, <3>2 DEF RunByRun, Past, RepairDone
  <2>2. CASE OldPorts = {} /\ PortsOn(r) # {}
    BY <1>1, <1>2, <1>8, <2>2, EarlyEndBlocks DEF RunByRun, RepairDone
  <2> QED
    BY <1>8, <2>1, <2>2, EarlyEnd
<1> QED
  BY <1>5, <1>6, <1>7, <1>8

LEMMA NextLoopByRun ==
  ASSUME YoungOnTheirOwn, TypeOK, Remaining, Closed, RunByRun, NextLoop
  PROVE  RunByRun'
<1>1. /\ pc \in Loops /\ todo = {} /\ UNCHANGED <<alive, deleting, dry, runs, faults>>
      /\ pc' = After[pc] /\ runs \in Nat
  BY LoopTypes, BoundsAssumption DEF NextLoop, Enter, project, TypeOK
<1>2. /\ OldIps' = OldIps /\ OldPorts' = OldPorts /\ OldInterfaces' = OldInterfaces
      /\ Clean' = Clean
  BY <1>1 DEF OldIps, OldPorts, OldInterfaces, Clean, Doomed
<1>3. [Next]_vars
  BY DEF Next
<1>4. Blocked => Blocked'
  BY <1>3, BlockedStep
<1>5. /\ pc' # "repair_subnets"
      /\ pc' = "repair_ips" => pc = "repair_subnets"
      /\ pc' = "ports_again" => pc = "repair_ips"
      /\ pc' = "idle" => pc = "keypairs"
  BY <1>1 DEF After, Loops
<1>6. ~dry /\ pc' = "ports_again" => OldIps = {}
  <2> SUFFICES ASSUME ~dry, pc = "repair_ips", NEW i \in OldIps PROVE FALSE
    BY <1>5
  <2>1. i \in (alive \cap Doomed) \ deleting /\ Kind[i] = "ip"
    BY DEF OldIps, TypeOK
  <2> QED
    BY <1>1, <2>1 DEF Remaining, KindOf
<1>7. Again /\ pc' \in {"repair_ips", "ports_again"} => OldInterfaces = {}
  BY <1>1, <1>5 DEF RunByRun, Again, Blocked, OnOld
<1>8. ~dry /\ pc' = "idle" => OldPorts = {} /\ Clean'
  <2> SUFFICES ASSUME ~dry, pc = "keypairs" PROVE OldPorts = {} /\ Clean'
    BY <1>5
  <2>1. OldPorts = {}
    BY <1>1, AfterPorts, PortsFinished
  <2>2. \A x \in (alive \cap Doomed) \ deleting : Kind[x] \notin Kinds \ {"ip"}
    BY <1>1, LoopOrder DEF Remaining
  <2> QED
    BY <1>2, <2>1, <2>2, ResourcesAssumption DEF Clean, TypeOK
<1> QED
  BY <1>1, <1>2, <1>4, <1>5, <1>6, <1>7, <1>8 DEF RunByRun, Past, RepairDone, Again

LEMMA RunByRunStep ==
  ASSUME YoungOnTheirOwn, TypeOK, Remaining, Closed, RunByRun, [Next]_vars
  PROVE  RunByRun'
<1>1. CASE Crash
  <2>1. /\ faults' = faults + 1 /\ faults \in Nat /\ pc' = "idle"
    BY <1>1, BoundsAssumption DEF Crash, Enter, TypeOK
  <2> QED
    BY <2>1 DEF RunByRun, Past, Again
<1>2. UNCHANGED <<pc, dry, runs, faults>> \/ Crash \/ NextLoop
      \/ (\E d \in BOOLEAN : Start(d)) \/ \E r \in todo : Conflict(r)
  BY DEF Next, Step, Pass, Delete, Detach, ServerGone, Create, vars
<1> QED
  BY <1>1, <1>2, SameLoop, StartByRun, ConflictByRun, NextLoopByRun

\* Two runs in which no call fails clean the project, floating IPs aside, or
\* find something young on an old resource, whatever order the resources come
\* in, whatever others create meanwhile and however late the servers go.
THEOREM TwoRunsSuffice == YoungOnTheirOwn => (Spec => []TwoRunsClean)
<1> SUFFICES ASSUME YoungOnTheirOwn PROVE Spec => []TwoRunsClean
  OBVIOUS
<1>1. Init => Closed /\ RunByRun
  BY UsesAssumption DEF Init, Closed, RunByRun, Past, Again
<1>2. TypeOK /\ Remaining /\ Closed /\ RunByRun /\ [Next]_vars => Closed' /\ RunByRun'
  BY ClosedStep, RunByRunStep
<1>3. TypeOK /\ Closed /\ RunByRun => TwoRunsClean
  BY BlockedIsStuck, BoundsAssumption DEF RunByRun, Past, TwoRunsClean, TypeOK
<1> QED
  BY <1>1, <1>2, <1>3, RemainingInvariant, TypeCorrect, PTL DEF Spec
=============================================================================
