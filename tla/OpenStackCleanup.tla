-------------------------- MODULE OpenStackCleanup --------------------------
(***************************************************************************)
(* scripts/openstack-cleanup/main.py: deletes the resources of a project   *)
(* that are older than a limit, kind after kind, while other users create  *)
(* new ones.  What OpenStack refuses, deletes along and does later is      *)
(* external, modelled from the exceptions the script handles.              *)
(***************************************************************************)
EXTENDS Integers

CONSTANTS
  Resources,    \* all resources there are or may be created
  Kind,         \* resource -> its kind
  Uses,         \* port -> its subnet and groups, subnet -> its network,
                \* floating IP -> its port
  Owner,        \* port -> its server or NoOwner
  NoOwner,
  RouterPorts,  \* ports that are interfaces of routers
  Unmanaged,    \* resources named "default" and external networks
  Old,          \* resources created before oldest_allowed
  Initial,      \* sets of resources to start from
  MaxRuns, MaxFaults   \* bounds: runs, and calls that fail

Kinds == {"server", "port", "subnet", "group", "network", "ip", "keypair"}

ASSUME ResourcesAssumption ==
  /\ Kind \in [Resources -> Kinds] /\ Uses \in [Resources -> SUBSET Resources]
  /\ Owner \in [Resources -> Resources \cup {NoOwner}]
  /\ NoOwner \notin Resources
  /\ RouterPorts \subseteq {r \in Resources : Kind[r] = "port"}
  /\ Unmanaged \subseteq Resources /\ Old \subseteq Resources
  /\ Initial \subseteq SUBSET Resources
(* OpenStack's data model; what is there has what it uses.                  *)
ASSUME UsesAssumption ==
  /\ \A r \in Resources, u \in Resources : u \in Uses[r] =>
       \/ Kind[r] = "port" /\ Kind[u] = "subnet"
       \/ Kind[r] = "port" /\ r \notin RouterPorts /\ Kind[u] = "group"
       \/ Kind[r] = "subnet" /\ Kind[u] = "network"
       \/ Kind[r] = "ip" /\ Kind[u] = "port" /\ u \notin RouterPorts
  /\ \A r \in Resources : Owner[r] # NoOwner => Kind[r] = "port" /\ r \notin RouterPorts
  /\ \A I \in Initial : \A r \in I : Uses[r] \subseteq I
ASSUME BoundsAssumption == MaxRuns \in Nat /\ MaxFaults \in Nat

VARIABLES
  alive,     \* the resources of the project
  deleting,  \* servers whose deletion was accepted
  pc,        \* the loop the run is in, or "idle"
  dry,       \* --dry-run
  todo,      \* items the loop was given and has not come to
  runs,      \* runs that delete
  faults     \* calls that failed

vars == <<alive, deleting, pc, dry, todo, runs, faults>>
project == <<alive, deleting>>

(* The loops of main, the kind each goes through and the one after it.      *)
KindOf ==
  [servers |-> "server", ports |-> "port", repair_subnets |-> "subnet",
   repair_ips |-> "ip", ports_again |-> "port", groups |-> "group",
   group_ports |-> "port", groups_again |-> "group", subnets |-> "subnet",
   networks |-> "network", keypairs |-> "keypair"]
After ==
  [servers |-> "ports", ports |-> "groups", repair_subnets |-> "repair_ips",
   repair_ips |-> "ports_again", ports_again |-> "groups",
   groups |-> "subnets", group_ports |-> "groups_again",
   groups_again |-> "subnets", subnets |-> "networks",
   networks |-> "keypairs", keypairs |-> "idle"]
\* Faults of the handling: a conflict on a port always ends the script, and
\* a conflict is skipped with the rest of its loop.
HandlerNoRepair ==
  [p \in DOMAIN KindOf |-> IF p = "groups" THEN "group_ports" ELSE "idle"]
HandlerGoOn == [p \in DOMAIN KindOf |-> After[p]]

(* Where a conflict leads: to a repair, or to the end of the script.        *)
Handler ==
  [p \in DOMAIN KindOf |->
     CASE p = "ports" -> "repair_subnets"
       [] p = "groups" -> "group_ports"
       [] OTHER -> "idle"]

Doomed == Old \ Unmanaged

-----------------------------------------------------------------------------
(* OpenStack *)

PortsOn(x) ==
  {p \in alive : /\ Kind[p] = "port"
                 /\ x \in Uses[p] \cup UNION {Uses[s] : s \in Uses[p]}}

(* A router's port is not deleted as a port, nor anything a port uses.      *)
Refused(r) ==
  \/ r \in RouterPorts
  \/ Kind[r] \in {"subnet", "group", "network"} /\ PortsOn(r) # {}

(* What a delete takes along; a server goes later, with its ports.          *)
Gone(r) ==
  CASE Kind[r] = "server" -> {}
    [] Kind[r] = "network" ->
         {r} \cup {s \in alive : Kind[s] = "subnet" /\ r \in Uses[s]}
    [] OTHER -> {r}

ServerGone(s) ==
  /\ s \in deleting
  /\ alive' = alive \ ({s} \cup {p \in alive : Owner[p] = s})
  /\ deleting' = deleting \ {s}
  /\ UNCHANGED <<pc, dry, todo, runs, faults>>

(* Someone else creates a young resource, out of those that are there.      *)
Create(r) ==
  /\ r \notin alive \cup Old
  /\ Uses[r] \cup ({Owner[r]} \ {NoOwner}) \subseteq alive \ deleting
  /\ alive' = alive \cup {r}
  /\ UNCHANGED <<deleting, pc, dry, todo, runs, faults>>

-----------------------------------------------------------------------------
(* The script *)

Init ==
  /\ alive \in Initial
  /\ deleting = {}
  /\ pc = "idle" /\ dry = FALSE /\ todo = {}
  /\ runs = 0 /\ faults = 0

Listed(p) ==
  IF p = "idle" THEN {} ELSE {r \in alive : Kind[r] = KindOf[p]}
Enter(p) == pc' = p /\ todo' = Listed(p)

Start(dryRun) ==
  /\ pc = "idle" /\ (dryRun \/ runs < MaxRuns)
  /\ runs' = runs + (IF dryRun THEN 0 ELSE 1)
  /\ dry' = dryRun
  /\ Enter("servers")
  /\ UNCHANGED <<project, faults>>

\* Faults: the age is not compared, the flag is not looked at.
ChosenYoung(r) == r \notin Unmanaged /\ ~dry
ChosenDry(r) == r \in Doomed

(* fn_if_old, and the external networks that main leaves out.               *)
Chosen(r) == r \in Doomed /\ ~dry

Pass(r) ==
  /\ r \in todo
  /\ ~Chosen(r)
  /\ todo' = todo \ {r}
  /\ UNCHANGED <<project, pc, dry, runs, faults>>

(* Deleting what is gone already is no error.                               *)
Delete(r) ==
  /\ r \in todo
  /\ Chosen(r)
  /\ r \in alive => ~Refused(r)
  /\ alive' = alive \ (IF r \in alive THEN Gone(r) ELSE {})
  /\ deleting' = deleting \cup ({r} \cap {s \in alive : Kind[s] = "server"})
  /\ todo' = todo \ {r}
  /\ UNCHANGED <<pc, dry, runs, faults>>

(* A subnet in use is taken off the routers, as far as no floating IP needs *)
(* them; what fails is logged.                                              *)
Interfaces(s) == {p \in RouterPorts : s \in Uses[p]}
Needed(s) == \E i \in alive, p \in PortsOn(s) : Kind[i] = "ip" /\ p \in Uses[i]

Detach(s) ==
  /\ pc = "repair_subnets"
  /\ s \in todo /\ s \in alive /\ Chosen(s) /\ Refused(s)
  /\ alive' = alive \ (IF Needed(s) THEN {} ELSE Interfaces(s))
  /\ todo' = todo \ {s}
  /\ UNCHANGED <<deleting, pc, dry, runs, faults>>

(* ConflictException: the loop is left for its handler, or the script ends. *)
Conflict(r) ==
  /\ pc # "repair_subnets"
  /\ r \in todo /\ r \in alive /\ Chosen(r) /\ Refused(r)
  /\ Enter(Handler[pc])
  /\ UNCHANGED <<project, dry, runs, faults>>

NextLoop ==
  /\ pc # "idle" /\ todo = {}
  /\ Enter(After[pc])
  /\ UNCHANGED <<project, dry, runs, faults>>

(* Any other exception, or Ctrl-C.                                          *)
Crash ==
  /\ pc # "idle" /\ faults < MaxFaults
  /\ faults' = faults + 1
  /\ Enter("idle")
  /\ UNCHANGED <<project, dry, runs>>

Step(r) == Pass(r) \/ Delete(r) \/ Detach(r) \/ Conflict(r)

Next ==
  \/ \E d \in BOOLEAN : Start(d)
  \/ \E r \in todo : Step(r)
  \/ NextLoop \/ Crash
  \/ \E s \in deleting : ServerGone(s)
  \/ \E r \in Resources : Create(r)

Spec == Init /\ [][Next]_vars

-----------------------------------------------------------------------------
TypeOK ==
  /\ alive \subseteq Resources
  /\ deleting \subseteq {s \in Doomed : Kind[s] = "server"}
  /\ pc \in DOMAIN KindOf \cup {"idle"}
  /\ dry \in BOOLEAN
  /\ todo \subseteq (IF pc = "idle" THEN {}
                     ELSE {r \in Resources : Kind[r] = KindOf[pc]})
  /\ runs \in 0 .. MaxRuns /\ faults \in 0 .. MaxFaults

(* Whatever order the loops and their repairs take, nothing is lost but old *)
(* resources, the ports of old servers, the interfaces of old subnets and   *)
(* the subnets of old networks.                                             *)
Lost(r) ==
  \/ r \in Doomed
  \/ Owner[r] \in Doomed
  \/ r \in RouterPorts /\ Uses[r] \cap Doomed # {}
  \/ Kind[r] = "subnet" /\ Uses[r] \cap Doomed # {}
YoungKept == [][\A r \in alive \ alive' : Lost(r)]_vars

(* A dry run deletes nothing, though remove_interface_from_router does not  *)
(* look at the flag; only servers deleted before may still go meanwhile.    *)
DryRunKeepsAll ==
  [][dry /\ pc # "idle" =>
       /\ deleting' \subseteq deleting
       /\ \A r \in alive \ alive' :
            (deleting \ deleting') \cap {r, Owner[r]} # {}]_vars

(* A run that reaches its end left nothing old, floating IPs aside: no      *)
(* repair and no early end of a loop let a resource slip through.           *)
Clean == \A r \in alive \cap Doomed : r \in deleting \/ Kind[r] = "ip"
DoneMeansClean ==
  [][pc = "keypairs" /\ NextLoop /\ ~dry => Clean']_vars

(* Two runs clean any project in which no young resource stands on an old   *)
(* one, where no call fails: the first may end on a router's port that a    *)
(* floating IP keeps, but then has deleted that IP.                         *)
(* (Given that no young port is plugged into an old server: such a port may *)
(* block two runs and then go with the server.)                             *)
Stuck ==
  \/ \E r \in alive \ Doomed : (Uses[r] \cup {Owner[r]}) \cap Doomed # {}
  \/ \E p \in alive \cap RouterPorts \cap Doomed : Uses[p] \cap Doomed = {}
TwoRunsClean == pc = "idle" /\ runs >= 2 /\ faults = 0 /\ ~Stuck => Clean
=============================================================================
