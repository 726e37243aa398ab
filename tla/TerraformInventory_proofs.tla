---------------------- MODULE TerraformInventory_proofs ----------------------
(* Theorems about TerraformInventory, for any state files with any resources *)
(* and any number of runs of terraform.                                      *)
EXTENDS TerraformInventory, FiniteSetTheorems, WellFoundedInduction,
        SequenceTheorems, TLAPS

-----------------------------------------------------------------------------
(* The passes over a file *)

\* A set of places in a file has a last one: of the sets of the later places
\* of each, the least.
LEMMA LastPlace ==
  ASSUME NEW n \in Nat, NEW S \in SUBSET (1 .. n), S # {}
  PROVE  \E i \in S : \A j \in S : j <= i
<1> DEFINE after(i) == {j \in S : i < j}
           T == {after(i) : i \in S}
           R == StrictSubsetOrdering(S)
<1>1. IsFiniteSet(S)
  <2>1. IsFiniteSet(1 .. n)
    BY FS_Interval
  <2> QED
    BY <2>1, FS_Subset
<1>2. T \subseteq FiniteSubsetsOf(S) /\ T # {}
  <2>1. FiniteSubsetsOf(S) = SUBSET S
    BY <1>1, FS_FiniteSubsetsOfFinite
  <2>2. ASSUME NEW y \in T PROVE y \in SUBSET S
    <3>1. PICK i \in S : y = after(i)
      OBVIOUS
    <3> QED
      BY <3>1
  <2>3. PICK i : i \in S
    OBVIOUS
  <2>4. after(i) \in T
    BY <2>3
  <2> QED
    BY <2>1, <2>2, <2>4
<1>3. IsWellFoundedOn(R, FiniteSubsetsOf(S))
  BY FS_StrictSubsetOrderingWellFounded
<1> HIDE DEF R, T
<1>4. PICK x \in T : \A y \in T : ~(<<y, x>> \in R)
  BY <1>2, <1>3, WFMin
<1>5. PICK i \in S : x = after(i)
  BY DEF T
<1>6. ASSUME NEW j \in S, ~(j <= i) PROVE FALSE
  <2>1. after(j) \subseteq x /\ j \in x /\ j \notin after(j)
    <3>1. i \in Int /\ j \in Int /\ i < j /\ \A k \in S : k \in Int
      BY <1>6
    <3>2. \A k : (k \in x) <=> (k \in S /\ i < k)
      BY <1>5
    <3>3. \A k \in after(j) : k \in x
      BY <3>1, <3>2
    <3>4. j \notin after(j)
      BY <3>1
    <3> QED
      BY <3>1, <3>2, <3>3, <3>4
  <2>2. <<after(j), x>> \in R
    BY <1>5, <2>1 DEF R, StrictSubsetOrdering
  <2>3. after(j) \in T
    BY DEF T
  <2> QED
    BY <1>4, <2>2, <2>3
<1> QED
  BY <1>6

\* The pass for the floating IPs finds the ports of the associations of a
\* file, and for each an address that one of them gives it.
LEMMA IterIpsAssociates ==
  ASSUME NEW c \in Contents
  PROVE  /\ DOMAIN IterIps(c) =
              {r.port : r \in {q \in Resources(c) : q.kind = "association"}}
         /\ \A p \in DOMAIN IterIps(c) : \E r \in Resources(c) :
              r.kind = "association" /\ r.port = p /\ r.ip = IterIps(c)[p]
<1>1. DOMAIN IterIps(c) = {r.port : r \in {q \in Resources(c) : q.kind = "association"}}
  BY DEF IterIps
<1>2. ASSUME NEW p \in DOMAIN IterIps(c)
      PROVE  \E r \in Resources(c) :
               r.kind = "association" /\ r.port = p /\ r.ip = IterIps(c)[p]
  <2> DEFINE last == CHOOSE i \in Associated(c, p) : \A j \in Associated(c, p) : j <= i
  <2>1. Associated(c, p) # {}
    BY <1>1, <1>2 DEF Associated, Resources
  <2>2. Len(c.resources) \in Nat /\ DOMAIN c.resources = 1 .. Len(c.resources)
    BY ContentsAssumption
  <2>3. \E i \in Associated(c, p) : \A j \in Associated(c, p) : j <= i
    BY <2>1, <2>2, LastPlace DEF Associated
  <2>4. last \in Associated(c, p)
    BY <2>3
  <2>5. IterIps(c)[p] = c.resources[last].ip
    BY <1>1, <1>2 DEF IterIps
  <2> QED
    BY <2>4, <2>5 DEF Associated, Resources
<1> QED
  BY <1>1, <1>2

\* What the pass for the hosts makes of an instance and of a device.
LEMMA HostOfInstance ==
  ASSUME NEW r, r.kind = "instance"
  PROVE  /\ HostIp(Parsed(r)).provider = "openstack"
         /\ HostIp(Parsed(r)).name = r.name
         /\ HostIp(Parsed(r)).port = r.port
         /\ HostIp(Parsed(r)).groups = Groups(r)
         /\ HostIp(Parsed(r)).ansible_host =
              IF r.port \in DOMAIN ips THEN ips[r.port]
              ELSE IF r.prefer_ipv6 = "1" THEN r.v6 ELSE r.v4
         /\ HostIp(Parsed(r)).access_ip =
              IF r.use_access_ip = "0" THEN NoIp
              ELSE IF r.port \in DOMAIN ips THEN ips[r.port] ELSE r.v4
BY DEF Parsed, OpenstackHost, HostIp

LEMMA HostOfDevice ==
  ASSUME NEW r, r.kind = "device"
  PROVE  /\ HostIp(Parsed(r)).provider = "equinix"
         /\ HostIp(Parsed(r)).name = r.name
BY DEF Parsed, EquinixMetalDevice, HostIp

LEMMA IterHostsDefined ==
  ASSUME NEW c, NEW i \in DOMAIN IterHosts(c)
  PROVE  /\ i \in DOMAIN c.resources
         /\ c.resources[i].kind \in {"instance", "device"}
         /\ IterHosts(c)[i] = HostIp(Parsed(c.resources[i]))
BY DEF IterHosts, HostPlaces

\* A host of an answer is in the table of one of the files.
InATable(h) == \E k \in DOMAIN hosts : \E i \in DOMAIN hosts[k] : h = hosts[k][i]
ListedInTables == \A h : (h \in Listed) <=> InATable(h)

LEMMA ListedHost == ListedInTables
<1>1. \A p : (p \in Places) <=>
               (\E k \in DOMAIN hosts : \E i \in DOMAIN hosts[k] : p = <<k, i>>)
  BY DEF Places
<1>2. \A k, i : Host(<<k, i>>) = hosts[k][i]
  BY DEF Host
<1>3. ASSUME NEW h \in Listed
      PROVE  \E k \in DOMAIN hosts : \E i \in DOMAIN hosts[k] : h = hosts[k][i]
  <2>1. PICK p \in Places : h = Host(p)
    BY DEF Listed
  <2>2. PICK k \in DOMAIN hosts : \E i \in DOMAIN hosts[k] : p = <<k, i>>
    BY <1>1
  <2>3. PICK i \in DOMAIN hosts[k] : p = <<k, i>>
    BY <2>2
  <2> QED
    BY <1>2, <2>1, <2>3
<1>4. ASSUME NEW k \in DOMAIN hosts, NEW i \in DOMAIN hosts[k] PROVE hosts[k][i] \in Listed
  <2>1. <<k, i>> \in Places
    BY <1>1
  <2>2. Host(<<k, i>>) \in Listed
    BY <2>1 DEF Listed
  <2> QED
    BY <2>2, <1>2
<1> QED
  BY <1>3, <1>4 DEF ListedInTables, InATable

LEMMA ListedHostNext == ListedInTables'
BY ListedHost, PTL

-----------------------------------------------------------------------------
(* The address book *)

OwnKnown == Owned \subseteq own
HostsRead == hosts \in Seq({hosts[k] : k \in DOMAIN hosts})

\* What ReadHosts does to the tables.
LEMMA TableAdded ==
  ASSUME NEW s, s \in Seq({s[k] : k \in DOMAIN s}), NEW t, NEW u, u = Append(s, t)
  PROVE  /\ u \in Seq({u[k] : k \in DOMAIN u})
         /\ DOMAIN u = DOMAIN s \cup {Len(s) + 1}
         /\ Len(s) + 1 \notin DOMAIN s
         /\ u[Len(s) + 1] = t
         /\ \A k \in DOMAIN s : u[k] = s[k]
<1> DEFINE S == {s[k] : k \in DOMAIN s} \cup {t}
           U == {u[k] : k \in DOMAIN u}
<1>1. s \in Seq(S) /\ t \in S
  BY SeqMonotonic
<1> HIDE DEF S
<1>2. /\ u \in Seq(S) /\ Len(u) = Len(s) + 1 /\ Len(s) \in Nat
      /\ DOMAIN u = 1 .. Len(u) /\ DOMAIN s = 1 .. Len(s)
      /\ u[Len(s) + 1] = t /\ \A k \in 1 .. Len(s) : u[k] = s[k]
  BY <1>1
<1>3. u \in Seq(U)
  <2>1. u = [k \in 1 .. Len(u) |-> u[k]]
    <3>1. u \in [1 .. Len(u) -> S]
      BY <1>2, LenProperties
    <3> QED
      BY <3>1
  <2>2. \A k \in 1 .. Len(u) : u[k] \in U
    BY <1>2
  <2>3. Len(u) \in Nat
    BY <1>2
  <2> HIDE DEF U
  <2>4. [k \in 1 .. Len(u) |-> u[k]] \in Seq(U)
    BY <2>2, <2>3
  <2> QED
    BY <2>1, <2>4
<1> QED
  BY <1>2, <1>3

\* Type correctness; every floating IP of the first pass was given to its port
\* by a state file.
LEMMA TypeStep ==
  ASSUME TypeOK, OwnKnown, HostsRead, [Next]_vars
  PROVE  TypeOK' /\ OwnKnown' /\ HostsRead'
<1> USE DEF TypeOK
<1>1. CASE Begin \/ SecondPass \/ Answer
  <2>1. /\ UNCHANGED <<files, ips, hosts, applies, own>>
        /\ pc' \in {"ips", "hosts", "answered"} /\ left' \in {Files, left}
        /\ changed' \in {FALSE, changed}
    BY <1>1 DEF Begin, SecondPass, Answer
  <2>2. OwnKnown'
    BY <2>1 DEF OwnKnown, Owned, All
  <2>3. HostsRead'
    BY <2>1 DEF HostsRead
  <2> QED
    BY <2>1, <2>2, <2>3
<1>2. CASE End
  <2>1. HostsRead'
    BY <1>2, EmptySeq DEF End, HostsRead
  <2>2. OwnKnown'
    BY <1>2 DEF End, OwnKnown, Owned, All
  <2>3. DOMAIN ips' = {}
    BY <1>2 DEF End
  <2> QED
    BY <1>2, <2>1, <2>2, <2>3 DEF End
<1>3. ASSUME NEW f \in left, ReadIps(f) PROVE TypeOK' /\ OwnKnown' /\ HostsRead'
  <2>1. /\ UNCHANGED <<files, pc, hosts, applies, changed, own>>
        /\ ips' = Updated(ips, IterIps(files[f])) /\ left' = left \ {f}
        /\ f \in Files /\ files[f] \in Contents
    BY <1>3 DEF ReadIps
  <2>2. ASSUME NEW p \in DOMAIN IterIps(files[f]) PROVE <<p, IterIps(files[f])[p]>> \in own
    <3>1. PICK r \in Resources(files[f]) :
            r.kind = "association" /\ r.port = p /\ r.ip = IterIps(files[f])[p]
      BY <2>1, IterIpsAssociates
    <3>2. r \in All("association")
      BY <2>1, <3>1 DEF All
    <3> QED
      BY <3>1, <3>2 DEF OwnKnown, Owned
  <2>3. \A p \in DOMAIN ips' : <<p, ips'[p]>> \in own
    <3> DEFINE new == IterIps(files[f])
    <3>1. ips' = [p \in DOMAIN new \cup DOMAIN ips |-> IF p \in DOMAIN new THEN new[p] ELSE ips[p]]
      BY <2>1 DEF Updated
    <3> HIDE DEF new
    <3>2. ASSUME NEW p \in DOMAIN ips' PROVE <<p, ips'[p]>> \in own
      <4>1. CASE p \in DOMAIN new
        BY <3>1, <4>1, <2>2 DEF new
      <4>2. CASE p \notin DOMAIN new
        BY <3>1, <4>2
      <4> QED
        BY <4>1, <4>2
    <3> QED
      BY <3>2
  <2> QED
    BY <2>1, <2>3 DEF OwnKnown, Owned, All, HostsRead
<1>4. ASSUME NEW f \in left, ReadHosts(f) PROVE TypeOK' /\ OwnKnown' /\ HostsRead'
  <2>1. /\ UNCHANGED <<files, pc, ips, applies, changed, own>> /\ left' = left \ {f}
        /\ hosts' = Append(hosts, IterHosts(files[f]))
    BY <1>4 DEF ReadHosts
  <2>2. HostsRead'
    BY <2>1, TableAdded DEF HostsRead
  <2>3. OwnKnown'
    BY <2>1 DEF OwnKnown, Owned, All
  <2> QED
    BY <2>1, <2>2, <2>3
<1>5. ASSUME NEW f \in left, QueryHost(f) PROVE TypeOK' /\ OwnKnown' /\ HostsRead'
  <2>1. /\ UNCHANGED <<files, ips, applies, changed, own>>
        /\ pc' = "found" /\ left' = {}
    BY <1>5 DEF QueryHost
  <2>2. PICK t : hosts' = <<t>>
    BY <1>5 DEF QueryHost
  <2>3. HostsRead'
    <3>1. DOMAIN hosts' = 1 .. 1 /\ hosts'[1] = t
      BY <2>2
    <3>2. t \in {hosts'[k] : k \in DOMAIN hosts'}
      BY <3>1
    <3> DEFINE S == {hosts'[k] : k \in DOMAIN hosts'}
    <3> HIDE DEF S
    <3>3. <<t>> \in Seq(S)
      BY <3>2 DEF S
    <3> QED
      BY <2>2, <3>3 DEF HostsRead, S
  <2>4. OwnKnown'
    BY <2>1 DEF OwnKnown, Owned, All
  <2> QED
    BY <2>1, <2>3, <2>4
<1>6. ASSUME NEW f \in Files, NEW c \in Contents, TerraformApply(f, c)
      PROVE  TypeOK' /\ OwnKnown' /\ HostsRead'
  BY <1>6, MaxAppliesAssumption DEF TerraformApply, OwnKnown, HostsRead
<1>7. CASE UNCHANGED vars
  BY <1>7 DEF vars, OwnKnown, Owned, All, HostsRead
<1> QED
  BY <1>1, <1>2, <1>3, <1>4, <1>5, <1>6, <1>7 DEF Next

LEMMA TypeInit == Init => TypeOK /\ OwnKnown /\ HostsRead
<1> SUFFICES ASSUME Init PROVE TypeOK /\ OwnKnown /\ HostsRead
  OBVIOUS
<1>1. HostsRead
  BY EmptySeq DEF Init, HostsRead
<1>2. DOMAIN ips = {}
  BY DEF Init
<1>3. OwnKnown
  BY DEF Init, OwnKnown
<1>4. applies \in 0 .. MaxApplies /\ changed \in BOOLEAN
  <2>1. applies = 0 /\ changed = FALSE
    BY DEF Init
  <2>2. applies \in 0 .. MaxApplies
    BY <2>1, MaxAppliesAssumption
  <2>3. changed \in BOOLEAN
    BY <2>1
  <2> QED
    BY <2>2, <2>3
<1>5. TypeOK
  <2>1. \A p \in DOMAIN ips : <<p, ips[p]>> \in own
    BY <1>2
  <2>2. files \in [Files -> Contents] /\ left \subseteq Files /\ pc = "idle"
    <3>1. files \in Initial /\ left = {} /\ pc = "idle"
      BY DEF Init
    <3> QED
      BY <3>1, InitialAssumption
  <2> QED
    BY <1>4, <2>1, <2>2 DEF TypeOK
<1> QED
  BY <1>1, <1>3, <1>5

Typed == TypeOK /\ OwnKnown /\ HostsRead

LEMMA TypedAlways == Spec => []Typed
<1>1. Init => Typed
  BY TypeInit DEF Typed
<1>2. Typed /\ [Next]_vars => Typed'
  BY TypeStep DEF Typed
<1> QED
  BY <1>1, <1>2, PTL DEF Spec

\* Type correctness, with the floating IPs of the first pass, for any files.
THEOREM TypeCorrect == Spec => []TypeOK
<1>1. Typed => TypeOK
  BY DEF Typed
<1> QED
  BY <1>1, TypedAlways, PTL

-----------------------------------------------------------------------------
(* No foreign address *)

\* A table of a file gives no instance a foreign address: its own are in the
\* book, and so are the floating IPs that were read before.
LEMMA TableOwn ==
  ASSUME TypeOK, OwnKnown, NEW f \in Files, NEW i \in DOMAIN IterHosts(files[f]),
         IterHosts(files[f])[i].provider = "openstack"
  PROVE  {<<IterHosts(files[f])[i].port, IterHosts(files[f])[i].ansible_host>>,
          <<IterHosts(files[f])[i].port, IterHosts(files[f])[i].access_ip>>}
           \subseteq own \cup {<<IterHosts(files[f])[i].port, NoIp>>}
<1> DEFINE r == files[f].resources[i]
           h == HostIp(Parsed(r))
<1>1. /\ IterHosts(files[f])[i] = h /\ r.kind \in {"instance", "device"}
      /\ i \in DOMAIN files[f].resources
  BY IterHostsDefined
<1>2. r.kind = "instance"
  BY <1>1, HostOfDevice
<1>3. r \in All("instance")
  BY <1>1, <1>2 DEF All, Resources
<1>4. {<<r.port, r.v4>>, <<r.port, r.v6>>} \subseteq own
  BY <1>3 DEF OwnKnown, Owned
<1> HIDE DEF r
<1>5. /\ h.port = r.port
      /\ h.ansible_host = IF r.port \in DOMAIN ips THEN ips[r.port]
                          ELSE IF r.prefer_ipv6 = "1" THEN r.v6 ELSE r.v4
      /\ h.access_ip = IF r.use_access_ip = "0" THEN NoIp
                       ELSE IF r.port \in DOMAIN ips THEN ips[r.port] ELSE r.v4
  BY <1>2, HostOfInstance
<1> HIDE DEF h
<1>6. r.port \in DOMAIN ips => <<r.port, ips[r.port]>> \in own
  BY DEF TypeOK
<1>7. <<h.port, h.ansible_host>> \in own
  BY <1>4, <1>5, <1>6
<1>8. <<h.port, h.access_ip>> \in own \cup {<<h.port, NoIp>>}
  BY <1>4, <1>5, <1>6
<1> QED
  BY <1>1, <1>7, <1>8

LEMMA ForeignStep ==
  ASSUME Typed, NoForeignAddress, [Next]_vars
  PROVE  NoForeignAddress'
<1> DEFINE Fair(h, o) == {<<h.port, h.ansible_host>>, <<h.port, h.access_ip>>}
                           \subseteq o \cup {<<h.port, NoIp>>}
<1>1. \A h : InATable(h) /\ h.provider = "openstack" => Fair(h, own)
  BY ListedHost DEF NoForeignAddress, OfInstances, ListedInTables
<1>2. SUFFICES ASSUME NEW h, InATable(h)', h.provider = "openstack"
               PROVE  Fair(h, own')
  BY ListedHostNext DEF NoForeignAddress, OfInstances, ListedInTables
<1>3. own \subseteq own'
  BY DEF Next, Begin, SecondPass, Answer, End, ReadIps, ReadHosts, QueryHost,
     TerraformApply, vars
<1>4. CASE UNCHANGED hosts
  BY <1>1, <1>2, <1>3, <1>4 DEF InATable
<1>5. CASE End
  BY <1>2, <1>5 DEF End, InATable
<1>6. ASSUME NEW f \in left, ReadHosts(f) PROVE Fair(h, own')
  <2>1. hosts' = Append(hosts, IterHosts(files[f]))
    BY <1>6 DEF ReadHosts
  <2>2. /\ DOMAIN hosts' = DOMAIN hosts \cup {Len(hosts) + 1}
        /\ hosts'[Len(hosts) + 1] = IterHosts(files[f])
        /\ \A k \in DOMAIN hosts : hosts'[k] = hosts[k]
    BY <2>1, TableAdded DEF Typed, HostsRead
  <2>3. PICK k \in DOMAIN hosts' : \E i \in DOMAIN hosts'[k] : h = hosts'[k][i]
    BY <1>2 DEF InATable
  <2>4. CASE k \in DOMAIN hosts
    BY <1>1, <1>2, <1>3, <2>2, <2>3, <2>4 DEF InATable
  <2>5. CASE k = Len(hosts) + 1
    <3>1. PICK i \in DOMAIN IterHosts(files[f]) : h = IterHosts(files[f])[i]
      BY <2>2, <2>3, <2>5
    <3>2. f \in Files
      BY DEF Typed, TypeOK
    <3>3. Fair(h, own)
      BY <1>2, <3>1, <3>2, TableOwn DEF Typed
    <3> QED
      BY <1>3, <3>3
  <2> QED
    BY <2>2, <2>3, <2>4, <2>5
<1>7. ASSUME NEW f \in left, QueryHost(f) PROVE Fair(h, own')
  <2>1. f \in Files
    BY DEF Typed, TypeOK
  <2>2. PICK i \in HostPlaces(files[f]) :
          hosts' = <<[j \in {i} |-> HostIp(Parsed(files[f].resources[i]))]>>
    BY <1>7 DEF QueryHost
  <2>3. i \in DOMAIN IterHosts(files[f])
        /\ IterHosts(files[f])[i] = HostIp(Parsed(files[f].resources[i]))
    BY <2>2 DEF IterHosts
  <2>4. h = IterHosts(files[f])[i]
    <3> DEFINE t == HostIp(Parsed(files[f].resources[i]))
    <3>1. hosts' = <<[j \in {i} |-> t]>>
      BY <2>2
    <3> HIDE DEF t
    <3>2. DOMAIN hosts' = {1} /\ DOMAIN hosts'[1] = {i} /\ hosts'[1][i] = t
      BY <3>1
    <3>3. h = t
      BY <1>2, <3>2 DEF InATable
    <3> QED
      BY <2>3, <3>3 DEF t
  <2>5. Fair(h, own)
    BY <1>2, <2>1, <2>3, <2>4, TableOwn DEF Typed
  <2> QED
    BY <1>3, <2>5
<1> QED
  BY <1>4, <1>5, <1>6, <1>7 DEF Next, Begin, SecondPass, Answer, ReadIps, TerraformApply, vars

\* No instance is given an address that was never its own, whatever terraform
\* does between the two passes over the files.
THEOREM AddressesOwn == Spec => []NoForeignAddress
<1>1. Init => NoForeignAddress
  <2>1. ASSUME Init PROVE Listed = {}
    <3>1. DOMAIN hosts = {}
      BY <2>1 DEF Init
    <3> QED
      BY <3>1, ListedHost DEF ListedInTables, InATable
  <2> QED
    BY <2>1 DEF NoForeignAddress, OfInstances
<1>2. Typed /\ NoForeignAddress /\ [Next]_vars => NoForeignAddress'
  BY ForeignStep
<1> QED
  BY <1>1, <1>2, TypedAlways, PTL DEF Spec

-----------------------------------------------------------------------------
(* Quiet runs *)

\* The passes of a run: no table before the second, no address before the
\* first, no file left at the answer.
Passes ==
  /\ pc \in {"idle", "ips"} => hosts = <<>>
  /\ pc = "idle" => DOMAIN ips = {}
  /\ pc = "answered" => left = {}

\* While no file changes, the floating IPs are those of the files that the
\* first pass has read.
FilesRead == IF pc = "ips" THEN Files \ left ELSE Files
Ports(f) == {r.port : r \in {q \in Resources(files[f]) : q.kind = "association"}}
AddressesRead ==
  ~changed /\ pc # "idle" =>
    /\ DOMAIN ips = UNION {Ports(f) : f \in FilesRead}
    /\ \A p \in DOMAIN ips : \E r \in All("association") : r.port = p /\ r.ip = ips[p]

\* While no file changes, the tables are those of the files that the second
\* pass has read.
TablesRead ==
  ~changed /\ pc \in {"hosts", "answered"} =>
    /\ \A f \in Files \ left : \E k \in DOMAIN hosts : hosts[k] = IterHosts(files[f])
    /\ \A k \in DOMAIN hosts : \E f \in Files \ left : hosts[k] = IterHosts(files[f])

LEMMA PassesStep ==
  ASSUME Passes, [Next]_vars
  PROVE  Passes'
<1> USE DEF Passes
<1>1. CASE Begin
  BY <1>1 DEF Begin
<1>2. CASE SecondPass
  BY <1>2 DEF SecondPass
<1>3. CASE Answer
  BY <1>3 DEF Answer
<1>4. CASE End
  <2>1. pc' = "idle" /\ DOMAIN ips' = {} /\ hosts' = <<>>
    BY <1>4 DEF End
  <2> QED
    BY <2>1
<1>5. ASSUME NEW f \in left, ReadIps(f) PROVE Passes'
  BY <1>5 DEF ReadIps
<1>6. ASSUME NEW f \in left, ReadHosts(f) PROVE Passes'
  BY <1>6 DEF ReadHosts
<1>7. ASSUME NEW f \in left, QueryHost(f) PROVE Passes'
  BY <1>7 DEF QueryHost
<1>8. ASSUME NEW f \in Files, NEW c \in Contents, TerraformApply(f, c) PROVE Passes'
  BY <1>8 DEF TerraformApply
<1>9. CASE UNCHANGED vars
  BY <1>9 DEF vars
<1> QED
  BY <1>1, <1>2, <1>3, <1>4, <1>5, <1>6, <1>7, <1>8, <1>9 DEF Next

LEMMA AddressesStep ==
  ASSUME TypeOK, Passes, AddressesRead, [Next]_vars
  PROVE  AddressesRead'
<1> SUFFICES ASSUME ~changed', pc' # "idle"
             PROVE  /\ DOMAIN ips' = UNION {Ports(f)' : f \in FilesRead'}
                    /\ \A p \in DOMAIN ips' : \E r \in All("association")' :
                         r.port = p /\ r.ip = ips'[p]
  BY DEF AddressesRead
<1>1. CASE Begin
  <2>1. DOMAIN ips' = {} /\ FilesRead' = {}
    BY <1>1 DEF Begin, Passes, FilesRead
  <2> QED
    BY <2>1
<1>2. CASE SecondPass \/ Answer \/ (\E f \in left : ReadHosts(f) \/ QueryHost(f))
        \/ UNCHANGED vars
  <2>1. UNCHANGED <<files, ips, changed>> /\ pc # "idle" /\ FilesRead' = FilesRead
    BY <1>2 DEF SecondPass, Answer, ReadHosts, QueryHost, vars, FilesRead
  <2> QED
    BY <2>1 DEF AddressesRead, Ports, All
<1>3. ASSUME NEW f \in left, ReadIps(f)
      PROVE  /\ DOMAIN ips' = UNION {Ports(g)' : g \in FilesRead'}
             /\ \A p \in DOMAIN ips' : \E r \in All("association")' :
                  r.port = p /\ r.ip = ips'[p]
  <2> DEFINE new == IterIps(files[f])
  <2>1. /\ UNCHANGED <<files, changed>> /\ pc = "ips" /\ pc' = "ips" /\ left' = left \ {f}
        /\ ips' = Updated(ips, new) /\ f \in Files /\ files[f] \in Contents
    BY <1>3 DEF ReadIps, TypeOK
  <2>2. FilesRead' = FilesRead \cup {f}
    BY <2>1 DEF FilesRead
  <2>3. DOMAIN new = Ports(f)
    BY <2>1, IterIpsAssociates DEF Ports
  <2>4. \A p \in DOMAIN new : \E r \in All("association") : r.port = p /\ r.ip = new[p]
    <3>1. \A p \in DOMAIN new : \E r \in Resources(files[f]) :
            r.kind = "association" /\ r.port = p /\ r.ip = new[p]
      BY <2>1, IterIpsAssociates
    <3>2. \A r \in Resources(files[f]) : r.kind = "association" => r \in All("association")
      BY <2>1 DEF All
    <3> QED
      BY <3>1, <3>2
  <2>5. /\ DOMAIN ips = UNION {Ports(g) : g \in FilesRead}
        /\ \A p \in DOMAIN ips : \E r \in All("association") : r.port = p /\ r.ip = ips[p]
    BY <2>1 DEF AddressesRead
  <2> HIDE DEF new
  <2>6. /\ DOMAIN ips' = DOMAIN new \cup DOMAIN ips
        /\ \A p \in DOMAIN ips' : ips'[p] = IF p \in DOMAIN new THEN new[p] ELSE ips[p]
    BY <2>1 DEF Updated
  <2>7. (\A g : Ports(g)' = Ports(g)) /\ All("association")' = All("association")
    BY <2>1 DEF Ports, All
  <2>8. DOMAIN ips' = UNION {Ports(g) : g \in FilesRead \cup {f}}
    BY <2>3, <2>5, <2>6
  <2>9. DOMAIN ips' = UNION {Ports(g)' : g \in FilesRead'}
    BY <2>2, <2>7, <2>8
  <2>10. \A p \in DOMAIN ips' : \E r \in All("association") : r.port = p /\ r.ip = ips'[p]
    BY <2>4, <2>5, <2>6
  <2> QED
    BY <2>7, <2>9, <2>10
<1>4. CASE End \/ \E f \in Files, c \in Contents : TerraformApply(f, c)
  BY <1>4 DEF End, TerraformApply
<1> QED
  BY <1>1, <1>2, <1>3, <1>4 DEF Next

LEMMA SameTable ==
  ASSUME UNCHANGED <<files, ips>>, NEW f
  PROVE  IterHosts(files[f])' = IterHosts(files[f])
BY DEF IterHosts, HostPlaces, HostIp

LEMMA TablesStep ==
  ASSUME Typed, Passes, TablesRead, [Next]_vars
  PROVE  TablesRead'
<1> SUFFICES ASSUME ~changed', pc' \in {"hosts", "answered"}
             PROVE  /\ \A f \in Files \ left' : \E k \in DOMAIN hosts' :
                         hosts'[k] = IterHosts(files[f])'
                    /\ \A k \in DOMAIN hosts' : \E f \in Files \ left' :
                         hosts'[k] = IterHosts(files[f])'
  BY DEF TablesRead
<1>1. CASE SecondPass
  <2>1. left' = Files /\ hosts' = <<>>
    BY <1>1 DEF SecondPass, Passes
  <2>2. DOMAIN hosts' = {}
    BY <2>1
  <2> QED
    BY <2>1, <2>2
<1>2. CASE Answer \/ UNCHANGED vars
  <2>1. UNCHANGED <<files, ips, hosts, left, changed>> /\ pc \in {"hosts", "answered"}
    BY <1>2 DEF Answer, vars
  <2> QED
    BY <2>1, SameTable DEF TablesRead
<1>3. ASSUME NEW g \in left, ReadHosts(g)
      PROVE  /\ \A f \in Files \ left' : \E k \in DOMAIN hosts' :
                  hosts'[k] = IterHosts(files[f])'
             /\ \A k \in DOMAIN hosts' : \E f \in Files \ left' :
                  hosts'[k] = IterHosts(files[f])'
  <2>1. /\ UNCHANGED <<files, ips, changed>> /\ pc = "hosts" /\ left' = left \ {g}
        /\ hosts' = Append(hosts, IterHosts(files[g])) /\ g \in Files
    BY <1>3 DEF ReadHosts, Typed, TypeOK
  <2>2. /\ DOMAIN hosts' = DOMAIN hosts \cup {Len(hosts) + 1}
        /\ hosts'[Len(hosts) + 1] = IterHosts(files[g])
        /\ \A k \in DOMAIN hosts : hosts'[k] = hosts[k]
    BY <2>1, TableAdded DEF Typed, HostsRead
  <2>3. \A f : IterHosts(files[f])' = IterHosts(files[f])
    BY <2>1, SameTable
  <2>4. /\ \A f \in Files \ left : \E k \in DOMAIN hosts : hosts[k] = IterHosts(files[f])
        /\ \A k \in DOMAIN hosts : \E f \in Files \ left : hosts[k] = IterHosts(files[f])
    BY <2>1 DEF TablesRead
  <2> QED
    BY <2>1, <2>2, <2>3, <2>4
<1>4. CASE Begin \/ End \/ (\E f \in left : ReadIps(f) \/ QueryHost(f))
        \/ (\E f \in Files, c \in Contents : TerraformApply(f, c))
  BY <1>4 DEF Begin, End, ReadIps, QueryHost, TerraformApply
<1> QED
  BY <1>1, <1>2, <1>3, <1>4 DEF Next

\* While no file changes, the host that --host has found is that of a resource.
OfResource(h) == \E r \in All("instance") \cup All("device") : h = HostIp(Parsed(r))
FoundRead == ~changed /\ pc = "found" => \A h : InATable(h) => OfResource(h)

LEMMA FoundStep ==
  ASSUME TypeOK, FoundRead, [Next]_vars
  PROVE  FoundRead'
<1> SUFFICES ASSUME ~changed', pc' = "found", NEW h, InATable(h)'
             PROVE  OfResource(h)'
  BY DEF FoundRead
<1>1. CASE UNCHANGED vars
  <2>1. UNCHANGED <<files, ips, hosts>> /\ ~changed /\ pc = "found"
    BY <1>1 DEF vars
  <2>2. OfResource(h)
    BY <2>1 DEF FoundRead, InATable
  <2> QED
    BY <2>1, <2>2 DEF OfResource, All, HostIp
<1>2. ASSUME NEW f \in left, QueryHost(f) PROVE OfResource(h)'
  <2>1. PICK i \in HostPlaces(files[f]) :
          hosts' = <<[j \in {i} |-> HostIp(Parsed(files[f].resources[i]))]>>
    BY <1>2 DEF QueryHost
  <2> DEFINE r == files[f].resources[i]
             t == HostIp(Parsed(r))
  <2>2. r \in All("instance") \cup All("device")
    BY <2>1 DEF HostPlaces, All, Resources, TypeOK
  <2>3. hosts' = <<[j \in {i} |-> t]>>
    BY <2>1
  <2>4. OfResource(t)
    BY <2>2 DEF OfResource
  <2> HIDE DEF t
  <2>5. DOMAIN hosts' = {1} /\ DOMAIN hosts'[1] = {i} /\ hosts'[1][i] = t
    BY <2>3
  <2>6. OfResource(h)
    BY <2>4, <2>5 DEF InATable
  <2>7. UNCHANGED <<files, ips>>
    BY <1>2 DEF QueryHost
  <2> QED
    BY <2>6, <2>7 DEF OfResource, All, HostIp
<1>3. CASE Begin \/ SecondPass \/ Answer \/ End \/ (\E f \in left : ReadIps(f) \/ ReadHosts(f))
        \/ (\E f \in Files, c \in Contents : TerraformApply(f, c))
  BY <1>3 DEF Begin, SecondPass, Answer, End, ReadIps, ReadHosts, TerraformApply
<1> QED
  BY <1>1, <1>2, <1>3 DEF Next

Quiet == Passes /\ AddressesRead /\ TablesRead /\ FoundRead

LEMMA QuietAlways == Spec => []Quiet
<1>1. Init => Quiet
  <2>1. Init => hosts = <<>> /\ DOMAIN ips = {} /\ pc = "idle"
    BY DEF Init
  <2> QED
    BY <2>1 DEF Quiet, Passes, AddressesRead, TablesRead, FoundRead
<1>2. Typed /\ Quiet /\ [Next]_vars => Quiet'
  BY PassesStep, AddressesStep, TablesStep, FoundStep DEF Quiet, Typed
<1> QED
  BY <1>1, <1>2, TypedAlways, PTL DEF Spec

\* At a quiet answer every instance and device has a place, and every place is
\* that of one of them.
LEMMA PlaceOfResource ==
  ASSUME TypeOK, Quiet, pc = "answered", ~changed,
         NEW r \in All("instance") \cup All("device")
  PROVE  \E p \in Places : Host(p) = HostIp(Parsed(r)) /\ NotAfter(p, p)
<1>1. PICK f \in Files : r \in Resources(files[f]) /\ r.kind \in {"instance", "device"}
  BY DEF All
<1>2. PICK i \in DOMAIN files[f].resources : r = files[f].resources[i]
  BY <1>1 DEF Resources
<1>3. i \in DOMAIN IterHosts(files[f]) /\ IterHosts(files[f])[i] = HostIp(Parsed(r))
  BY <1>1, <1>2 DEF IterHosts, HostPlaces
<1>4. PICK k \in DOMAIN hosts : hosts[k] = IterHosts(files[f])
  BY DEF Quiet, Passes, TablesRead
<1>5. <<k, i>> \in Places /\ Host(<<k, i>>) = HostIp(Parsed(r))
  BY <1>3, <1>4 DEF Places, Host
<1>6. NotAfter(<<k, i>>, <<k, i>>)
  <2>1. files[f] \in Contents
    BY DEF TypeOK
  <2>2. DOMAIN files[f].resources = 1 .. Len(files[f].resources)
    BY <2>1, ContentsAssumption
  <2>3. Len(files[f].resources) \in Nat
    BY <2>1, ContentsAssumption
  <2>4. i \in Int
    BY <2>2, <2>3
  <2> QED
    BY <2>4 DEF NotAfter
<1> QED
  BY <1>5, <1>6

LEMMA ResourceOfPlace ==
  ASSUME Quiet, pc = "answered", ~changed, NEW p \in Places
  PROVE  \E r \in All("instance") \cup All("device") : Host(p) = HostIp(Parsed(r))
<1>1. PICK k \in DOMAIN hosts : \E i \in DOMAIN hosts[k] : p = <<k, i>>
  BY DEF Places
<1>2. PICK i \in DOMAIN hosts[k] : p = <<k, i>>
  BY <1>1
<1>3. PICK f \in Files : hosts[k] = IterHosts(files[f])
  BY DEF Quiet, TablesRead
<1>4. /\ i \in DOMAIN files[f].resources
      /\ files[f].resources[i].kind \in {"instance", "device"}
      /\ hosts[k][i] = HostIp(Parsed(files[f].resources[i]))
  BY <1>3, IterHostsDefined
<1>5. files[f].resources[i] \in All("instance") \cup All("device")
  BY <1>4 DEF All, Resources
<1>6. Host(p) = hosts[k][i]
  BY <1>2 DEF Host
<1> QED
  BY <1>4, <1>5, <1>6

LEMMA NameOfHost ==
  ASSUME NEW r \in All("instance") \cup All("device")
  PROVE  HostIp(Parsed(r)).name = r.name
BY HostOfInstance, HostOfDevice DEF All

\* The floating IP of a port, if an association in a file gives it one, is one
\* that an association gives it.
LEMMA QuietAddress ==
  ASSUME Quiet, pc \in {"answered", "found"}, ~changed, NEW r, NEW direct
  PROVE  (IF r.port \in DOMAIN ips THEN ips[r.port] ELSE direct) \in Address(r, direct)
<1>1. /\ DOMAIN ips = UNION {Ports(f) : f \in Files}
      /\ \A p \in DOMAIN ips : \E a \in All("association") : a.port = p /\ a.ip = ips[p]
  BY DEF Quiet, AddressesRead, FilesRead
<1>2. CASE r.port \in DOMAIN ips
  <2>1. ips[r.port] \in Floating(r)
    BY <1>1, <1>2 DEF Floating
  <2> QED
    BY <1>2, <2>1 DEF Address
<1>3. CASE r.port \notin DOMAIN ips
  <2>1. \A a \in All("association") : a.port \in DOMAIN ips
    BY <1>1 DEF All, Ports
  <2>2. Floating(r) = {}
    BY <1>3, <2>1 DEF Floating
  <2> QED
    BY <1>3, <2>2 DEF Address
<1> QED
  BY <1>2, <1>3

\* At a quiet answer the host of an instance has an address of its own.
LEMMA InstanceAddressed ==
  ASSUME Quiet, pc \in {"answered", "found"}, ~changed, NEW r, r.kind = "instance"
  PROVE  Addressed(r, HostIp(Parsed(r)))
<1> DEFINE h == HostIp(Parsed(r))
<1>1. /\ h.ansible_host = IF r.port \in DOMAIN ips THEN ips[r.port]
                          ELSE IF r.prefer_ipv6 = "1" THEN r.v6 ELSE r.v4
      /\ h.access_ip = IF r.use_access_ip = "0" THEN NoIp
                       ELSE IF r.port \in DOMAIN ips THEN ips[r.port] ELSE r.v4
  BY HostOfInstance
<1> HIDE DEF h
<1>2. h.ansible_host \in Address(r, IF r.prefer_ipv6 = "1" THEN r.v6 ELSE r.v4)
  BY <1>1, QuietAddress
<1>3. h.access_ip \in (IF r.use_access_ip = "0" THEN {NoIp} ELSE Address(r, r.v4))
  <2>1. (IF r.port \in DOMAIN ips THEN ips[r.port] ELSE r.v4) \in Address(r, r.v4)
    BY QuietAddress
  <2> QED
    BY <1>1, <2>1
<1> QED
  BY <1>2, <1>3 DEF h, Addressed

\* A list that no change disturbed is complete.
LEMMA QuietList ==
  ASSUME TypeOK, Quiet, pc = "answered", ~changed
  PROVE  ListComplete
<1>1. {h.name : h \in Listed} = {r.name : r \in All("instance") \cup All("device")}
  <2>1. \A p \in Places : \E r \in All("instance") \cup All("device") : Host(p).name = r.name
    BY ResourceOfPlace, NameOfHost
  <2>2. \A r \in All("instance") \cup All("device") : \E p \in Places : Host(p).name = r.name
    BY PlaceOfResource, NameOfHost
  <2>3. {h.name : h \in Listed} = {Host(p).name : p \in Places}
    BY DEF Listed
  <2> QED
    BY <2>1, <2>2, <2>3
<1>2. ASSUME NEW r \in {q \in All("instance") : Unique(q.name)}
      PROVE  /\ Addressed(r, QueryList.meta[r.name])
             /\ {g \in DOMAIN QueryList.groups : r.name \in QueryList.groups[g]}
                  = {IF g = "" THEN "all" ELSE g : g \in Groups(r)}
  <2>1. PICK p \in Places : Host(p) = HostIp(Parsed(r)) /\ NotAfter(p, p)
    BY PlaceOfResource
  <2> DEFINE h == Host(p)
  <2>2. /\ r.kind = "instance" /\ h.name = r.name
        /\ h.groups = Groups(r)
    BY <2>1, HostOfInstance DEF All
  <2>3. Named(r.name) = {p}
    BY <2>2 DEF Named, Unique
  <2>4. QueryList.meta[r.name] = h
    <3>1. r.name \in {Host(q).name : q \in Places}
      BY <2>2
    <3>2. QueryList.meta[r.name] =
            Host(CHOOSE q \in Named(r.name) : \A s \in Named(r.name) : NotAfter(s, q))
      BY <3>1 DEF QueryList
    <3> QED
      BY <2>1, <2>3, <3>2
  <2>5. Addressed(r, h)
    BY <2>1, <2>2, InstanceAddressed
  <2>6. {g \in DOMAIN QueryList.groups : r.name \in QueryList.groups[g]} = GroupNames(h)
    <3> DEFINE gs == QueryList.groups
    <3>1. /\ DOMAIN gs = UNION {GroupNames(Host(q)) : q \in Places}
          /\ \A g \in DOMAIN gs :
               gs[g] = {Host(q).name : q \in {s \in Places : g \in GroupNames(Host(s))}}
      BY DEF QueryList
    <3> HIDE DEF gs
    <3>2. \A q \in Places : Host(q).name = r.name => q = p
      BY <2>3 DEF Named
    <3>3. \A g \in DOMAIN gs : r.name \in gs[g] <=> g \in GroupNames(h)
      BY <2>2, <3>1, <3>2
    <3>4. GroupNames(h) \subseteq DOMAIN gs
      BY <3>1
    <3>5. {g \in DOMAIN gs : r.name \in gs[g]} = GroupNames(h)
      BY <3>3, <3>4
    <3> QED
      BY <3>5 DEF gs
  <2>7. GroupNames(h) = {IF g = "" THEN "all" ELSE g : g \in Groups(r)}
    BY <2>2 DEF GroupNames
  <2> QED
    BY <2>4, <2>5, <2>6, <2>7
<1> QED
  BY <1>1, <1>2 DEF ListComplete

\* What --host has found while nothing changed is right.
LEMMA QuietHost ==
  ASSUME Quiet, pc = "found", ~changed
  PROVE  HostRight
<1> SUFFICES ASSUME NEW h \in OfInstances
             PROVE  \E r \in All("instance") : r.name = h.name /\ Addressed(r, h)
  BY DEF HostRight
<1>1. InATable(h) /\ h.provider = "openstack"
  BY ListedHost DEF OfInstances, ListedInTables
<1>2. PICK r \in All("instance") \cup All("device") : h = HostIp(Parsed(r))
  BY <1>1 DEF Quiet, FoundRead, OfResource
<1>3. r \in All("instance") /\ r.kind = "instance"
  BY <1>1, <1>2, HostOfDevice DEF All
<1>4. r.name = h.name
  BY <1>2, <1>3, HostOfInstance
<1>5. Addressed(r, h)
  BY <1>2, <1>3, InstanceAddressed
<1> QED
  BY <1>3, <1>4, <1>5

\* When no file changes between the start and the answer, --list has every host
\* of every file with its floating IP, its groups and no access_ip it does not
\* ask for, and --host says the same.
THEOREM QuietListsComplete == Spec => []QuietListComplete
<1>1. Typed /\ Quiet => QuietListComplete
  BY QuietList, QuietHost DEF Typed, QuietListComplete
<1> QED
  BY <1>1, TypedAlways, QuietAlways, PTL
=============================================================================
