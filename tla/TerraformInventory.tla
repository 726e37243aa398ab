------------------------- MODULE TerraformInventory -------------------------
(***************************************************************************)
(* contrib/terraform/terraform.py, the dynamic inventory: it reads every   *)
(* state file below a root twice, for the floating IPs and for the hosts,  *)
(* and answers --list or --host.  `terraform apply' rewrites a file at any *)
(* time.                                                                   *)
(***************************************************************************)
EXTENDS Sequences, Naturals, TLC

CONSTANTS
  Files,       \* state files below the root
  Contents,    \* contents a file may have
  Initial,     \* contents of all files to start from
  Sanitized,   \* group -> its name without the characters + - = . / space
  NoIp,        \* an attribute that is not there
  MaxApplies   \* bound: runs of terraform apply

(* Resources, as far as the inventory tells them apart, and state files; a  *)
(* file of version 0 is half written, its resources those it will have.     *)
Instance(name, port, v4, v6, prefer, access, groups) ==
  [kind |-> "instance", name |-> name, port |-> port, v4 |-> v4, v6 |-> v6,
   prefer_ipv6 |-> prefer, use_access_ip |-> access, groups |-> groups]
Device(name, v4, tags) ==
  [kind |-> "device", name |-> name, v4 |-> v4, groups |-> tags]
Association(port, ip) == [kind |-> "association", port |-> port, ip |-> ip]
State(version, resources) == [version |-> version, resources |-> resources]

ASSUME ContentsAssumption ==
  \A c \in Contents : c.version \in Nat /\ c.resources \in Seq(
    {c.resources[i] : i \in DOMAIN c.resources})
ASSUME InitialAssumption == Initial \subseteq [Files -> Contents]
ASSUME MaxAppliesAssumption == MaxApplies \in Nat

VARIABLES
  files,    \* file -> its contents
  pc,       \* "idle", "ips", "hosts", "answered" (all read), "found" (--host)
  left,     \* files the current pass has not read
  ips,      \* port -> floating IP, of the first pass that runs
  hosts,    \* the hosts of the second: of each file, in the order they are
            \* read, the places of its hosts and the host at each; or just
            \* the host that --host has found
  applies,
  changed,  \* history: a file changed since the start
  own       \* history: <<port, address>> that any state file has given

vars == <<files, pc, left, ips, hosts, applies, changed, own>>

Resources(c) == {c.resources[i] : i \in DOMAIN c.resources}
All(kind) ==
  {r \in UNION {Resources(files[f]) : f \in Files} : r.kind = kind}

-----------------------------------------------------------------------------
(* Parsers *)

Groups(r) == {IF g = "" THEN "" ELSE Sanitized[g] : g \in r.groups}

OpenstackHost(r) ==
  [provider |-> "openstack", name |-> r.name, port |-> r.port,
   use_access_ip |-> r.use_access_ip,
   ansible_host |-> IF r.prefer_ipv6 = "1" THEN r.v6 ELSE r.v4,
   access_ip |-> IF r.use_access_ip = "0" THEN NoIp ELSE r.v4,
   groups |-> Groups(r)]

(* A device has neither a port nor metadata.                                *)
EquinixMetalDevice(r) ==
  [provider |-> "equinix", name |-> r.name, ansible_host |-> r.v4,
   access_ip |-> NoIp, groups |-> Groups(r)]

\* A fault: the two fields of an association are exchanged.
IterIpsSwapped(c) ==
  LET as == {r \in Resources(c) : r.kind = "association"}
  IN [i \in {r.ip : r \in as} |-> (CHOOSE r \in as : r.ip = i).port]

(* The floating IPs of a file; of two with the same port the last counts.   *)
Associated(c, port) ==
  {i \in DOMAIN c.resources :
     c.resources[i].kind = "association" /\ c.resources[i].port = port}
IterIps(c) ==
  [p \in {r.port : r \in {q \in Resources(c) : q.kind = "association"}} |->
     LET last == CHOOSE i \in Associated(c, p) : \A j \in Associated(c, p) : j <= i
     IN c.resources[last].ip]

(* dict() over the pairs of several files: the last file with a port counts. *)
Updated(old, new) ==
  [p \in DOMAIN new \cup DOMAIN old |->
     IF p \in DOMAIN new THEN new[p] ELSE old[p]]

\* Faults: metadata is not looked at again after the address is set; the
\* floating IPs are given out without a look at the ports.
HostIpKept(h) ==
  IF DOMAIN ips # {} /\ h.port \in DOMAIN ips
  THEN [h EXCEPT !.ansible_host = ips[h.port], !.access_ip = ips[h.port]]
  ELSE h

HostIpAnyPort(h) ==
  IF DOMAIN ips # {}
  THEN [h EXCEPT !.ansible_host = ips[CHOOSE p \in DOMAIN ips : TRUE]]
  ELSE h

(* iter_host_ips, for one host, where there are floating IPs.               *)
HostIp(h) ==
  IF DOMAIN ips # {} /\ h.port \in DOMAIN ips
  THEN [h EXCEPT !.ansible_host = ips[h.port],
                 !.access_ip =
                   IF h.use_access_ip = "0" THEN NoIp ELSE ips[h.port]]
  ELSE h

Parsed(r) ==
  IF r.kind = "instance" THEN OpenstackHost(r) ELSE EquinixMetalDevice(r)
HostPlaces(c) ==
  {i \in DOMAIN c.resources : c.resources[i].kind \in {"instance", "device"}}
IterHosts(c) == [i \in HostPlaces(c) |-> HostIp(Parsed(c.resources[i]))]

-----------------------------------------------------------------------------
(* Queries *)

Places == UNION {{<<k, i>> : i \in DOMAIN hosts[k]} : k \in DOMAIN hosts}
Host(p) == hosts[p[1]][p[2]]
NotAfter(p, q) == p[1] < q[1] \/ (p[1] = q[1] /\ p[2] <= q[2])

Named(name) == {p \in Places : Host(p).name = name}

(* An empty name of a group becomes "all".                                  *)
GroupNames(h) == {IF g = "" THEN "all" ELSE g : g \in h.groups}
QueryList ==
  [groups |-> [g \in UNION {GroupNames(Host(p)) : p \in Places} |->
                 {Host(p).name : p \in {q \in Places : g \in GroupNames(Host(q))}}],
   meta |-> [n \in {Host(p).name : p \in Places} |->
               Host(CHOOSE p \in Named(n) : \A q \in Named(n) : NotAfter(q, p))]]

-----------------------------------------------------------------------------
Owned ==
  {<<r.port, r.ip>> : r \in All("association")}
    \cup UNION {{<<r.port, r.v4>>, <<r.port, r.v6>>} : r \in All("instance")}

Init ==
  /\ files \in Initial
  /\ pc = "idle" /\ left = {} /\ ips = <<>> /\ hosts = <<>>
  /\ applies = 0 /\ changed = FALSE
  /\ own = Owned

(* `hosts' is a generator: its files are read only when a query asks for    *)
(* it, so the pass for the floating IPs is the first to run.                *)
Begin ==
  /\ pc = "idle"
  /\ pc' = "ips" /\ left' = Files
  /\ changed' = FALSE
  /\ UNCHANGED <<files, ips, hosts, applies, own>>

Readable(f) == files[f].version \in {3, 4}

ReadIps(f) ==
  /\ pc = "ips" /\ f \in left /\ Readable(f)
  /\ ips' = Updated(ips, IterIps(files[f]))
  /\ left' = left \ {f}
  /\ UNCHANGED <<files, pc, hosts, applies, changed, own>>

SecondPass ==
  /\ pc = "ips" /\ left = {}
  /\ pc' = "hosts" /\ left' = Files
  /\ UNCHANGED <<files, ips, hosts, applies, changed, own>>

(* iter_host_ips runs only when there are floating IPs, and then asks every *)
(* host for its port: a device has none and ends the script.                *)
NoPort(f) ==
  DOMAIN ips # {} /\ \E r \in Resources(files[f]) : r.kind = "device"

ReadHosts(f) ==
  /\ pc = "hosts" /\ f \in left /\ Readable(f) /\ ~NoPort(f)
  /\ hosts' = Append(hosts, IterHosts(files[f]))
  /\ left' = left \ {f}
  /\ UNCHANGED <<files, pc, ips, applies, changed, own>>

(* query_host leaves the loop at the first host of the name: what comes after *)
(* it, in the file or in other files, is not read, nor is a later device     *)
(* asked for its port.                                                      *)
FirstNamed(c, i) ==
  LET name == c.resources[i].name IN
  /\ Named(name) = {}
  /\ \A j \in HostPlaces(c) : c.resources[j].name = name => i <= j

QueryHost(f) ==
  /\ pc = "hosts" /\ f \in left /\ Readable(f)
  /\ \E i \in HostPlaces(files[f]) :
       /\ FirstNamed(files[f], i)
       /\ DOMAIN ips # {} =>
            \A j \in 1 .. i : files[f].resources[j].kind # "device"
       /\ hosts' = <<[j \in {i} |-> HostIp(Parsed(files[f].resources[i]))]>>
  /\ pc' = "found" /\ left' = {}
  /\ UNCHANGED <<files, ips, applies, changed, own>>

(* --list, or --host of a name that no file has.                            *)
Answer ==
  /\ pc = "hosts" /\ left = {}
  /\ pc' = "answered"
  /\ UNCHANGED <<files, left, ips, hosts, applies, changed, own>>

(* The end of the process, after the answer or with an exception: a file is *)
(* of another version or no JSON, or a device is asked for its port.        *)
End ==
  /\ \/ pc \in {"answered", "found"}
     \/ pc \in {"ips", "hosts"} /\ \E f \in left : ~Readable(f)
     \/ pc = "hosts" /\ \E f \in left : NoPort(f)
  /\ pc' = "idle" /\ left' = {} /\ ips' = <<>> /\ hosts' = <<>>
  /\ UNCHANGED <<files, applies, changed, own>>

TerraformApply(f, c) ==
  /\ applies < MaxApplies /\ files[f] # c
  /\ files' = [files EXCEPT ![f] = c]
  /\ applies' = applies + 1
  /\ changed' = TRUE
  /\ own' = own \cup Owned'
  /\ UNCHANGED <<pc, left, ips, hosts>>

Next ==
  \/ Begin \/ SecondPass \/ Answer \/ End
  \/ \E f \in left : ReadIps(f) \/ ReadHosts(f) \/ QueryHost(f)
  \/ \E f \in Files, c \in Contents : TerraformApply(f, c)

Spec == Init /\ [][Next]_vars

-----------------------------------------------------------------------------
TypeOK ==
  /\ files \in [Files -> Contents]
  /\ pc \in {"idle", "ips", "hosts", "answered", "found"}
  /\ left \subseteq Files
  /\ \A p \in DOMAIN ips : <<p, ips[p]>> \in own
  /\ applies \in 0 .. MaxApplies
  /\ changed \in BOOLEAN

Listed == {Host(p) : p \in Places}
OfInstances == {h \in Listed : h.provider = "openstack"}

(* No instance is given an address that was never its own, though the       *)
(* floating IPs are of an earlier reading of the files than the hosts and   *)
(* terraform may have moved them, or replaced the instance, in between; one *)
(* that has since moved to another host is still given out.                 *)
NoForeignAddress ==
  \A h \in OfInstances :
    {<<h.port, h.ansible_host>>, <<h.port, h.access_ip>>}
      \subseteq own \cup {<<h.port, NoIp>>}

(* When no file changed meanwhile, --list has every host of every file, half *)
(* written ones included, at its floating IP wherever that is associated, in *)
(* just its groups, and without access_ip if its metadata asks so; --host    *)
(* says the same of the instance it finds.                                   *)
Unique(name) ==
  \A i, j \in Named(name) : i = j
Floating(r) == {a.ip : a \in {b \in All("association") : b.port = r.port}}
Address(r, direct) == IF Floating(r) = {} THEN {direct} ELSE Floating(r)
Addressed(r, h) ==
  /\ h.ansible_host \in Address(r, IF r.prefer_ipv6 = "1" THEN r.v6 ELSE r.v4)
  /\ h.access_ip \in (IF r.use_access_ip = "0" THEN {NoIp} ELSE Address(r, r.v4))

ListComplete ==
  /\ {h.name : h \in Listed}
       = {r.name : r \in All("instance") \cup All("device")}
  /\ \A r \in {q \in All("instance") : Unique(q.name)} :
       /\ Addressed(r, QueryList.meta[r.name])
       /\ {g \in DOMAIN QueryList.groups : r.name \in QueryList.groups[g]}
            = {IF g = "" THEN "all" ELSE g : g \in Groups(r)}
HostRight ==
  \A h \in OfInstances :
    \E r \in All("instance") : r.name = h.name /\ Addressed(r, h)

QuietListComplete ==
  ~changed =>
    /\ pc = "answered" => ListComplete
    /\ pc = "found" => HostRight
=============================================================================
