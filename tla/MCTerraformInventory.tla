------------------------ MODULE MCTerraformInventory ------------------------
(* Instances of TerraformInventory for TLC: two clusters, one of them with  *)
(* several contents that terraform may write.                               *)
EXTENDS TerraformInventory

CONSTANTS fa, fb

TwoFiles == {fa, fb}
Names == [g \in {"etcd", "k8s-cluster", "k8s_cluster"} |->
            IF g = "etcd" THEN g ELSE "k8s_cluster"]

Master(port, access) ==
  Instance("master", port, "v4-" \o port, "v6-" \o port, "none", access,
           {"etcd", "k8s-cluster"})
Node(port, prefer) ==
  Instance("node", port, "v4-" \o port, "v6-" \o port, prefer, "none",
           {"", "k8s_cluster"})

\* The floating IPs of the two hosts, exchanged, given up, and one for a
\* replaced instance.
Floats ==
  State(4, <<Association("p1", "f1"), Association("p2", "f2"),
             Master("p1", "0"), Node("p2", "1")>>)
Swapped ==
  State(4, <<Master("p1", "1"), Node("p2", "true"),
             Association("p1", "f2"), Association("p2", "f1")>>)
Without == State(3, <<Master("p1", "1"), Node("p2", "1")>>)
Replaced ==
  State(4, <<Association("p3", "f1"), Association("p3", "f2"),
             Master("p3", "none")>>)
\* A write of them that is not finished.
Torn == State(0, Floats.resources)
\* Another cluster: a device, an instance of a name that is in use, and
\* an association for a port of the first cluster.
Metal == State(4, <<Device("metal", "m1", {"etcd"})>>)
SameName == State(4, <<Node("p4", "none"), Device("metal", "m1", {"etcd"})>>)
Elsewhere == State(3, <<Association("p2", "f3")>>)

AllContents ==
  {Floats, Swapped, Without, Replaced, Torn, Metal, SameName, Elsewhere}
Starts == [TwoFiles -> AllContents]
=============================================================================
