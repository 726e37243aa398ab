------------------------- MODULE MCOpenStackCleanup -------------------------
(* An instance of OpenStackCleanup for TLC: an old network with a server,   *)
(* a floating IP and a router's interface, and young resources that may     *)
(* stand on it or on a network of their own.                                *)
EXTENDS OpenStackCleanup, TLC

CONSTANTS vm, vmPort, spare, ip, key, net, subnet, iface, group, default,
          young, youngPort, youngNet, youngSubnet, lateSubnet, stray,
          youngIp

OldOnes == {vm, vmPort, spare, ip, key, net, subnet, iface, group, default, stray}
All == OldOnes \cup {young, youngPort, youngNet, youngSubnet, lateSubnet, youngIp}

Kinds1 ==
  [r \in All |->
     CASE r \in {vm, young} -> "server"
       [] r \in {vmPort, spare, iface, youngPort, stray} -> "port"
       [] r \in {subnet, youngSubnet, lateSubnet} -> "subnet"
       [] r \in {net, youngNet} -> "network"
       [] r \in {group, default} -> "group"
       [] r \in {ip, youngIp} -> "ip"
       [] r = key -> "keypair"]

(* youngPort stands on the old subnet, stray is an old interface on a    *)
(* young subnet, lateSubnet a young subnet of the old network.              *)
Uses1 ==
  (vmPort :> {subnet, group} @@ spare :> {subnet, default} @@ ip :> {vmPort} @@ youngIp :> {spare}
     @@ subnet :> {net} @@ iface :> {subnet} @@ youngPort :> {subnet, group}
     @@ youngSubnet :> {youngNet} @@ lateSubnet :> {net}
     @@ stray :> {youngSubnet})
  @@ [r \in All |-> {}]
Owner1 ==
  (vmPort :> vm @@ youngPort :> young) @@ [r \in All |-> NoOwner]
Routed == {iface, stray}
NotManaged == {default}
Young1 == {youngNet, youngSubnet}
Starts ==
  {OldOnes \ {stray}, OldOnes \ {stray, ip},
   OldOnes \cup Young1, (OldOnes \ {stray, iface}) \cup {young}}
=============================================================================
