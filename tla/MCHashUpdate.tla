---------------------------- MODULE MCHashUpdate ----------------------------
(* An instance of HashUpdate for TLC: a component with one upstream file    *)
(* for two architectures and two release lines (1-2 and 3), and a dated one *)
(* that is listed by its tags and whose versions read as numbers.           *)
EXTENDS HashUpdate, TLC

CONSTANTS runc, gvisor, amd64, arm64

Info2 ==
  runc :> [tags |-> FALSE, multi |-> TRUE, dated |-> FALSE]
  @@ gvisor :> [tags |-> TRUE, multi |-> FALSE, dated |-> TRUE]
Archs2 == runc :> {amd64, arm64} @@ gvisor :> {amd64, arm64}
First2 == runc :> arm64 @@ gvisor :> arm64
ThreeVersions == 1 .. 3
Numbers2 == runc :> {} @@ gvisor :> ThreeVersions
Line2 == runc :> <<1, 1, 2>> @@ gvisor :> <<1, 2, 3>>

(* The sums of the given versions of both components.                       *)
Sums(known) ==
  [e \in Entries |->
     IF e[3] \in known[e[1]] /\ e[4] = "text" THEN <<e[2], e[3], 1>> ELSE None]
Files2 ==
  {Sums(runc :> {1} @@ gvisor :> {2}), Sums(runc :> {1, 3} @@ gvisor :> {1, 3})}
=============================================================================
