-------------------------- MODULE MCRollingUpgrade --------------------------
(* Instances of RollingUpgrade for TLC: the runs' .cfg files choose one of  *)
(* the inventories and one of the fault sets below.                         *)
EXTENDS RollingUpgrade, TLC

CONSTANTS c1, c2, w1, w2, w3

OneControlPlane == {c1}
TwoControlPlanes == {c1, c2}
OneWorker == {w1}
TwoWorkers == {w1, w2}
ThreeWorkers == {w1, w2, w3}

\* --limit sets: none, or the documented procedure (control plane, then workers)
WholeInventory == {Node}
Procedure == {Node, CP} \cup {{w} : w \in Workers}

DrainFaults == {"drain"}
DrainReadFaults == {"drain", "read"}
NoReadFaults == {"kubectl", "drain", "upgrade", "interrupt"}

NoNode == {}
FirstWorker == {w1}

Symmetry == Permutations(CP) \cup Permutations(Workers \ Unsteady)
=============================================================================
