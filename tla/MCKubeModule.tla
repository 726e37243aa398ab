---------------------------- MODULE MCKubeModule ----------------------------
(* Instances of KubeModule for TLC.                                         *)
EXTENDS KubeModule, TLC

CONSTANTS h1, h2, o1, o2

TwoHosts == {h1, h2}
Symmetry == Permutations(TwoHosts)
TwoObjects == {o1, o2}
C(state, by, objs, force) ==
  [state |-> state, by |-> by, objs |-> objs, force |-> force]

Calls1 ==
  {C("latest", "files", {o1, o2}, FALSE), C("present", "name", {o1}, FALSE),
   C("absent", "files", {o1, o2}, TRUE), C("absent", "files", {o1, o2}, FALSE),
   C("absent", "name", {o1}, TRUE), C("absent", "name", {o1}, FALSE),
   C("absent", "label", {o1, o2}, FALSE), C("absent", "type", {o1, o2}, FALSE),
   C("stopped", "name", {o1}, FALSE), C("exists", "files", {o1, o2}, FALSE)}
=============================================================================
