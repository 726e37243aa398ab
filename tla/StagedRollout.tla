---------------------------- MODULE StagedRollout ----------------------------
(***************************************************************************)
(* What upgrade_cluster.yml promises, without saying how: nodes are        *)
(* upgraded through maintenance windows.  A window holds one control plane *)
(* node, or a set of workers out of Windows, once every API server is new;       *)
(* versions change only inside the window and never go back.               *)
(***************************************************************************)
CONSTANTS
    CP, Workers,
    Windows     \* the sets of workers that may be in maintenance together

VARIABLES kubelet, api, window
vars == <<kubelet, api, window>>

Init ==
    /\ kubelet = [n \in CP \cup Workers |-> "old"]
    /\ api = [c \in CP |-> "old"]
    /\ window = {}

OpenControlPlane(c) ==
    /\ window = {}
    /\ window' = {c}
    /\ UNCHANGED <<kubelet, api>>

OpenWorkers(S) ==
    /\ window = {}
    /\ \A c \in CP : api[c] = "new"
    /\ window' = S
    /\ UNCHANGED <<kubelet, api>>

UpgradeKubelet(n) ==
    /\ n \in window
    /\ kubelet' = [kubelet EXCEPT ![n] = "new"]
    /\ UNCHANGED <<api, window>>

UpgradeApi(c) ==
    /\ c \in window
    /\ api' = [api EXCEPT ![c] = "new"]
    /\ UNCHANGED <<kubelet, window>>

Close ==
    /\ window' = {}
    /\ UNCHANGED <<kubelet, api>>

Next ==
    \/ \E c \in CP : OpenControlPlane(c) \/ UpgradeApi(c)
    \/ \E S \in Windows : OpenWorkers(S)
    \/ \E n \in CP \cup Workers : UpgradeKubelet(n)
    \/ Close

Spec == Init /\ [][Next]_vars
=============================================================================
