----------------------------- MODULE MCEtcdJoin -----------------------------
(* Instances of EtcdJoin for TLC. *)
EXTENDS EtcdJoin, TLC

CONSTANTS e1, e2, e3, e4, e5

ThreeHosts == {e1, e2, e3}
FiveHosts == {e1, e2, e3, e4, e5}
TwoRunning == {{e1, e2}}
NoneOrThreeRunning == {{}, {e1, e2, e3}}

NoFaults == {}
Interrupts == {"interrupt"}
AllFaults == {"interrupt", "check", "member_down"}

=============================================================================
