--------------------------- MODULE MCEtcdRestart ---------------------------
(* Instances of EtcdRestart for TLC. *)
EXTENDS EtcdRestart, TLC

CONSTANTS e1, e2, e3

ThreeHosts == {e1, e2, e3}

AllSettings == [deployment : {"host", "docker"}, crosses : BOOLEAN]
HostOnly == [deployment : {"host"}, crosses : {FALSE}]

BackupFaults == {"backup"}
AllFaults == {"interrupt", "backup", "start"}

=============================================================================
