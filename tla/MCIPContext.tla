------------------------------ MODULE MCIPContext ------------------------------
(***************************************************************************)
(* Instances of IPContext for TLC.  The rules are those of                 *)
(* config/detection_rules.yaml with smaller numbers.                       *)
(***************************************************************************)
EXTENDS IPContext, TLC

CONSTANTS w1, w2, ip1, ip2, ssh, http

TwoWorkers == {w1, w2}
OneIP      == {ip1}
TwoIPs     == {ip1, ip2}
TwoPorts   == {ssh, http}

Login   == [port |-> ssh, protocol |-> "ssh", type |-> "ssh_login_attempt",
            injects |-> FALSE, weak |-> FALSE, scans |-> FALSE]
Request == [port |-> http, protocol |-> "http", type |-> "http_request",
            injects |-> FALSE, weak |-> FALSE, scans |-> FALSE]

LoginAndRequest == {Login, Request}

Rules == [HIGH   |-> {[type |-> "brute_force", min |-> 4],
                      [type |-> "command_injection", min |-> 0],
                      [type |-> "credential_attack", min |-> 4]},
          MEDIUM |-> {[type |-> "brute_force", min |-> 3],
                      [type |-> "port_scan", min |-> 0],
                      [type |-> "credential_attack", min |-> 0]}]

Symmetry == Permutations(TwoWorkers) \cup Permutations(TwoIPs)
=============================================================================
