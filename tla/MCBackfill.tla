------------------------------ MODULE MCBackfill ------------------------------
(***************************************************************************)
(* Instances of Backfill for TLC, with the rules of                        *)
(* config/detection_rules.yaml with smaller numbers.                       *)
(***************************************************************************)
EXTENDS Backfill, TLC

CONSTANTS r1, r2, r3, r4, ip1, ip2, ssh, http

ThreeRows == {r1, r2, r3}
FourRows  == {r1, r2, r3, r4}
TwoIPs    == {ip1, ip2}
OneIP     == {ip1}
TwoPorts  == {ssh, http}
ThreeTimes == {1, 2, 3}

Login   == [port |-> ssh, protocol |-> "ssh", type |-> "ssh_login_attempt",
            injects |-> FALSE, weak |-> FALSE, scans |-> FALSE]
Request == [port |-> http, protocol |-> "http", type |-> "http_request",
            injects |-> FALSE, weak |-> FALSE, scans |-> FALSE]

LoginAndRequest == {Login, Request}

Rules == [HIGH   |-> {[type |-> "brute_force", min |-> 4],
                      [type |-> "command_injection", min |-> 0],
                      [type |-> "credential_attack", min |-> 4]},
          MEDIUM |-> {[type |-> "brute_force", min |-> 3],
                      [type |-> "port_scan", min |-> 0],
                      [type |-> "credential_attack", min |-> 0]}]

Symmetry == Permutations(FourRows) \cup Permutations(TwoIPs)
=============================================================================
