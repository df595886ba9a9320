------------------------------ MODULE Classifier ------------------------------
(***************************************************************************)
(* AttackClassifier and SeverityEvaluator (detection/classifier.py) over   *)
(* the rules of detection/patterns.py: the attack type and the severity of *)
(* an event, given what is known of its source address.                    *)
(*                                                                         *)
(* An event is abstracted to what the rules ask of it: protocol and        *)
(* event_type, whether its path or body holds an injection pattern         *)
(* (injects), whether its credentials are in the weak lists (weak), and    *)
(* whether its path starts like a scanned one (scans).  A context has the  *)
(* number of recent attempts and the set of ports.                         *)
(***************************************************************************)
EXTENDS Naturals, FiniteSets

CONSTANTS
    BruteProtocol,  \* attack_types.brute_force.protocol
    BruteMin,       \* attack_types.brute_force.min_attempts
    PortMin,        \* attack_types.port_scan.min_distinct_ports
    HttpEnabled,    \* attack_types.credential_attack.http_enabled
    SeverityRules   \* HIGH and MEDIUM: conditions [type, min], min 0 for None

AttackTypes == {"command_injection", "credential_attack", "brute_force",
                "port_scan", "http_scan", "suspicious_request"}
Severities  == {"HIGH", "MEDIUM", "LOW"}
Protocols   == {"ssh", "http"}
EventTypes  == {"ssh_login_attempt", "ssh_connection",
                "http_request", "http_login_attempt"}

ASSUME RulesAssumption ==
    /\ BruteProtocol \in Protocols
    /\ BruteMin \in Nat \ {0}
    /\ PortMin \in Nat \ {0}
    /\ HttpEnabled \in BOOLEAN
    /\ SeverityRules \in [{"HIGH", "MEDIUM"} ->
                              SUBSET [type : AttackTypes, min : Nat]]

\* IPContext(): what a failed look-up of the context yields.
NoContext == [attempts |-> 0, ports |-> {}]

IsCommandInjection(e) == e.protocol = "http" /\ e.injects

IsCredentialAttack(e) ==
    /\ e.weak
    /\ \/ e.protocol = "ssh"
       \/ e.protocol = "http" /\ e.type = "http_login_attempt" /\ HttpEnabled

IsBruteForce(e, c) == e.protocol = BruteProtocol /\ c.attempts >= BruteMin

IsPortScan(c) == Cardinality(c.ports) >= PortMin

IsHttpScan(e) == e.protocol = "http" /\ e.scans

\* The first rule that matches, in order of precedence.
AttackType(e, c) ==
    IF IsCommandInjection(e) THEN "command_injection"
    ELSE IF IsCredentialAttack(e) THEN "credential_attack"
    ELSE IF IsBruteForce(e, c) THEN "brute_force"
    ELSE IF IsPortScan(c) THEN "port_scan"
    ELSE IF IsHttpScan(e) THEN "http_scan"
    ELSE "suspicious_request"

Meets(level, type, c) ==
    \E r \in SeverityRules[level] : r.type = type /\ c.attempts >= r.min

\* The LOW rules need no look: LOW is the default as well.
Severity(type, c) ==
    IF Meets("HIGH", type, c) THEN "HIGH"
    ELSE IF Meets("MEDIUM", type, c) THEN "MEDIUM"
    ELSE "LOW"

Classify(e, c) ==
    LET type == AttackType(e, c)
    IN [type |-> type, severity |-> Severity(type, c)]

=============================================================================
