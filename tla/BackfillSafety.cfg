CONSTANTS
    r1 = r1
    r2 = r2
    r3 = r3
    r4 = r4
    ip1 = ip1
    ip2 = ip2
    ssh = ssh
    http = http
    Rows <- FourRows
    IPs <- TwoIPs
    Ports <- TwoPorts
    Kinds <- LoginAndRequest
    Times <- ThreeTimes
    BatchSize = 3
    MaxFaults = 2
    BruteProtocol = "ssh"
    BruteMin = 2
    PortMin = 2
    HttpEnabled = TRUE
    SeverityRules <- Rules
SPECIFICATION Spec
\* Nothing is left to do when every event is classified.
CHECK_DEADLOCK FALSE
SYMMETRY Symmetry
INVARIANTS
    TypeOK
    CommittedInOrder
    EvidenceForClass
PROPERTIES
    NeverReclassified
    CompletedIsTotal
