CONSTANTS
    w1 = w1
    w2 = w2
    ip1 = ip1
    ip2 = ip2
    ssh = ssh
    http = http
    Workers <- TwoWorkers
    IPs <- TwoIPs
    Ports <- TwoPorts
    Kinds <- LoginAndRequest
    Window = 2
    TTL = 3
    MaxTime = 5
    MaxEvents = 3
    MaxFaults = 1
    BruteProtocol = "ssh"
    BruteMin = 2
    PortMin = 2
    HttpEnabled = TRUE
    SeverityRules <- Rules
SPECIFICATION Spec
\* The bounded clock stops and every event is classified.
CHECK_DEADLOCK FALSE
SYMMETRY Symmetry
INVARIANTS
    TypeOK
    CountsOnlyTheWindow
    BurstIsCaught
