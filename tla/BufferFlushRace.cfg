CONSTANTS
    e1 = e1
    e2 = e2
    e3 = e3
    loop1 = loop1
    loop2 = loop2
    Events <- ThreeEvents
    Loops <- OneLoop
    MaxBuffer = 3
    MaxRetries = 2
    MaxOutages = 1
    MaxMishaps = 0
SPECIFICATION Spec
\* The honeypot comes to rest when no attack and no outage is left.
CHECK_DEADLOCK FALSE
PROPERTIES
    LeavesBufferPublished
