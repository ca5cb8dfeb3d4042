CONSTANTS
    TicksPerSecond = 2
    ClientAliveInterval = 2
    ClientAliveCounts = {0, 1, 2}
    ServerAliveInterval = 2
    ServerAliveCounts = {0, 1, 2}
    MaxDelay = 1
    Jitter = 1
    MaxTime = 40
    MaxEvents = 1
SPECIFICATION Spec
CHECK_DEADLOCK FALSE
INVARIANTS TypeOK SilentServerLeft SilentClientLeft
PROPERTY NoFalseTimeout
