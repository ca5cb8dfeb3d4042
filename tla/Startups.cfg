CONSTANTS
    c1 = c1
    c2 = c2
    c3 = c3
    host1 = host1
    host2 = host2
    NoLimit = NoLimit
    NoFd = NoFd
    NoClient = NoClient
    Closed = Closed
    Clients <- ThreeClients
    Sources <- Hosts
    Source <- HostOf
    Begin = 1
    Full = 2
    AlwaysDrop = FALSE
    PerSource = 1
    MaxHups = 2
    MaxFailures = 3
SPECIFICATION FairSpec
CHECK_DEADLOCK FALSE
INVARIANTS TypeOK StartupsExact SourceLimited TableInStep
PROPERTIES RestartSparesChildren NeverLockedOut HupObeyed
