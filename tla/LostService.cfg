CONSTANTS
    u1 = u1
    u2 = u2
    f1 = f1
    f2 = f2
    p1 = p1
    p2 = p2
    i1 = i1
    i2 = i2
    NoUser = NoUser
    NoIP = NoIP
    Users <- OneUser
    Foreign <- NoForeign
    Pods <- OnePod
    IPs <- OneIP
    OperatorEdits <- NoEdits
    MaxOperator = 0
    MaxLogins = 1
    MaxFaults = 1
    MaxRestarts = 0
SPECIFICATION Spec
CHECK_DEADLOCK FALSE
INVARIANT RoutedServiceExists
