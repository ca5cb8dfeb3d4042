CONSTANTS
    u1 = u1
    u2 = u2
    f1 = f1
    f2 = f2
    p1 = p1
    p2 = p2
    i1 = i1
    i2 = i2
    NoUser = NoUser
    NoIP = NoIP
    Users <- OneUser
    Foreign <- OneForeign
    Pods <- OnePod
    IPs <- OneIP
    OperatorEdits <- TagThenDelete
    MaxOperator = 3
    MaxLogins = 1
    MaxFaults = 0
    MaxRestarts = 0
SPECIFICATION FairSpec
CHECK_DEADLOCK FALSE
PROPERTY SettledLoginPublished
