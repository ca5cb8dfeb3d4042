CONSTANTS
    u1 = u1
    u2 = u2
    f1 = f1
    f2 = f2
    p1 = p1
    p2 = p2
    i1 = i1
    i2 = i2
    NoUser = NoUser
    NoIP = NoIP
    Users <- TwoUsers
    Foreign <- OneForeign
    Pods <- OnePod
    IPs <- OneIP
    OperatorEdits <- AnyEdit
    MaxOperator = 2
    MaxLogins = 2
    MaxFaults = 0
    MaxRestarts = 1
SPECIFICATION Spec
CHECK_DEADLOCK FALSE
INVARIANTS TypeOK CacheComplete DuplicatesRemovedUnlessRaced
PROPERTY PrimaryKeepsHostname
