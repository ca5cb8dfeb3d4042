CONSTANTS
    a1 = a1
    d1 = d1
    p1 = p1
    p2 = p2
    s1 = s1
    s2 = s2
    NoPod = NoPod
    NoSlot = NoSlot
    NoAgent = NoAgent
    Agents <- OneAgent
    Pods <- TwoPods
    Slots <- TwoSlots
    MaxFaults = 1
    Devices <- OneDevice
    Server <- ServerOfAll
    Jumps <- OneDevice
SPECIFICATION CSpec
CHECK_DEADLOCK FALSE
INVARIANTS TypeOK RouteLeadsToListener RouteLeadsToServer
PROPERTIES LoginOnlyWhereListening StaleListenerReleased DeliveredInTheEnd DeviceServedAgain
