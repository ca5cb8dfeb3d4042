CONSTANTS
    gateway = gateway
    agent = agent
    Opener = gateway
    Acceptor = agent
    Window = 2
    MaxPacket = 1
    Bytes <- BothWays
    MaxQueue = 2
SPECIFICATION FairSpec
INVARIANTS TypeOK ArrivingDataFits NoMessageForFreed
PROPERTIES StreamToAcceptor StreamToOpener FlowToAcceptor FlowToOpener ChannelFreed
