SPECIFICATION FairSpec
CONSTANTS
    Main = main
    Worker = worker
    Printers = {p1}
    NoThread = none
    MaxQueueSize = 1
    Lost <- MCLost
    Kinds = {"command"}
    ClientsLeave = FALSE
    ClientsStall = FALSE
    ServerFaults = FALSE
    MaxPrints = 2
    MaxClients = 1
    MaxPayloads = 1
    MaxEnables = 1
    MaxDisables = 0
    RingSize = 2
    NoMsg = 0
PROPERTY WaitEnds
CHECK_DEADLOCK FALSE
