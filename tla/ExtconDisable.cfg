SPECIFICATION Spec
CONSTANTS
    Main = main
    Worker = worker
    Printers = {p1}
    NoThread = none
    MaxQueueSize = 1
    Lost <- MCLost
    Kinds = {"command"}
    ClientsLeave = FALSE
    ClientsStall = FALSE
    ServerFaults = FALSE
    MaxPrints = 1
    MaxClients = 1
    MaxPayloads = 0
    MaxEnables = 1
    MaxDisables = 1
    RingSize = 2
    NoMsg = 0
INVARIANT DisableCloses
CHECK_DEADLOCK FALSE
