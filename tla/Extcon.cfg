INIT ExtconInit
NEXT ExtconNext
CONSTANTS
    Main = main
    Worker = worker
    Printers = {p1}
    NoThread = none
    MaxQueueSize = 2
    Lost <- MCLost
    Kinds = {"command", "unknown", "junk"}
    ClientsLeave = TRUE
    ClientsStall = TRUE
    ServerFaults = TRUE
    MaxPrints = 2
    MaxClients = 2
    MaxPayloads = 2
    MaxEnables = 2
    MaxDisables = 1
    RingSize = 2
    NoMsg = 0
INVARIANTS
    TypeOK
    StateMatchesClient
    CommandsInOrder
    FeedDelivered
    FeedComplete
CHECK_DEADLOCK FALSE
