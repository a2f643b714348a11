SPECIFICATION ConsoleSpec
CONSTANTS
    Threads = {main, t1, t2}
    Main = main
    Worker = t2
    NoThread = none
    Receivers <- MCReceivers
    SafeReceivers <- MCSafeReceivers
    RemovableReceivers <- MCNobody
    ReplayedReceivers <- MCSafeReceivers
    LateRegistration = FALSE
    DebugBuild = FALSE
    MsgQueueLimit = 1
    MaxMsgs = 3
    RingSize = 2
    NoMsg = 0
INVARIANTS
    TypeOK
    OrderKept
    ReplayIsSnapshot
    UnsafeOnMainOnly
    FlagAgreesWithReceivers
    ShownOnce
    ShownInOrder
PROPERTIES
    HistorySpec
    PrintsReturn
    QueuesEmptied
CHECK_DEADLOCK FALSE
