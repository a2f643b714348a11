SPECIFICATION Spec
CONSTANTS
    Threads = {main, t1, t2}
    Main = main
    NoThread = none
    Receivers <- MCReceivers
    SafeReceivers <- MCSafeReceivers
    RemovableReceivers <- MCNobody
    ReplayedReceivers <- MCSafeReceivers
    LateRegistration = FALSE
    DebugBuild = FALSE
    MsgQueueLimit = 1
    MaxMsgs = 3
    RingSize = 2
    NoMsg = 0
INVARIANT OneCallerAtATime
