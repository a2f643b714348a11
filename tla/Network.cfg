CONSTANTS
    MaxConns = 3
    MaxStarts = 2
    MaxFaults = 2
    Base = 2
    Magic <- ParsedMagic
    SizeBytes = 3
    Limits = {4, 5}
    MaxStream = 11
    MaxPiece = 3
    Descriptors = {0, 3}
    TimeOuts = {1}
    TextSize = 2
    SendBuffer = 2
    ReadBuffer = 1
    MaxAttempts = 2
    MaxSends = 2
    MaxData = 2
    MaxTime = 1
SPECIFICATION NetworkSpec
INVARIANTS
    NetworkTypes
    ListsAgree
    ClosedOnce
    EventsServed
    UserDataLive
    ParsesStream
    NoDescriptorLost
    MessagesWhole
PROPERTIES
    ClosingEnds
    CallsEnd
    ClientServed
CHECK_DEADLOCK FALSE
