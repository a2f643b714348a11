CONSTANTS
    MaxConns = 1
    MaxStarts = 1
    MaxFaults = 1
    Base = 2
    Magic <- ParsedMagic
    SizeBytes = 3
    Limits = {4, 5}
    MaxStream = 4
    MaxPiece = 2
    Descriptors = {0, 3}
    TimeOuts = {1}
    TextSize = 2
    SendBuffer = 2
    ReadBuffer = 1
    MaxAttempts = 2
    MaxSends = 2
    MaxData = 2
    MaxTime = 1
SPECIFICATION NetworkSpec
PROPERTY AttemptTimesOut
CHECK_DEADLOCK FALSE
