SPECIFICATION AppSpec
CONSTANTS
    Parts = {"loop", "items", "files", "prof", "text", "argv", "number", "stream", "names", "output"}
    Main = main
    WritersFirst = FALSE
    Items <- MCItems
    Name <- MCName
    Kind <- MCKind
    StaticItems = {"k", "h"}
    Lines <- MCLines
    Values = {"0", "1"}
    Default = "0"
    Posters = {p1}
    NoItem = "noitem"
    NoArg = "none"
    MaxConsoles = 2
    Bounds <- MCBounds
    RootName = "Main Loop"
    SectionNames = {"A", "B"}
    NoSection = NoSection
    MaxFrames = 3
    MaxDepth = 2
    MaxNodes = 3
    Width <- MCWidth
    MaxDigits = 70
    Base = 4
    Magic <- MCMagic
    MaxPayloadSize = 24
    BufferSize = 40
    BigHost = TRUE
INVARIANTS
    AppTypes
    CommandsKept
    LiveItemsFound
    ReaderUsesLive
    LookupsRight
    ProfileTree
    CmdsRight
    ArgumentsRight
    ConversionsRight
    ReadsMirrorWrites
    MessagesReceived
PROPERTIES
    PostReturns
    CommandsRun
    LookupsReturn
CHECK_DEADLOCK FALSE
