CONSTANTS
    Documents = {"asked", "other"}
    Asked = "asked"
    Blocks = {"b1", "b2", "b3"}
    MaxMembers = 4
    MaxCalls = 2
    MaxUnits = 3
    TextCap = 5
    TextBytes <- EdgeBytes
    MaxBytes = 4
    DeviceMax = 3
    Schemes = {"http", "https", "other"}
    Pieces <- UrlPieces
    MaxPieces = 4
    NameLengths = {1, 255, 256}
    BodyDigits = {1, 6}
    PacketLen = 5
    PacketBytes = {0, 1, 2, 97, 192}
    HopsMax = 2
    WireMax = 5
    HostMax = 3
    UINT_MAX = 15
    MaxNumber = 21
    MountTexts <- MountRoots
    OptionLists <- MountOptions
    OptionalLists <- MountTags
    Chars <- PathChars
    Capacity = 6
    Suffix = 2
    MaxRoot = 7
    Stores = {"settings", "credentials"}
    MaxEdits = 2
    CELL = 5
    TOKEN = 2
    LOCATION = 2
    MaxProgress = 2
    MaxCellEdits = 1
    DIGITS = 2
    BASIS = 37
    PRIME = 179
    PATH_MAX = 3
    PathBytes = {47, 50, 195}
SPECIFICATION Spec
INVARIANTS
    WrittenIsReadBack
    RulesAgree
PROPERTIES
    CallersRecordKept
CHECK_DEADLOCK FALSE
