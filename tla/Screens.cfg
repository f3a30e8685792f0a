CONSTANTS
    Libraries <- SmallLibraries
    Rows = 2
    LastPage = 1
    Feedbacks = {"WORKING", "STALE"}
    MaxTestPage = 2
    MaxDialogs = 1
    SessionLibraries <- OneBook
    SessionTestPage = 1
    Positions = {"first", "second", "inside_second", "elsewhere"}
    XPointers = {"first", "second", "inside_second", "elsewhere"}
    NoRecord = "no record"
    PageOf <- PageOfPoint
    PageStart <- PageStarts
    Books = {"b1", "b2"}
    Points <- BookPoints
    PerPage <- PointsPerPage
    Default = 2
    Fonts = {"f1", "f2", "f3"}
    Broken = {"f3"}
    NoBook = "no book"
    NoFont = "no font"
    Entries <- DirectoryEntries
    MaxEntries = 3
    CapInit = 1
    MAX_CP = 5
    MAX_LIB_CP = 2
    MaxText = 5
    LineWidths = {0, 2, 3}
    TextFields = 2
    FieldCapacity = 1
    BufferCapacity = 3
    CharWidths = {2, 5}
    Available = 6
    Stops = 3
SPECIFICATION FairSpec
INVARIANTS
    SyncKeepsFaith
    ScreensConsistent
    FormConsistent
    PagesAndLinesCorrect
PROPERTIES
    ScreenFollowsState
    WorkEnds
CHECK_DEADLOCK FALSE
