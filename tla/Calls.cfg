CONSTANTS
    Servers <- TwoServers
    Addresses = {"a1", "a2"}
    MaxAddresses = 1
    Wrong = {"second"}
    Fine = 2
    Era = 6
    Delta = 3
    WindowMin = 2
    WindowMax = 4
    Timeout = 3
    Starts = {5}
    HttpHead = 2
    Cap = 4
    HttpAddresses = 2
    Responses <- ServerResponses
    Turns = 4
    MaxData = 2
    FileCap = 1
    MaxAnchors = 2
    EntropyMin = 1
    MaxObjects = 2
    Versions = {1, 2}
    RecordSize = 2
    Inodes = {1, 2, 3}
    MaxEdits = 2
    CAPACITY = 4
    MaxLength = 6
    MaxTableChanges = 2
    Candidates <- CardCandidates
    Expected = "card"
    Devices = {"system", "card", "other"}
    Kind <- KindOn
    Booted <- BootMounts
    MaxMounts = 3
    MaxMountChanges = 2
    Procs = {"p1", "p2"}
    SAMPLE_BYTES = 2
    SAMPLES = 4
    BookSize = 36
    MaxWrites = 2
    MaxCalls = 2
SPECIFICATION FairSpec
INVARIANTS
    NetworkAnswersAreTrue
    StorageAnswersAreTrue
    FailureLeavesNothing
PROPERTIES
    AcceptedWasThere
    CallsReturn
CHECK_DEADLOCK FALSE
