CONSTANTS
    NoRecord = NoRecord
    Ops = {1}
    Positions = {a, b, page}
    XPointers = {a, b}
SPECIFICATION FairSpec
CHECK_DEADLOCK FALSE
PROPERTIES
    OperationEnds
    ContractSpec
