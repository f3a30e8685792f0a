CONSTANTS
    NoRecord = NoRecord
    Ops = {1, 2}
    Positions = {a, b, page}
    XPointers = {a, b}
SYMMETRY Symmetry
SPECIFICATION Spec
CHECK_DEADLOCK FALSE
INVARIANTS
    EvidenceInv
    RemoteEvidenceSound
    UploadOnlyOverNothing
    OutcomeTruthful
    NetworkOnlyWhenAllowed
    NeverFailsClosed
PROPERTIES
    LocalWriteIsAnImport
