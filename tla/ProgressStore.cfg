CONSTANTS
    Nothing = Nothing
    Torn = Torn
    Values = {v1, v2}
    Writers = {w1, w2}
    MaxSeq = 1
    Tries = 1
    Store <- cn_progress_store_save
SYMMETRY Symmetry
SPECIFICATION Spec
INVARIANTS
    ReplaceInv
    LoadNeverCorrupt
PROPERTIES
    RegisterSpec
