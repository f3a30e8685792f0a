CONSTANTS
    Nothing = Nothing
    Torn = Torn
    Values = {v1, v2}
    Writers = {w1}
    MaxSeq = 1
    Tries = 1
    Store <- cn_settings_save
SYMMETRY Symmetry
SPECIFICATION Spec
INVARIANTS
    OKIsDurable
    LeftoverNeverBlocks
