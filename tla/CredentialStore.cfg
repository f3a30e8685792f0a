CONSTANTS
    Nothing = Nothing
    Torn = Torn
    Values = {v1, v2}
    Writers = {w1}
    MaxSeq = 2
    Tries = 2
    Store <- cn_credential_store_save
SYMMETRY Symmetry
SPECIFICATION Spec
PROPERTIES
    RegisterSpec
