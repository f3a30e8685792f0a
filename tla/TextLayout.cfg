CONSTANTS
    MAX_CP = 5
    MAX_LIB_CP = 2
    MaxText = 5
    Widths = {0, 2, 3}
SPECIFICATION Spec
INVARIANT TitleInBand
CHECK_DEADLOCK FALSE
