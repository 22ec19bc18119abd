CONSTANTS
    Cores = {c1}
    None = None
    Glyphs = {2000}
    Numbers = {2, 31, 38}
    HMax = 1
    VMax = 1
    SeqMax = 7
    MaxRows = 1
SPECIFICATION Spec
PROPERTIES
    ForegroundApplies
