CONSTANTS
    Cores = {c1, c2}
    None = None
    Glyphs = {2000}
    Numbers = {31, 38}
    HMax = 2
    VMax = 2
    SeqMax = 3
    MaxRows = 3
SPECIFICATION Spec
INVARIANTS
    ScreenIsTail
