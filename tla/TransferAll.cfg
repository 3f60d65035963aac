SPECIFICATION LiveSpec
CONSTANTS
    Sfts = {a}
    Word = 4
    Dword = 6
    MaxData = 2
    Modes = {"r", "w", "rw"}
    MaxSize = 5
    MaxFail = 2
    MaxOther = 1
    MayBreak = TRUE
INVARIANTS
    WithinBounds
    SizeInStep
PROPERTIES
    ReturnsCount
    SuccessIsComplete
    CallsReturn
