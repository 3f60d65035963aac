SPECIFICATION Spec
CONSTANTS
    Sfts = {a}
    Word = 4
    Dword = 8
    MaxData = 2
    Modes = {"r", "w", "rw"}
    MaxSize = 7
    MaxFail = 0
    MaxOther = 1
    MayBreak = FALSE
INVARIANT
    ReadFitsBuffer
