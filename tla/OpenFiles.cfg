SPECIFICATION Spec
CONSTANTS
    Sfts = {s1, s2}
    NoSft = NoSft
    Handles = {h1, h2}
    Files = {f1, f2}
    NoFile = NoFile
    NoHandle = NoHandle
    FirstSlot = 4
    JftSize = 6
    MaxDepth = 2
    MaxOther = 1
    MaxFail = 1
SYMMETRY Symmetry
INVARIANTS
    TypeOK
    NoLeak
    LeakBound
    Owned
PROPERTIES
    StampIsLast
    HandlesDenoteFiles
