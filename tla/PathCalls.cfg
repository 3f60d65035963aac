SPECIFICATION Spec
CONSTANTS
    FUcase <- MCFUcase
    FChar <- MCFChar
    Worlds <- MCWorlds
    MaxPath = 40
    MaxFail = 2
    MaxChange = 1
CHECK_DEADLOCK FALSE
INVARIANTS
    TypeOK
    ReachesListed
    LeakBound
    ListedTime
PROPERTIES
    CwdIsDir
    SaysWhatItDid
    OpenMeans
    CallsAdvance
