\* Two runs of VMSMOUNT, one other program, one drive below the scan and two
\* in it, two code pages other than the default.
SPECIFICATION TableSpec
CONSTANTS
    Copies = {v1, v2}
    Others = {o1}
    Dos = Dos
    NoCopy = NoCopy
    FirstAuto = 1
    LastDrive = 3
    MaxFail = 1
    MaxBreak = 1
    Pages = {p1, p2}
    Default = Default
    Mixed = Mixed
    NoTable = NoTable
SYMMETRY Symmetry
INVARIANTS
    CodePageTypeOK
    VectorsLive
    OthersStayHooked
    ChannelsKept
    DrivesServed
    OneCopyScanned
    WritesLive
    TableFollows
