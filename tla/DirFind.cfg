SPECIFICATION Spec
CONSTANTS
    a = a
    b = b
    c = c
    Names <- MCNames
    ReadOnly <- MCReadOnly
    Masks <- MCMasks
    Moves <- MCMoves
    Dtas = {d1, d2}
    Handles = {h1, h2}
    NoHandle = NoHandle
    NoSearch = NoSearch
    NoName = NoName
    MaxFail = 1
    MaxDrop = 1
SYMMETRY Symmetry
INVARIANTS
    SearchInOrder
    LeakBound
    SearchesKept
PROPERTIES
    EndMeansAll
    DeletesTheMatches
    RenamesTheMatches
    CallsAdvance
