SPECIFICATION Spec
CONSTANTS
    a = a
    b = b
    c = c
    Names <- MCNames
    ReadOnly <- MCReadOnly
    Masks <- MCMasks
    Moves <- MCMoves
    Dtas = {d1}
    Handles = {h1, h2}
    NoHandle = NoHandle
    NoSearch = NoSearch
    NoName = NoName
    MaxFail = 1
    MaxDrop = 0
PROPERTY
    DeleteSucceeds
