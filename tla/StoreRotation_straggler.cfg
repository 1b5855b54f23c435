SPECIFICATION Spec
CONSTANTS
    s1 = s1  s2 = s2
    x = x  y = y
    dek1 = dek1  dek2 = dek2
    RowIds = {x, y}
    Sessions = {s1, s2}
    Data <- MCData
    Empty = {}
    ZeroKey = zero
    Keys = {dek1, dek2, zero}
    OldKey = dek1
    NewKey = dek2
    NoKey = NoKey
    Epochs = {2}
    NewEpoch = 2
    Engines = {"store", "batch"}
    BatchSize = 1
    Rank <- MCRank
    NoEpoch = NoEpoch
    MaxVersion = 2
    CodeVersion = 2
    HasLegacyAAD = TRUE
    NoRow = NoRow
    NoHash = NoHash
    NoCall = NoCall
    MaxCalls = 1
    Change <- MCChange
    OptimisticLock = TRUE
    InitialRows <- MCInitialRows
INVARIANT RetiredRowsReadable
CHECK_DEADLOCK FALSE
