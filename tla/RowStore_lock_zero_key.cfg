SPECIFICATION Spec
CONSTANTS
    c1 = c1  c2 = c2  c3 = c3
    t1 = t1  t2 = t2
    dek = dek  dek2 = dek2  extra = extra
    Calls = {c1}
    Tabs = {t1, t2}
    Clearers = {}
    Data <- MCData
    Empty = {}
    ZeroKey = zero
    Keys = {dek, dek2, zero}
    NoKey = NoKey
    Epochs = {}
    NoEpoch = NoEpoch
    MaxVersion = 2
    HasLegacyAAD = TRUE
    NoRow = NoRow
    NoHash = NoHash
    NoEntry = NoEntry
    TabOf <- MCTabOf
    Kind <- AllMutate
    MaxAttempts <- MCAttempts
    Fn <- MCFn
    Parse <- MCParse
    PerUser = TRUE
    OptimisticLock = TRUE
    ContentHash = TRUE
    HasGetHash = TRUE
    CodeVersion = 2
    InitialRows <- NewRow
    SessionKeys = {dek}
    PreviousKeys = {NoKey}
    MayLock = {t1}
    HandleKind = "closure"
INVARIANT RowReadable
CHECK_DEADLOCK FALSE
