SPECIFICATION FairSpec
CONSTANTS
    c1 = c1  c2 = c2  c3 = c3
    t1 = t1  t2 = t2
    dek = dek  dek2 = dek2  extra = extra
    Calls = {c1, c2, c3}
    Tabs = {t1, t2}
    Clearers = {c2}
    Data <- MCData
    Empty = {}
    ZeroKey = zero
    Keys = {dek, dek2, zero}
    NoKey = NoKey
    Epochs = {}
    NoEpoch = NoEpoch
    MaxVersion = 2
    HasLegacyAAD = TRUE
    NoRow = NoRow
    NoHash = NoHash
    NoEntry = NoEntry
    TabOf <- MCTabOf
    Kind <- Mixed
    MaxAttempts <- OneAttempt
    Fn <- MCFn
    Parse <- MCParse
    PerUser = TRUE
    OptimisticLock = FALSE
    ContentHash = TRUE
    HasGetHash = TRUE
    CodeVersion = 2
    InitialRows <- PlainRows
    SessionKeys = {dek}
    PreviousKeys = {NoKey}
    MayLock = {t1}
    HandleKind = "closure"
INVARIANT SkipsOnlyNoOps
PROPERTY Settles
CHECK_DEADLOCK FALSE
