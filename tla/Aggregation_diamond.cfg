SPECIFICATION Spec
CONSTANTS
    u1 = u1
    u2 = u2
    s = s
    mid = mid
    top = top
    Users = {u1, u2}
    Stores = {s}
    Contents = {0, 1, 2}
    Aggs = {mid, top}
    StoresOf <- MCStoresOf
    Upstream <- MCUpstream
    HasExternal = {mid}
    Compute <- MCCompute
    Plans <- MCPlans
    MaxSessions = 2
    NoAgg = NoAgg
    NoUser = NoUser
    NoEnvelope = NoEnvelope
    Undefined = Undefined
    Null = Null
    Nothing = Nothing
INVARIANT TypeOK
INVARIANT EnvelopeHonest
INVARIANT LockedCacheEmpty
INVARIANT IdleMeansCurrent
INVARIANT ReactShowsState
PROPERTY Settles
CHECK_DEADLOCK FALSE
