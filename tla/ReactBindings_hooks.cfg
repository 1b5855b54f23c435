\* The hooks of a perKey store and of a collection: effects, calls, faults,
\* locks, another device.
SPECIFICATION Spec
CONSTANTS
    u1 = u1
    u2 = u2
    k1 = k1
    k2 = k2
    one = one
    other = other
    all = all
    Users = {u1, u2}
    Keys = {k1, k2}
    Hooks = {one, other, all}
    Ids = {1, 2}
    RangeTarget = RangeTarget
    NoFetch = NoFetch
    NoSlot = NoSlot
    Null = Null
    NoList = NoList
    None = None
    TargetOf <- MCTargetOf
    Plans <- MCPlans
INVARIANT TypeOK
INVARIANT LoadedAtRest
INVARIANT KeyCurrentAtRest
INVARIANT HashVouches
INVARIANT RangeCurrentAtRest
INVARIANT OnlyCallsFillLocked
INVARIANT ItemsCurrentAtRest
PROPERTY LockedReplacesShown
PROPERTY Settles
\* The app may stop calling.
CHECK_DEADLOCK FALSE
