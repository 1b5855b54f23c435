SPECIFICATION Spec
CONSTANTS
    d1 = d1
    d2 = d2
    c1 = c1
    c2 = c2
    c3 = c3
    unlock1 = unlock1
    again1 = again1
    unlock2 = unlock2
    recover1 = recover1
    register1 = register1
    register2 = register2
    add1 = add1
    words1 = words1
    drive1 = drive1
    drive2 = drive2
    consume2 = consume2
    shake2 = shake2
    fulfil1 = fulfil1
    persist1 = persist1
    restore1 = restore1
    check1 = check1
    check2 = check2
    Devices <- MCDevices
    Creds <- MCCreds
    Ops <- MCOps
    DeviceOf <- MCDeviceOf
    CredOf <- MCCredOf
    Kind <- MCKind
    Plans <- MCPlans
    InitialKey = initialKey
    ZeroKey = zeroKey
    NewKey <- MCNewKey
    HasWrapCache = TRUE
    MayReject <- MCMayReject
    MayReload <- MCMayReload
    NoKey = NoKey
    NoHandle = NoHandle
    NoCred = NoCred
    NoEntry = NoEntry
INVARIANT TypeOK
INVARIANT HandedOutAlive
INVARIANT SavedBeforeUsed
INVARIANT RotationKeyKept
CHECK_DEADLOCK FALSE
