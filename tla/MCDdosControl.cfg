CONSTANTS
    a1 = a1
    a2 = a2
    p1 = p1
    p2 = p2
    p3 = p3
    err = err
    k1 = k1
    k2 = k2
    k3 = k3
    Addr = {a1, a2}
    Packet = {p1, p2, p3, err}
    Key = {k1, k2, k3}
    NoKey = NoKey
    KeyOf <- MCKeyOf
    Options <- OneOption
    MaxRequests = 2
    EvictBatch = 1
    Shared = Shared
    NoAddr = NoAddr
    MaxTime = 3
SYMMETRY Symmetry
SPECIFICATION ControlSpec
INVARIANT ControlTypeOK
INVARIANT OneEntryPerOwner
INVARIANT NoUnsetRead
INVARIANT RequestsConsistent
INVARIANT BelowLimits
INVARIANT SweepClean
PROPERTY BanHolds
