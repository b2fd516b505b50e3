CONSTANTS
    a1 = a1
    a2 = a2
    chk = chk
    bad = bad
    ok = ok
    any = any
    err = err
    k1 = k1
    k2 = k2
    k3 = k3
    k4 = k4
    Addr = {a1, a2}
    Packet = {chk, bad, any}
    Key = {k1, k2, k3, k4}
    NoKey = NoKey
    KeyOf <- MCKeyOf
    Options <- MCOptions
    MaxRequests = 2
    EvictBatch = 1
    Shared = Shared
    NoAddr = NoAddr
    MaxTime = 5
    CvarSettings <- OneSetting
    BanRange <- R1_4
    WindowRange <- R1_4
    SingleRange <- R2_4
    TotalRange <- R2_4
    Empty = Empty
    Configs <- PlainConfig
    Commands = {"list", "clear", "remove"}
    MapChanges = FALSE
    SentBound = 1
SPECIFICATION HistorySpec
INVARIANT ClearedAll
