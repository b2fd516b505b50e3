CONSTANTS
    a1 = a1
    a2 = a2
    chk = chk
    bad = bad
    ok = ok
    any = any
    err = err
    k1 = k1
    k2 = k2
    k3 = k3
    k4 = k4
    Addr = {a1, a2}
    Packet = {chk, bad, err}
    Key = {k1, k2, k3, k4}
    NoKey = NoKey
    KeyOf <- MCKeyOf
    Options <- MCOptions
    MaxRequests = 2
    EvictBatch = 1
    Shared = Shared
    NoAddr = NoAddr
    MaxTime = 3
    CvarSettings <- BanOrNot
    BanRange <- R1_4
    WindowRange <- R1_4
    SingleRange <- R2_4
    TotalRange <- R2_3
    Empty = Empty
    Configs <- PlainConfig
    Commands = {}
    MapChanges = FALSE
    Stream = {s1}
    Null = Null
    Failures = FALSE
    MaxDay = 1
    DayLength = 2
    QuietTime = 1
    Flags <- LogOnly
SPECIFICATION ReportSpec
SYMMETRY Addresses
INVARIANT VerdictFresh
INVARIANT LogOrdered
INVARIANT OneLinePerBan
INVARIANT QuietBetween
PROPERTY BanNotProlonged
