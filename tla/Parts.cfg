CONSTANTS
    p1 = p1
    k1 = k1
    Addr = {a1, a2}
    Packet = {p1, err}
    Key = {k1}
    NoKey = NoKey
    KeyOf <- MCKeyOf
    Options <- TwoOptions
    MaxRequests = 2
    EvictBatch = 1
    Shared = Shared
    NoAddr = NoAddr
    MaxTime = 3
    Stream = {s1, s2}
    Null = Null
    Failures = TRUE
    MaxDay = 2
    MaxLines = 4
    LogLine = {l1, l2}
    Character <- MCCharacter
    Files <- MCFiles
    Old <- MCOld
    BufLen = 16
    MaxChr = 2
    Packets <- MCPackets
    page = page
    Thread = {t1, t2}
    Caller = {t1, t2}
    RealCode = RealCode
    Image = {i1, i2, i3}
    NoImage = NoImage
    Own = Own
    Nobody = Nobody
    Func = {f1, f2}
    PageOf <- OnePage
    Detour = {g1, g2}
    EntryPoint = EntryPoint
    Region = {r1, r2}
    PerRegion = 4
    MaxRefused = 1
    Instr <- Movable
    Fillers <- Paddings
    Offsets <- Near
    Distance = 32700
    SizeOfCode = 30
    PrefixBytes <- Usual
    MaxPrefixes = 2
    ModRms <- FewModRms
    Rtm = FALSE
SPECIFICATION PartsSpec
SYMMETRY SameNames
INVARIANT OneStream
INVARIANT ReadAsWritten
INVARIANT MatchesAsWritten
INVARIANT PartsReady
INVARIANT OriginalReached
INVARIANT TrampolinesAccounted
INVARIANT NothingLeft
INVARIANT NoTornCode
 
 
INVARIANT ThreadsAligned
INVARIANT LengthsRight
INVARIANT TargetsFound
PROPERTY LinesWritten
PROPERTY ImplementsTable
PROPERTY ImplementsRedirection
CHECK_DEADLOCK FALSE
