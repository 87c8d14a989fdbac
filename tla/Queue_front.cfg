\* The queue of QueueTest, whose blocks have one slot.
CONSTANTS
    b1 = b1
    b2 = b2
    b3 = b3
    t1 = t1
    t2 = t2
    s1 = s1
    s2 = s2
    s3 = s3
    a1 = a1
    a2 = a2
    a3 = a3
    a4 = a4
    c0 = c0
    c1 = c1
    c2 = c2
    Raw = Raw
    SizeMod = 16
    RingValues = {a1, a2}
    RingCaps = {1, 2, 3}
    MaxRing = 5
    Blocks = {b1, b2, b3}
    Behind <- OneBuffer
    PerBlock = 1
    QueueValues = {a1, a2}
    MaxQueue = 4
    CacheThreads = {t1, t2}
    NumCacheObjects = 1
    NumBufferObjects = 1
    MaxBuffers = 3
    ObjectSizes = {1, 7, 8, 24, 100, 255, 256, 257, 1000, 4095, 4096, 4097, 10000}
    NoCache = NoCache
    Statuses = {s1, s2, s3}
    Arrays = {a1, a2, a3, a4}
    ByteMod = 2
    TextSizes = {0, 1, 2}
    UsedStates = {"Failed", "Eof"}
    Null = Null
    Contexts = {c0, c1, c2}
    MainContext = c0
    DefaultString = DefaultString
    Payloads <- SomePayloads
    PerSecond = 4
    CountMod = 32
    MhzDigits = 2
    CpuLines <- CpuInfo
SPECIFICATION StorageSpec
CHECK_DEADLOCK FALSE
INVARIANTS
    FrontIsOldest
