\* Two services with one socket each, one of them interrupted; a service that
\* sleeps for no tick and for one, and registers twice; timers of one and of two
\* ticks.
CONSTANTS
    s1 = s1
    s2 = s2
    f1 = f1
    f3 = f3
    None = None
    Services = {s1, s2}
    FDs = {f1, f3}
    Uses <- UsesOne
    Fragile = {f1}
    Interruptible = {s1}
    Sleepers = {s1}
    SleepTimes = {0, 1}
    kPeriod = 2
    MaxLeft = 2
    MaxAge = 2
    MaxArmed = 1
    IdleTimes = {1}
    min_interval_ms = 2
    kDefaultInterval = 4
    MaxAdds = 2
SPECIFICATION WaitingSpec
CHECK_DEADLOCK FALSE
INVARIANTS
    SleepsWhole
PROPERTIES
    ReadinessIsDelivered
    SleepEnds
    IdleIsInterrupted
