\* Two timers through every array of the wheel and every phase of the clock.
CONSTANTS
    a = a
    b = b
    Timers = {a, b}
    kSection1Num = 4
    kSection2Num = 2
    kPeriod = 1
    Requests <- NoRace
SPECIFICATION FairSpec
CHECK_DEADLOCK FALSE
INVARIANTS
    FiresOnItsTick
    NeverMissed
PROPERTIES
    TimerFires
