\* s1, with two sockets, may be interrupted at any time; s2 is left alone.
CONSTANTS
    s1 = s1
    s2 = s2
    f1 = f1
    f2 = f2
    f3 = f3
    None = None
    Services = {s1, s2}
    FDs = {f1, f2, f3}
    Uses <- UsesTwo
    Fragile = {f1}
    Interruptible = {s1}
SPECIFICATION Spec
CHECK_DEADLOCK FALSE
INVARIANTS
    NoLostReadiness
    NoStaleReadiness
    UninterruptedReads
