\* Sessions stop when they have ended.
SPECIFICATION Spec
CONSTANTS
    a = a
    b = b
    c = c
    d = d
    file = file
    rawFile = rawFile
    k1 = k1
    k2 = k2
    NoPath = NoPath
    Earlier = Earlier
    Nobody = Nobody
    Session <- MCSession
    Path <- MCPath
    Scope <- MCScope
    PathOf <- MCPathOf
    RawPathOf <- MCRawPathOf
    ScopeOf <- MCScopeOf
    RawSession <- MCRawSession
    InitialForms = {"absent", "json"}
INVARIANT
    LoadsAreWhole
CHECK_DEADLOCK FALSE
