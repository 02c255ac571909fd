\* The runs stop when their tests are over.
SPECIFICATION RunSpec
CONSTANTS
    rA = rA
    rB = rB
    vA = vA
    A = A
    B = B
    file = file
    rawFile = rawFile
    k1 = k1
    k2 = k2
    f = f
    g = g
    u = u
    v = v
    w = w
    promote = promote
    Gone = Gone
    BadPath = BadPath
    NoPath = NoPath
    Earlier = Earlier
    Nobody = Nobody
    Session <- MCSession
    RecordRun <- MCRecordRun
    Path <- MCPath
    Scope <- MCScope
    PathOf <- MCPathOf
    RawPathOf <- MCRawPathOf
    ScopeOf <- MCScopeOf
    RawSession <- MCRawSession
    InitialForms = {"absent", "json"}
    Key = {k1, k2}
    Field <- MCField
    Scalar <- MCScalar
    Transformer = {promote}
    Rewrite <- MCRewrite
    Late = {}
    Rejects = {}
    Configs = {}
    Recordings = {}
    Docs <- MCDocs
    PathSets <- MCPathSets
    Priorities = {0}
    MaxTransformers = 1
    Scripts <- MCScripts
    MaxFaults = 1
    EarlierState <- MCEarlierState
INVARIANTS
    PassMeansSame
    NothingRecordedFails
    FilesMatchSessions
PROPERTY
    TestsEnd
CHECK_DEADLOCK FALSE
