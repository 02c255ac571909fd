\* A session stops when its test is over.
SPECIFICATION Spec
CONSTANTS
    s1 = s1
    k1 = k1
    k2 = k2
    f = f
    g = g
    u = u
    v = v
    w = w
    promote = promote
    finalize = finalize
    replace = replace
    reject = reject
    Gone = Gone
    BadPath = BadPath
    Session = {s1}
    Key = {k1, k2}
    Field <- MCField
    Scalar <- MCScalar
    Transformer = {promote, finalize, replace, reject}
    Rewrite <- MCRewrite
    Late <- MCLate
    Rejects <- MCRejects
    Configs <- Config
    Recordings <- MCRecordings
    Docs <- MCDocs
    PathSets <- MCPathSets
    Priorities = {0, 1}
    MaxTransformers = 2
CONSTRAINT
    Bounded
INVARIANT
    SwitchedOffNeverFails
CHECK_DEADLOCK FALSE
