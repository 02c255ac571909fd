\* A walk ends, and so does the one of the second run.
SPECIFICATION FairSpec
CONSTANTS
    a = a
    b = b
    c = c
    text = text
    empty = empty
    body = body
    NoTag = NoTag
    Dash = Dash
    Null = Null
    Recursion = Recursion
    MaxDepthExceeded = MaxDepthExceeded
    Drained = Drained
    Unknown = Unknown
    NotANumber = NotANumber
    MaxDepth = 2
    Name <- MCName
    AsIndex <- MCAsIndex
    Decimals = {}
    Unquotable = {}
    Node <- MCNode
    Heaps <- EmbeddedCycleHeaps
PROPERTY
    AlwaysTerminates
CHECK_DEADLOCK FALSE
