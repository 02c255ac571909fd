\* Two runs of one test.
SPECIFICATION Spec
CONSTANTS
    key = key
    a = a
    b = b
    dotted = dotted
    apostrophe = apostrophe
    zero = zero
    padded = padded
    x = x
    y = y
    one = one
    NotANumber = NotANumber
    Placeholder = Placeholder
    Name <- MCName
    AsIndex <- MCAsIndex
    Decimals = {zero}
    Unquotable = {apostrophe}
    Node = {x, y, one, Placeholder}
    Pairs <- MCPairs
    SnapshotKey = key
    Special = {dotted, apostrophe}
    TypeOf <- MCTypeOf
    Edits <- MCEdits
    States <- MCStates
    Expressions <- MCExpressions
    MaxPaths = 2
    Written <- MCWritten
INVARIANT
    IgnoreListPasteable
CHECK_DEADLOCK FALSE
