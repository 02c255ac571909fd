\* A round trip ends with the verdict.
SPECIFICATION Spec
CONSTANTS
    k = k
    a = a
    b = b
    meta = meta
    headers = headers
    type = type
    status = status
    id = id
    other = other
    word = word
    stamp = stamp
    Quote = Quote
    Backslash = Backslash
    Blank = Blank
    NotANumber = NotANumber
    Recording = Recording
    Verifying = Verifying
    Context = {Recording, Verifying}
    Symbol <- MCSymbol
    Rank <- MCRank
    Name <- MCName
    AsIndex <- MCAsIndex
    Decimals = {}
    Unquotable = {}
    Node <- MCNode
    Content <- MCContent
    Fixed <- MCFixed
    ResponseMetadata <- MCMeta
    HTTPHeaders <- MCHeaders
    ContentType <- MCType
    HTTPStatusCode <- MCStatus
    Setups <- MCSetups
INVARIANTS
    TypeOK
    OnePlaceholder
    PlaceholdersOrdered
    PassIffRenamed
    ReferencesReplaced
    NothingMerges
    ReorderedPasses
    EveryKeyReplaced
    NestedStringsParsed
CHECK_DEADLOCK FALSE
