SPECIFICATION Spec

CONSTANTS
    k1 = k1
    k2 = k2
    r1 = r1
    r2 = r2
    r3 = r3
    Key = {k1, k2}
    LineBreak = {k2}
    NoKey = NoKey
    Strip <- MCStrip
    Request = {r1, r2}
    Version = {"v1", "v2"}
    Label = {"jobs", "*", "accented"}
    Wildcard = {"*"}
    Login <- MCLogin
    NonAscii = {"accented"}
    Vouchable = {NoKey, k1}
    Environment <- MCEmbeddings
    NoRow = NoRow
    None = None

SYMMETRY MCRequests

INVARIANTS
    TypeOK
    NullWasComplete
    RefusedOnlyIfRaced
    ClosedUnlessLost
    LinkedOnceIsVerified

PROPERTIES
    KeepsItsPromise

CHECK_DEADLOCK FALSE
