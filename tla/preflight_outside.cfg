SPECIFICATION FairSpec

CONSTANTS
    k1 = k1
    k2 = k2
    k3 = k3
    r1 = r1
    r2 = r2
    r3 = r3
    Key = {k1, k2, k3}
    LineBreak = {k3}
    NoKey = NoKey
    Strip <- MCStrip
    Request = {r1, r2}
    Touched = {"generation", "embeddings"}
    Model = {"m"}
    Named = {}
    Outcome = {"verified", "capability_unverified", "provider_unreachable"}
    Reason = {"why"}
    Dim = {"dim"}
    EnvKey = k2
    MaxEdits = 1
    NoRow = NoRow
    None = None

INVARIANTS
    NoUseWithoutProbe
    SavedIsUsable

PROPERTIES
    EveryRequestEnds

CHECK_DEADLOCK FALSE
