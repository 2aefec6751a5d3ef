SPECIFICATION Spec

CONSTANTS
    k1 = k1
    k2 = k2
    k3 = k3
    r1 = r1
    r2 = r2
    r3 = r3
    Key = {k1, k2}
    LineBreak = {}
    NoKey = NoKey
    Strip <- MCStrip
    Request = {r1, r2}
    Touched = {"generation", "embeddings"}
    Model = {"m"}
    Named = {}
    Outcome = {"verified"}
    Reason = {"why"}
    Dim = {"dim"}
    EnvKey = NoKey
    MaxEdits = 0
    NoRow = NoRow
    None = None

INVARIANTS
    SavedCredentialSurvives

SYMMETRY MCRequestsAndKeys

CHECK_DEADLOCK FALSE
