SPECIFICATION Spec

CONSTANTS
    k1 = k1
    k2 = k2
    k3 = k3
    r1 = r1
    r2 = r2
    r3 = r3
    Key = {k1, k3}
    LineBreak = {}
    NoKey = NoKey
    Strip <- MCPadded
    Request = {r1}
    Touched = {"generation"}
    Model = {"m", "n"}
    Named = {"n"}
    Outcome = {"verified"}
    Reason = {"why"}
    Dim = {}
    EnvKey = NoKey
    MaxEdits = 0
    NoRow = NoRow
    None = None

INVARIANTS
    SavedIsUsable

CHECK_DEADLOCK FALSE
