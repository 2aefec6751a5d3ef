SPECIFICATION Spec

CONSTANTS
    k1 = k1
    k2 = k2
    r1 = r1
    r2 = r2
    r3 = r3
    Key = {k1}
    LineBreak = {}
    NoKey = NoKey
    Strip <- MCStrip
    Request = {r1, r2}
    Version = {"v1"}
    Label = {"jobs"}
    Wildcard = {}
    Login <- MCLogin
    NonAscii = {}
    Vouchable = {NoKey}
    Environment <- MCNothing
    NoRow = NoRow
    None = None

INVARIANTS
    RejectedByServer

CHECK_DEADLOCK FALSE
