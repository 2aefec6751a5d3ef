SPECIFICATION Spec

CONSTANTS
    Matrix <- MCMatrix
    Model <- MCModel
    Vector = {768}
    Version = {"v1"}
    Start <- MCVerified
    Outcome = {"verified"}
    Remounts = {FALSE}
    MaxClicks = 2
    None = None

PROPERTIES
    NeverTakenAway

CHECK_DEADLOCK FALSE
