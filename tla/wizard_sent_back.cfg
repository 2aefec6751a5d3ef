SPECIFICATION Spec

CONSTANTS
    Matrix <- MCMatrix
    Model <- MCModel
    Vector = {768}
    Version = {"v1"}
    Start <- MCVerified
    Outcome = {"verified"}
    Remounts = {FALSE}
    MaxClicks = 1
    None = None

PROPERTIES
    NeverSentBack

CHECK_DEADLOCK FALSE
