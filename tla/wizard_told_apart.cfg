SPECIFICATION Spec

CONSTANTS
    Matrix <- MCMatrix
    Model <- MCModel
    Vector = {768}
    Version = {"v1"}
    Start <- MCVerified
    Outcome = {"verified", "credential_rejected", "quota_exceeded"}
    Remounts = {FALSE}
    MaxClicks = 1
    None = None

INVARIANTS
    ToldApart

CHECK_DEADLOCK FALSE
