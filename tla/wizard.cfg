SPECIFICATION FairSpec

CONSTANTS
    Matrix <- MCMatrix
    Model <- MCModel
    Vector = {768}
    Version = {"v1"}
    Start <- MCStart
    Outcome = {"quota_exceeded", "provider_unreachable"}
    Remounts = {FALSE}
    MaxClicks = 2
    None = None

INVARIANTS
    TypeOK
    OptionNeverRefused

PROPERTIES
    LatestUnlessCrossed
    SentBackOnlyByOldLatch
    RedirectsSettle
    EveryClickEnds

CHECK_DEADLOCK FALSE
