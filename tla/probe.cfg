SPECIFICATION FairSpec

CONSTANTS
    Outcome <- MCOutcome
    Reason <- MCReason
    Dim = {768, 3072}
    None = None
    Answers <- MCAnswers
    Sink = {"broken", "database"}
    Faulty = {"broken"}

INVARIANTS
    TypeOK
    EveryCallIsTraced
    RejectedOnlyIfBlamed
    NothingCalledInVain
    ScriptVerifiesTheSame
    ScriptNamesTheSameFailure

PROPERTIES
    KeepsThePort
    EveryProbeEnds

CHECK_DEADLOCK FALSE
