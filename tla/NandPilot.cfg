SPECIFICATION Spec
CONSTANTS
    N = 4
    Changed = {0, 1, 2, 3}
    Pages = 2
    HeaderLast = TRUE
    RestoreSupported = TRUE
    ResumeSupported = TRUE
    LastCandidate = 1
    MaxSessions = 3
    MaxDisturb = 1
INVARIANTS TypeOK VerifiedHoldsTarget
    CancelFinishesBlock DamageIsJournalled DamageBounded RestoreNotRefused
PROPERTIES HeaderWrittenLast ErasesOnlyOriginal
CHECK_DEADLOCK FALSE
