CONSTANTS
    Threads = {t1, t2}
    Actions = {"click", "inquiry"}
    Users = {u1}
    Conditions <- SingleHit
    Properties = {p1}
    PropertyIds = {p1, p9}
    None = None
    MaxLogs = 2
    MaxFeedback = 2
SYMMETRY Symmetry
SPECIFICATION Spec
INVARIANTS
    TypeOK
    ImpressionsMatchLogs
    RatesFresh
    LabelsCounted
    FeedbackCounted
PROPERTIES
    LogsOnlyGrow
    LedgerSpec
