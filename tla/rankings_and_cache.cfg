CONSTANTS
    Threads = {t1, t2}
    Actions = {"click", "inquiry"}
    Users = {u1}
    Conditions <- TwoConditions
    Properties = {p1, p2}
    PropertyIds = {p1, p2}
    None = None
    MaxLogs = 2
    MaxFeedback = 0
SYMMETRY Symmetry
SPECIFICATION Spec
INVARIANTS
    HandlersMatchTables
    ComparesMatchLogs
    ChangesPlausible
    CacheBacked
    AnswersBacked
