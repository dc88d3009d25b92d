CONSTANTS
    Threads = {t1, t2}
    Actions = {"click", "inquiry"}
    Users = {u1}
    Conditions <- OneCondition
    Properties = {p1, p2}
    PropertyIds = {p1, p2}
    None = None
    MaxLogs = 1
    MaxFeedback = 0
SPECIFICATION Spec
INVARIANTS
    ResultIdsReturned
