CONSTANTS
    Properties = {p1, p2}
    Actions = {"inquiry"}
    None = None
    NdcgCut = 1
    RecallCut = 2
    LogLimit = 2
    MinQueries = 1
    MinNdcgGain = 20000
    MinMapGain = 10000
    HitSets = {{}, {p1, p2}}
    MaxLogs = 2
SYMMETRY Symmetry
SPECIFICATION Spec
INVARIANTS
    TypeOK
    GroupsMatchLogs
    LabelsReachTraining
PROPERTIES
    ModelLearned
