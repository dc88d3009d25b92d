CONSTANTS
    Properties = {p1, p2}
    Actions = {"click", "inquiry"}
    None = None
    NdcgCut = 1
    RecallCut = 2
    LogLimit = 2
    MinQueries = 1
    MinNdcgGain = 20000
    MinMapGain = 10000
    HitSets = {{p1, p2}}
    KpiDays = 1
    MaxDay = 2
    MaxLogs = 2
    MaxReports = 1
SYMMETRY Symmetry
SPECIFICATION BoundedSpec
INVARIANTS
    TypeOK
    KpiBehind
    DecisionsReported
    AdoptionNeedsAGain
