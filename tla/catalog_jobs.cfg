CONSTANTS
    Properties = {p1}
    Contents = {c1, c2}
    Clients = {"sync", "daily"}
    Actions = {"click"}
    None = None
    MaxTasks = 2
    MaxEdits = 1
    MaxImpressions = 1
SPECIFICATION FairSpec
INVARIANTS
    TypeOK
    JobsAwaited
    RatesHeld
    SuccessMeansFeatures
PROPERTIES
    IndexConverges
    FeaturesConverge
