CONSTANTS
    Threads = {t1, t2}
    Batches = {b1, b2}
    Properties = {p1, p2}
    Models = {"e5-large", "e5-next"}
    Dimension <- OfOneLength
    None = None
    MaxChanges = 2
SYMMETRY Symmetry
SPECIFICATION Spec
INVARIANTS
    TypeOK
    OneEmbedder
    ScoresOfOneSpace
    StoredTogether
