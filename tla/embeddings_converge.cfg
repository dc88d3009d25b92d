CONSTANTS
    Threads = {t1, t2}
    Batches = {b1, b2}
    Properties = {p1}
    Models = {"e5-large", "e5-next"}
    Dimension <- OfOneLength
    None = None
    MaxChanges = 1
SPECIFICATION FairFromLarge
PROPERTIES
    SearchesEnd
    EmbeddingsCatchUp
