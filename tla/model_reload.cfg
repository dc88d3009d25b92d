CONSTANTS
    Threads = {t1, t2}
    None = None
    MaxSaves = 2
SYMMETRY Symmetry
SPECIFICATION Spec
INVARIANTS
    TypeOK
    PairHonest
    CurrentUnlessRaced
