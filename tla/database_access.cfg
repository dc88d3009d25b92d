CONSTANTS
    Threads = {t1, t2}
    Properties = {p1, p2}
    Rankings <- NoneOrAll
    Actions = {"click"}
    None = None
    PoolSizes = {1, 2}
    MaxUpdates = 1
SPECIFICATION FairSpec
INVARIANTS
    PoolOpenedOnce
    LocksHeldByTransactions
    PoolOfOneFails
PROPERTIES
    AtomicSpec
    TransactionsEnd
