\* One stream, three batches, a channel of two, every distinct handler shape.
SPECIFICATION FairSpec
CONSTANTS
    Queries = {q1}
    Ops = {"OP_SQL", "OP_QUERY_LOGS", "OP_LOG_PAGE", "OP_PROMQL", "OP_LOG_VOLUME", "OP_ATTR_NAMES"}
    Dbs = {d1}
    NoDb = NoDb
    MaxBatches = 3
    Buffer = 2
    MaxInFlight = 1
INVARIANTS
    TypeOK
    NoDoubleFree
    NothingLeaksAtRest
    BuffersAccountedFor
    DeliveredInOrder
    EndOfStreamIsTruthful
    OnlyAbandonedStrandErrors
    CleanPageHasMeta
    DrainedHoldsNoDb
PROPERTIES EndIsFinal KeepsPromise ParkedNextReturns StreamsComeToRest
