\* QueryLogPage alone, with a context that may be cancelled.
SPECIFICATION Spec
CONSTANTS
    Queries = {q1}
    Ops = {"OP_LOG_PAGE"}
    Dbs = {d1}
    NoDb = NoDb
    MaxBatches = 1
    Buffer = 1
    MaxInFlight = 0
INVARIANT PageMetaNeverLeaks
