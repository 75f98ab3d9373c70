\* Two streams and their slot calls under a cap of one.
SPECIFICATION Spec
CONSTANTS
    Queries = {q1, q2}
    Ops = {"OP_SQL"}
    Dbs = {d1}
    NoDb = NoDb
    MaxBatches = 1
    Buffer = 1
    MaxInFlight = 1
SYMMETRY QuerySymmetry
INVARIANTS
    AdmissionGauge
