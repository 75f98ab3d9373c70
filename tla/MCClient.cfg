\* Every entry point, two batches of two rows; three samples; traces of three spans;
\* queries that set up to three fields; walks with and without a limit over up to
\* four rows, with failing pages, arrivals and expiry; up to four rows at three
\* instants, polled two at a time.
SPECIFICATION ClientSpec
CONSTANTS
    MaxBatches = 2
    MaxRows = 2
    Letters = {"a", "NUL"}
    GroupBy <- LabelKeys
    Values <- LabelValues
    MaxSamples = 3
    MaxId = 2
    MaxStart = 2
    MaxSpans = 3
    Numbers <- WireNumbers
    MaxSet = 3
    Limits = {0, 1, 2, 3}
    DefaultLimit = 2
    MaxTime = 4
    MaxExpired = 2
    MaxFailures = 1
    Limit = 2
    MaxClock = 3
    MaxArrivals = 4
INVARIANTS
    NothingDangles
    ReferencesBalance
    DecodesEveryCell
    OneSeriesPerLabelSet
    OnlyCyclesAreDropped
    ForestIsCanonical
    SetFieldsAreApplied
    WindowIsAsAsked
    ShiftsAreBounded
    WalkIsExact
    OnlyTiesAreMissed
    TimedRowsAreNotReplayed
PROPERTIES
    WalkEnds
    FollowCatchesUp
