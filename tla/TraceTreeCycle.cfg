\* Two spans, each of which may name itself or the other as its parent.
SPECIFICATION TreeSpec
CONSTANTS
    MaxId = 1
    MaxStart = 2
    MaxSpans = 2
INVARIANT NoSpanIsDropped
