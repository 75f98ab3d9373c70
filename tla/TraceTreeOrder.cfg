\* Two spans that may have one id.
SPECIFICATION TreeSpec
CONSTANTS
    MaxId = 1
    MaxStart = 2
    MaxSpans = 2
INVARIANT ForestIgnoresOrder
