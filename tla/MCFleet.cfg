SPECIFICATION PromptSpec
CONSTANTS
    Node <- Two
    Boot <- One
    User = {u1, u2}
    MaxDraws = 5
    MaxFaults = 1
SYMMETRY UserSymmetry
INVARIANTS
    CacheIsExact
    ViewIsFleet
    ExactlyOneReports
CHECK_DEADLOCK FALSE
