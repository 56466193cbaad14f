\* Two nodes leave together while one of them publishes a snapshot.
SPECIFICATION PromptSpec
CONSTANTS
    Node <- Two
    Boot <- Two
    User = {u1, u2}
    MaxDraws = 6
    MaxFaults = 0
SYMMETRY UserSymmetry
INVARIANT OneOfThemReports
CHECK_DEADLOCK FALSE
